----------------------------- MODULE LagProofs ------------------------------
(***************************************************************************)
(* The safety properties of Lag for any length of the stream and any batch *)
(* size.  The commands of one call see different states of Redis; the      *)
(* invariant says what of the earlier replies still holds.                 *)
(***************************************************************************)
EXTENDS Lag, FiniteSetTheorems, TLAPS

\* Trimming takes the oldest entries: what the group lost is behind everything
\* stored.
LostIsBehind == \A l \in lost : \A e \in stored : l < e

\* A call is about a group that exists, and the position it was told about is not
\* ahead of the group's: a group only moves forward.
PositionIsOld ==
  /\ at # "idle" => ld # NoGroup
  /\ at \notin {"idle", "groups"} => group.ld <= ld

\* A loss that counts as standing stands, and trimmedPastGroup saw it.
StandingIsSeen ==
  /\ standing => LossStands
  /\ at \in {"decide", "length"} /\ standing => past

\* The lag Redis told is the backlog of that moment, or NULL.
ToldOrNull == at \in {"stream", "decide"} => group.lag \in {began, Null}

IInv ==
  /\ TypeOK
  /\ LostIsBehind /\ PositionIsOld /\ StandingIsSeen /\ ToldOrNull
  /\ StandingLossIsFlagged /\ ExactCountIsTheBacklog

-----------------------------------------------------------------------------
\* What Redis can answer about the lag and the length are numbers of entries.
LEMMA AnswerType ==
  ASSUME TypeOK PROVE Backlog \in Numbers /\ Length \in Numbers
  <1>1. last \in Nat /\ 1 .. last \subseteq 1 .. MaxId /\ MaxId \in Nat
    BY LagAssumption DEF TypeOK, Numbers, LagAssumption
  <1>2. IsFiniteSet(1 .. MaxId) /\ Cardinality(1 .. MaxId) = MaxId
    BY <1>1, FS_Interval
  <1>3. ASSUME NEW S \in SUBSET (1 .. MaxId) PROVE Cardinality(S) \in Numbers
    <2>1. Cardinality(S) <= MaxId /\ IsFiniteSet(S)
      BY <1>2, <1>3, FS_Subset
    <2>2. Cardinality(S) \in Nat
      BY <2>1, FS_CardinalityType
    <2> QED
      BY <1>1, <2>1, <2>2 DEF Numbers
  <1>4. stored \in SUBSET (1 .. MaxId) /\ Unread \in SUBSET (1 .. MaxId)
    BY <1>1 DEF TypeOK, Unread
  <1> QED
    BY <1>3, <1>4 DEF Backlog, Length

\* Between calls there is no reply and no reading, of the types they have.
LEMMA NothingYetType ==
  NoReply \in Replies /\ NoReading \in Readings /\ 0 \in Numbers
  <1>1. 0 \in Numbers
    BY LagAssumption DEF Numbers, LagAssumption
  <1> QED
    BY <1>1 DEF NoReply, NoReading, Replies, Readings

\* The initial state satisfies the invariant.
LEMMA InitInv == Init => IInv
  <1> SUFFICES ASSUME Init PROVE IInv
    OBVIOUS
  <1>1. /\ last \in Numbers /\ stored \in SUBSET (1 .. last) /\ tomb \in 0 .. last
        /\ ld \in NoGroup .. last /\ lost \in SUBSET (1 .. last)
    BY NothingYetType DEF Init, NoGroup
  <1>2. TypeOK
    BY <1>1, NothingYetType, Zenon DEF Init, TypeOK
  <1> QED
    BY <1>2
    DEF Init, IInv, LostIsBehind, PositionIsOld, StandingIsSeen, ToldOrNull,
        StandingLossIsFlagged, ExactCountIsTheBacklog

\* What happens in Redis beside a call: the stream and the group keep their
\* types, what was lost stays behind what is stored and the group moves forward.
LEMMA ServerInv ==
  ASSUME TypeOK, LostIsBehind, XAdd \/ XTrim \/ XDel \/ NewStreamSource \/ Read
  PROVE  /\ last' \in Numbers /\ stored' \in SUBSET (1 .. last')
         /\ tomb' \in 0 .. last' /\ ld' \in NoGroup .. last'
         /\ lost' \in SUBSET (1 .. last') /\ counted' \in BOOLEAN
         /\ LostIsBehind' /\ ld <= ld' /\ ld \in Int /\ ld' \in Int
  <1>0. /\ last \in Nat /\ last <= MaxId /\ MaxId \in Nat
        /\ tomb \in 0 .. last /\ ld \in NoGroup .. last /\ NoGroup \in Int
        /\ stored \subseteq 1 .. last /\ lost \subseteq 1 .. last
        /\ counted \in BOOLEAN
    BY LagAssumption DEF TypeOK, Numbers, LagAssumption, NoGroup
  <1>1. CASE XAdd
    <2>1. last' = last + 1 /\ last < MaxId /\ stored' = stored \cup {last + 1}
      BY <1>1 DEF XAdd
    <2>2. UNCHANGED <<tomb, ld, counted, lost>>
      BY <1>1 DEF XAdd
    <2>3. LostIsBehind'
      BY <1>0, <2>1, <2>2 DEF LostIsBehind
    <2>4. stored' \subseteq 1 .. last' /\ lost' \subseteq 1 .. last'
      BY <1>0, <2>1, <2>2
    <2> QED
      BY <1>0, <2>1, <2>2, <2>3, <2>4 DEF Numbers
  <1>2. CASE XTrim
    <2>1. PICK upto \in stored :
            /\ stored' = {e \in stored : e > upto}
            /\ lost' = lost \cup {e \in stored : e <= upto /\ ld # NoGroup /\ e > ld}
      BY <1>2 DEF XTrim
    <2>2. UNCHANGED <<last, tomb, ld, counted>>
      BY <1>2 DEF XTrim
    <2>3. LostIsBehind'
      BY <1>0, <2>1 DEF LostIsBehind
    <2>4. stored' \subseteq 1 .. last /\ lost' \subseteq 1 .. last
      BY <1>0, <2>1
    <2> QED
      BY <1>0, <2>2, <2>3, <2>4 DEF Numbers
  <1>3. CASE XDel
    <2>1. PICK e \in stored :
            stored' = stored \ {e} /\ tomb' = IF e > tomb THEN e ELSE tomb
      BY <1>3 DEF XDel
    <2>2. UNCHANGED <<last, ld, counted, lost>>
      BY <1>3 DEF XDel
    <2> QED
      BY <1>0, <2>1, <2>2 DEF LostIsBehind, Numbers
  <1>4. CASE NewStreamSource
    BY <1>0, <1>4 DEF NewStreamSource, LostIsBehind, Numbers
  <1>5. CASE Read
    <2>1. PICK upto \in Unread : ld' = upto
      BY <1>5 DEF Read
    <2>2. UNCHANGED <<last, stored, tomb, lost>> /\ counted' \in BOOLEAN
      BY <1>5 DEF Read
    <2>3. upto \in 1 .. last /\ upto > ld
      BY <1>0, <2>1 DEF Unread
    <2> QED
      BY <1>0, <2>1, <2>2, <2>3 DEF LostIsBehind, Numbers
  <1> QED
    BY <1>1, <1>2, <1>3, <1>4, <1>5

\* What happens in Redis beside a call keeps the invariant of the call.
LEMMA EnvironmentInv ==
  ASSUME IInv, XAdd \/ XTrim \/ XDel \/ NewStreamSource \/ Read PROVE IInv'
  <1>1. /\ last' \in Numbers /\ stored' \in SUBSET (1 .. last')
        /\ tomb' \in 0 .. last' /\ ld' \in NoGroup .. last'
        /\ lost' \in SUBSET (1 .. last') /\ counted' \in BOOLEAN
        /\ LostIsBehind' /\ ld <= ld' /\ ld \in Int /\ ld' \in Int
    BY ServerInv DEF IInv
  <1>2. /\ UNCHANGED <<at, group, past, reading, began>>
        /\ standing' = (standing /\ LossStands')
    BY DEF XAdd, XTrim, XDel, NewStreamSource, Read, Environment
  <1>3. TypeOK' /\ standing' \in BOOLEAN
    BY <1>1, <1>2 DEF IInv, TypeOK
  <1>4. PositionIsOld'
    <2>1. group.ld \in Int /\ NoGroup = -1 /\ ld >= NoGroup
      BY LagAssumption DEF IInv, TypeOK, Replies, Numbers, NoGroup
    <2> QED
      BY <1>1, <1>2, <2>1 DEF IInv, PositionIsOld
  <1>5. StandingIsSeen'
    BY <1>2 DEF IInv, StandingIsSeen
  <1>6. ToldOrNull' /\ StandingLossIsFlagged' /\ ExactCountIsTheBacklog'
    BY <1>2 DEF IInv, ToldOrNull, StandingLossIsFlagged, ExactCountIsTheBacklog
  <1> QED
    BY <1>1, <1>3, <1>4, <1>5, <1>6 DEF IInv

\* A step of StreamSource.Lag keeps the invariant.
LEMMA LagInv == ASSUME IInv, Lag PROVE IInv'
  <1>1. UNCHANGED server
    BY DEF Lag, Call, XInfoGroups, XInfoStream, Decide, XLen, Return
  <1>2. /\ Backlog \in Numbers /\ Length \in Numbers
        /\ LossStands' = LossStands /\ LostIsBehind'
    BY <1>1, AnswerType DEF server, IInv, LossStands, LostIsBehind
  <1>3. /\ last' \in Numbers /\ stored' \in SUBSET (1 .. last')
        /\ tomb' \in 0 .. last' /\ ld' \in NoGroup .. last'
        /\ lost' \in SUBSET (1 .. last') /\ counted' \in BOOLEAN
    BY <1>1 DEF server, IInv, TypeOK
  <1>4. CASE Call
    <2>1. TypeOK'
      BY <1>3, <1>4 DEF Call, IInv, TypeOK, LossStands
    <2>2. PositionIsOld' /\ ToldOrNull' /\ ExactCountIsTheBacklog'
      BY <1>1, <1>4
      DEF Call, server, PositionIsOld, ToldOrNull, ExactCountIsTheBacklog
    <2>3. StandingIsSeen' /\ StandingLossIsFlagged'
      <3>1. standing' => LossStands'
        BY <1>2, <1>4, Zenon DEF Call
      <3> QED
        BY <1>4, <3>1 DEF Call, StandingIsSeen, StandingLossIsFlagged
    <2> QED
      BY <1>2, <2>1, <2>2, <2>3 DEF IInv
  <1>5. CASE XInfoGroups
    <2>1. ld \in Numbers
      BY <1>5, LagAssumption
      DEF XInfoGroups, IInv, PositionIsOld, TypeOK, Numbers, NoGroup, LagAssumption
    <2>2. /\ group' = [ld |-> ld, lag |-> group'.lag, read |-> group'.read]
          /\ group'.ld = ld
          /\ group'.lag = (IF LagIsNull THEN Null ELSE Backlog)
          /\ group'.read = (IF counted THEN ld ELSE 0)
      BY <1>5 DEF XInfoGroups
    <2>3. group' \in Replies
      <3>1. group'.lag \in Numbers \cup {Null} /\ group'.read \in Numbers
        BY <1>2, <2>1, <2>2, NothingYetType
      <3> QED
        BY <2>1, <2>2, <3>1 DEF Replies
    <2>4. TypeOK'
      BY <1>2, <1>3, <1>5, <2>3 DEF XInfoGroups, IInv, TypeOK
    <2>5. ToldOrNull'
      BY <1>5, <2>2 DEF XInfoGroups, ToldOrNull
    <2>6. PositionIsOld'
      BY <1>1, <1>5, <2>1, <2>2
      DEF XInfoGroups, server, IInv, PositionIsOld, Numbers
    <2>7. StandingIsSeen' /\ StandingLossIsFlagged' /\ ExactCountIsTheBacklog'
      BY <1>2, <1>5
      DEF XInfoGroups, IInv, StandingIsSeen, StandingLossIsFlagged,
          ExactCountIsTheBacklog
    <2> QED
      BY <1>2, <2>4, <2>5, <2>6, <2>7 DEF IInv
  <1>6. CASE XInfoStream
    <2>1. TypeOK'
      BY <1>3, <1>6 DEF XInfoStream, IInv, TypeOK, trimmedPastGroup
    <2>2. standing => past'
      <3> SUFFICES ASSUME standing PROVE past'
        OBVIOUS
      <3>1. PICK l \in lost : stored # {} /\ l > ld
        BY DEF IInv, StandingIsSeen, LossStands
      <3>2. /\ group.ld \in Int /\ group.ld <= ld /\ ld \in Int /\ l \in Int
            /\ \A e \in stored : e \in Int /\ l < e
        BY <1>6, LagAssumption
        DEF XInfoStream, IInv, TypeOK, PositionIsOld, LostIsBehind, Replies,
            Numbers, NoGroup, LagAssumption
      <3>3. trimmedPastGroup(group.ld)
        BY <3>1, <3>2 DEF trimmedPastGroup, compareIDs
      <3> QED
        BY <1>6, <3>3, Zenon DEF XInfoStream
    <2>3. PositionIsOld' /\ ToldOrNull'
      BY <1>1, <1>6 DEF XInfoStream, server, IInv, PositionIsOld, ToldOrNull
    <2>4. StandingIsSeen' /\ StandingLossIsFlagged' /\ ExactCountIsTheBacklog'
      BY <1>2, <1>6, <2>2
      DEF XInfoStream, IInv, StandingIsSeen, StandingLossIsFlagged,
          ExactCountIsTheBacklog
    <2> QED
      BY <1>2, <2>1, <2>3, <2>4 DEF IInv
  <1>7. CASE Decide
    <2>1. TypeOK'
      BY <1>3, <1>7 DEF Decide, IInv, TypeOK, Replies, Readings
    <2>2. PositionIsOld' /\ ToldOrNull' /\ StandingIsSeen'
      BY <1>1, <1>2, <1>7
      DEF Decide, server, IInv, PositionIsOld, ToldOrNull, StandingIsSeen
    <2>3. StandingLossIsFlagged'
      <3>1. at = "decide" /\ standing' = standing
        BY <1>7 DEF Decide
      <3>2. at' = "done" => reading'.approximate = past
        BY <1>7 DEF Decide
      <3> QED
        BY <3>1, <3>2, Zenon DEF IInv, StandingIsSeen, StandingLossIsFlagged
    <2>4. ExactCountIsTheBacklog'
      BY <1>7 DEF Decide, IInv, ToldOrNull, ExactCountIsTheBacklog
    <2> QED
      BY <1>2, <2>1, <2>2, <2>3, <2>4 DEF IInv
  <1>8. CASE XLen
    <2>1. TypeOK'
      BY <1>2, <1>3, <1>8 DEF XLen, IInv, TypeOK, Readings
    <2> QED
      BY <1>1, <1>2, <1>8, <2>1
      DEF XLen, server, IInv, PositionIsOld, ToldOrNull, StandingIsSeen,
          StandingLossIsFlagged, ExactCountIsTheBacklog
  <1>9. CASE Return
    <2>1. TypeOK'
      BY <1>3, <1>9, NothingYetType, Zenon DEF Return, IInv, TypeOK
    <2> QED
      BY <1>2, <1>9, <2>1
      DEF Return, IInv, PositionIsOld, ToldOrNull, StandingIsSeen,
          StandingLossIsFlagged, ExactCountIsTheBacklog
  <1> QED
    BY <1>4, <1>5, <1>6, <1>7, <1>8, <1>9 DEF Lag

\* The inductive invariant holds whatever Redis is told to do between the
\* commands of a call.
LEMMA Invariant == Spec => []IInv
  <1>1. IInv /\ [Next]_vars => IInv'
    <2> SUFFICES ASSUME IInv, [Next]_vars PROVE IInv'
      OBVIOUS
    <2>1. CASE UNCHANGED vars
      <3>1. TypeOK'
        BY <2>1 DEF vars, server, lagVars, IInv, TypeOK
      <3> QED
        BY <2>1, <3>1
        DEF vars, server, lagVars, IInv, LostIsBehind, PositionIsOld, ToldOrNull,
            StandingIsSeen, LossStands, StandingLossIsFlagged,
            ExactCountIsTheBacklog
    <2> QED
      BY <2>1, EnvironmentInv, LagInv DEF Next
  <1> QED
    BY <1>1, InitInv, PTL DEF Spec

-----------------------------------------------------------------------------
\* Every variable of a call of StreamSource.Lag keeps its type; a reading is a
\* number of entries the stream can hold or the -1 of a lag Redis cannot tell.
THEOREM TypeCorrect == Spec => []TypeOK
  BY Invariant, PTL DEF IInv

\* A loss that stands for a whole call of StreamSource.Lag is never returned as
\* an exact number, whatever Redis executes between its commands.
THEOREM LossIsFlagged == Spec => []StandingLossIsFlagged
  BY Invariant, PTL DEF IInv

\* A number of entries not marked approximate is the backlog at the moment of
\* XINFO GROUPS, whatever is trimmed, deleted or read (StreamSource.Lag).
THEOREM ExactCountIsTrue == Spec => []ExactCountIsTheBacklog
  BY Invariant, PTL DEF IInv
=============================================================================
