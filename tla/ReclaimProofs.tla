--------------------------- MODULE ReclaimProofs ----------------------------
(***************************************************************************)
(* The safety properties of Reclaim for any number of instances, entries,  *)
(* batch sizes and idle limits.                                            *)
(***************************************************************************)
EXTENDS Reclaim, RedisStreamProofs, WellFoundedInduction

-----------------------------------------------------------------------------
\* The deliveries are taken one after the other from the oldest (handle,
\* reclaimOne): a set of entries that is not empty has an oldest one.
LEMMA MinIsMember ==
  ASSUME NEW S, S \subseteq Nat, S # {}
  PROVE  Min(S) \in S /\ \A y \in S : Min(S) <= y
  <1> DEFINE R == OpToRel(<, Nat)
  <1>1. \A x, y \in Nat : x < y => <<x, y>> \in R
    BY DEF OpToRel
  <1>2. IsWellFoundedOn(R, Nat)
    BY NatLessThanWellFounded
  <1> HIDE DEF R
  <1>3. PICK x \in S : \A y \in S : ~ (<<y, x>> \in R)
    BY <1>2, WFMin
  <1>4. \A y \in S : x <= y
    <2> SUFFICES ASSUME NEW y \in S, ~(x <= y) PROVE FALSE
      OBVIOUS
    <2>1. x \in Nat /\ y \in Nat
      OBVIOUS
    <2>2. y < x
      BY <2>1
    <2>3. <<y, x>> \in R
      BY <1>1, <2>1, <2>2, Zenon
    <2> QED
      BY <1>3, <2>3, Zenon
  <1> QED
    BY <1>4 DEF Min

\* The oldest entry of a batch or of the claimed deliveries is an entry.
LEMMA OldestIsAnEntry ==
  ASSUME NEW S \in SUBSET Ids, S # {} PROVE Min(S) \in S /\ Min(S) \in Ids
  <1>1. S \subseteq Nat
    BY MaxIdAssumption DEF Ids
  <1> QED
    BY <1>1, MinIsMember

-----------------------------------------------------------------------------
(***************************************************************************)
(* The inductive invariant.                                                *)
(***************************************************************************)

\* What the group was not given is pending for nobody and claimed by nobody.
UnreadIsFree ==
  /\ \A e \in Ids : e > ld => pel[e] = None
  /\ \A e \in claimed : e <= ld

\* An entry before an instance is pending for it, for the task, or not at all;
\* while it is pending for the instance it has been idle no longer than the
\* batch is old.  The clocks of Redis and of the instance are two; this is what
\* ties them, and what makes MinIdle a protection.
BatchIsGiven ==
  \A c \in Instances : \A e \in batch[c] :
    /\ e <= ld
    /\ pel[e] \in {c, Task, None}
    /\ pel[e] = c => idle[e] <= age[c]

\* A group that exists was created at some position of the stream.
GroupHasStart == ld # NoGroup => start # NoGroup

IInv ==
  /\ TypeOK
  /\ UnreadIsFree /\ BatchIsGiven /\ GroupHasStart
  /\ FreshWorkIsNotClaimed /\ LeftWithARecord

-----------------------------------------------------------------------------
(***************************************************************************)
(* Types.                                                                  *)
(***************************************************************************)

\* A page of XAUTOCLAIM (Client.Reclaim) claims pending entries that are stored
\* and have been idle for MinIdle, and nothing else.
LEMMA ClaimsAreIdle ==
  ASSUME TypeOK
  PROVE  /\ Claims \subseteq Ids /\ Removed \subseteq Ids
         /\ \A e \in Claims \cup Removed : pel[e] # None
         /\ \A e \in Claims : idle[e] >= MinIdle
  BY DEF Claims, Removed, Page, Scanned, Pending, Claimable

\* The cursor of the next page is one Redis may return.
LEMMA CursorType ==
  ASSUME TypeOK PROVE NextCursor \in 0 .. MaxId
  <1> DEFINE rest == {e \in Pending : e > Max(Page)}
  <1>1. rest # {} => Min(rest) \in Ids
    <2>1. rest \in SUBSET Ids
      BY DEF Pending
    <2> QED
      BY <2>1, OldestIsAnEntry
  <1> QED
    BY <1>1, MaxIdAssumption DEF NextCursor, Ids

\* The initial state is well typed.
LEMMA InitType == Init => TypeOK
  BY MaxIdAssumption, ReclaimAssumption
  DEF Init, RedisInit, TypeOK, RedisTypeOK, NoGroup

\* XAUTOCLAIM keeps its part of the state well typed.
LEMMA AutoClaimType ==
  ASSUME TypeOK, XAutoClaim
  PROVE  /\ RedisTypeOK' /\ idle' \in [Ids -> 0 .. MinIdle]
         /\ unseen' \in [Consumers -> 0 .. RetireIdle]
         /\ members' \in SUBSET Consumers /\ dropped' \in SUBSET Ids
         /\ UNCHANGED <<batch, resolved, age>>
  <1>1. pel' \in [Ids -> Consumers \cup {None}]
    BY ReclaimAssumption DEF XAutoClaim, TypeOK, RedisTypeOK
  <1>2. RedisTypeOK'
    BY <1>1 DEF XAutoClaim, TypeOK, RedisTypeOK
  <1> QED
    BY <1>2, ClaimsAreIdle, ReclaimAssumption DEF XAutoClaim, TypeOK, instanceVars

\* An instance that reads (Read, ReadNothing) keeps the clocks well typed.
LEMMA SeenType ==
  ASSUME TypeOK, NEW c \in Instances, Seen(c)
  PROVE  /\ unseen' \in [Consumers -> 0 .. RetireIdle]
         /\ members' \in SUBSET Consumers
  BY ReclaimAssumption DEF Seen, TypeOK, Instances

\* Types are kept by every action of the task, the instances and Redis.
LEMMA NextType == TypeOK /\ [Next]_vars => TypeOK'
  <1> SUFFICES ASSUME TypeOK, [Next]_vars PROVE TypeOK'
    OBVIOUS
  <1> USE DEF instanceVars, clockVars, taskVars
  <1>1. CASE Gateway
    BY <1>1, GatewayType DEF Gateway, TypeOK
  <1>2. CASE NewStreamSource
    BY <1>2, XGroupCreateType DEF NewStreamSource, TypeOK
  <1>3. CASE Tick
    <2>1. RedisTypeOK'
      BY <1>3, RedisUnchanged DEF Tick, TypeOK
    <2>2. idle' \in [Ids -> 0 .. MinIdle]
      BY <1>3, ReclaimAssumption DEF Tick, TypeOK, Smaller
    <2>3. unseen' \in [Consumers -> 0 .. RetireIdle]
      BY <1>3, ReclaimAssumption DEF Tick, TypeOK, Smaller
    <2>4. age' \in [Instances -> 0 .. MinIdle]
      BY <1>3, ReclaimAssumption DEF Tick, TypeOK, Smaller
    <2> QED
      BY <1>3, <2>1, <2>2, <2>3, <2>4 DEF Tick, TypeOK
  <1>4. ASSUME NEW c \in Instances, Read(c) PROVE TypeOK'
    <2>1. RedisTypeOK'
      BY <1>4, XReadGroupType, ReclaimAssumption DEF Read, TypeOK, Instances
    <2>2. batch' \in [Instances -> SUBSET Ids]
      <3>1. Unread \in Ids /\ ReadUpTo(BatchSize) \in Ids
        BY <1>4, ReadRange, ReclaimAssumption DEF Read, XReadGroup, TypeOK
      <3>2. Unread .. ReadUpTo(BatchSize) \subseteq Ids
        BY <3>1, MaxIdAssumption DEF Ids
      <3> QED
        BY <1>4, <3>2 DEF Read, TypeOK
    <2>3. idle' \in [Ids -> 0 .. MinIdle] /\ age' \in [Instances -> 0 .. MinIdle]
      BY <1>4, ReclaimAssumption DEF Read, Given, TypeOK
    <2> QED
      BY <1>4, <2>1, <2>2, <2>3, SeenType DEF Read, Given, TaskElsewhere, TypeOK
  <1>5. ASSUME NEW c \in Instances, ReadNothing(c) PROVE TypeOK'
    BY <1>5, RedisUnchanged, SeenType DEF ReadNothing, TaskElsewhere, TypeOK
  <1>6. ASSUME NEW c \in Instances, Resolve(c) PROVE TypeOK'
    <2>1. Min(batch[c]) \in Ids
      BY <1>6, OldestIsAnEntry DEF Resolve, TypeOK
    <2> QED
      BY <1>6, <2>1, RedisUnchanged DEF Resolve, TypeOK
  <1>7. ASSUME NEW c \in Instances, Ack(c) PROVE TypeOK'
    <2>1. Min(batch[c]) \in Ids
      BY <1>7, OldestIsAnEntry DEF Ack, TypeOK
    <2>2. RedisTypeOK'
      BY <1>7, <2>1, XAckType, RedisUnchanged DEF Ack, TypeOK
    <2>3. batch' \in [Instances -> SUBSET Ids]
      BY <1>7 DEF Ack, TypeOK
    <2> QED
      BY <1>7, <2>2, <2>3 DEF Ack, TypeOK
  <1>8. ASSUME NEW c \in Instances, Abandon(c) PROVE TypeOK'
    BY <1>8, RedisUnchanged DEF Abandon, TypeOK
  <1>9. CASE StartPass
    BY <1>9, RedisUnchanged DEF StartPass, TypeOK
  <1>10. CASE ClaimPage
    BY <1>10, AutoClaimType, ClaimsAreIdle, CursorType, MaxIdAssumption
    DEF ClaimPage, TypeOK
  <1>11. CASE AckReclaimed
    <2>1. Min(claimed) \in Ids
      BY <1>11, OldestIsAnEntry DEF AckReclaimed, TypeOK
    <2> QED
      BY <1>11, <2>1, XAckType DEF AckReclaimed, TypeOK
  <1>12. CASE XInfoConsumers
    BY <1>12, RedisUnchanged DEF XInfoConsumers, TypeOK
  <1>13. CASE PassReturns
    BY <1>13, RedisUnchanged, MaxIdAssumption DEF PassReturns, PassEnds, TypeOK
  <1>14. CASE PassAborts
    BY <1>14, RedisUnchanged, MaxIdAssumption DEF PassAborts, PassEnds, TypeOK
  <1>15. CASE ClaimReplyLost
    BY <1>15, AutoClaimType, MaxIdAssumption DEF ClaimReplyLost, PassEnds, TypeOK
  <1>16. CASE AckReclaimedFails
    <2>1. Min(claimed) \in Ids
      BY <1>16, OldestIsAnEntry DEF AckReclaimedFails, TypeOK
    <2>2. RedisTypeOK'
      BY <1>16, <2>1, XAckType, RedisUnchanged DEF AckReclaimedFails, TypeOK
    <2> QED
      BY <1>16, <2>1, <2>2, MaxIdAssumption DEF AckReclaimedFails, PassEnds, TypeOK
  <1>17. ASSUME NEW c \in Consumers, XGroupDelConsumer(c) PROVE TypeOK'
    <2>1. RedisTypeOK'
      BY <1>17 DEF XGroupDelConsumer, TypeOK, RedisTypeOK
    <2> QED
      BY <1>17, <2>1 DEF XGroupDelConsumer, TypeOK
  <1>18. CASE UNCHANGED vars
    BY <1>18, RedisUnchanged DEF vars, TypeOK
  <1> QED
    BY <1>1, <1>2, <1>3, <1>4, <1>5, <1>6, <1>7, <1>8, <1>9, <1>10, <1>11, <1>12,
       <1>13, <1>14, <1>15, <1>16, <1>17, <1>18
    DEF Next, InstanceStep, TaskStep, Fault

-----------------------------------------------------------------------------
(***************************************************************************)
(* Each part of the invariant is kept.                                     *)
(***************************************************************************)

\* A read (StreamSource.Read) gives the instance exactly the next stored entries.
LEMMA ReadEffect ==
  ASSUME TypeOK, NEW c \in Instances, Read(c)
  PROVE  \E lo \in Ids, up \in Ids :
           /\ lo > ld /\ up >= lo /\ ld' = up /\ ld \in Int /\ ld # NoGroup
           /\ pel' = [e \in Ids |-> IF e \in lo .. up THEN c ELSE pel[e]]
           /\ batch' \in {batch, [batch EXCEPT ![c] = lo .. up]}
           /\ skipped' = skipped \cup (ld + 1 .. lo - 1)
           /\ start' = start
  <1>1. /\ Unread \in ld + 1 .. last /\ Unread \in Ids
        /\ ReadUpTo(BatchSize) \in Unread .. last /\ ReadUpTo(BatchSize) \in Ids
    BY ReadRange, ReclaimAssumption DEF Read, XReadGroup, TypeOK
  <1>2. ld \in Int /\ last \in Int
    BY MaxIdAssumption DEF TypeOK, RedisTypeOK, NoGroup
  <1> USE <1>1
  <1> WITNESS Unread \in Ids, ReadUpTo(BatchSize) \in Ids
  <1> QED
    BY <1>2 DEF Read, XReadGroup

\* What was not given to the group stays free, whatever Redis executes.
LEMMA NextUnread == TypeOK /\ UnreadIsFree /\ [Next]_vars => UnreadIsFree'
  <1> SUFFICES ASSUME TypeOK, UnreadIsFree, [Next]_vars PROVE UnreadIsFree'
    OBVIOUS
  <1> USE DEF instanceVars, clockVars, taskVars, redisVars
  <1>1. CASE Gateway
    BY <1>1 DEF Gateway, XAdd, XTrim, UnreadIsFree
  <1>2. CASE NewStreamSource
    <2>1. last \in Nat /\ ld = -1 /\ ld' = last
      BY <1>2, MaxIdAssumption
      DEF NewStreamSource, XGroupCreate, TypeOK, RedisTypeOK, NoGroup
    <2>2. UNCHANGED <<pel, claimed>>
      BY <1>2 DEF NewStreamSource, XGroupCreate
    <2> QED
      BY <2>1, <2>2 DEF UnreadIsFree, TypeOK, Ids
  <1>3. CASE Tick
    BY <1>3 DEF Tick, UnreadIsFree
  <1>4. ASSUME NEW c \in Instances, Read(c) PROVE UnreadIsFree'
    <2>1. PICK lo \in Ids, up \in Ids :
            /\ lo > ld /\ up >= lo /\ ld' = up /\ ld \in Int
            /\ pel' = [e \in Ids |-> IF e \in lo .. up THEN c ELSE pel[e]]
      BY <1>4, ReadEffect
    <2>2. UNCHANGED claimed
      BY <1>4 DEF Read, TaskElsewhere
    <2> QED
      BY <2>1, <2>2 DEF UnreadIsFree, TypeOK, Ids
  <1>5. ASSUME NEW c \in Instances, ReadNothing(c) \/ Resolve(c) \/ Abandon(c)
        PROVE  UnreadIsFree'
    BY <1>5 DEF ReadNothing, Resolve, Abandon, TaskElsewhere, UnreadIsFree
  <1>6. ASSUME NEW c \in Instances, Ack(c) PROVE UnreadIsFree'
    BY <1>6 DEF Ack, XAck, UnreadIsFree, TypeOK, RedisTypeOK
  <1>7. CASE StartPass \/ XInfoConsumers \/ PassReturns \/ PassAborts
    BY <1>7 DEF StartPass, XInfoConsumers, PassReturns, PassAborts, PassEnds,
       UnreadIsFree
  <1>8. CASE XAutoClaim /\ claimed' \subseteq claimed \cup Claims
    <2>1. ld \in Int
      BY MaxIdAssumption DEF TypeOK, RedisTypeOK, NoGroup
    <2>2. \A e \in Claims : e \in Int /\ e <= ld
      BY <2>1, ClaimsAreIdle DEF UnreadIsFree, Ids
    <2>3. \A e \in Ids : e > ld => pel'[e] = None
      BY <1>8, <2>1, <2>2 DEF XAutoClaim, UnreadIsFree
    <2> QED
      BY <1>8, <2>2, <2>3 DEF XAutoClaim, UnreadIsFree
  <1>9. CASE AckReclaimed \/ AckReclaimedFails
    BY <1>9 DEF AckReclaimed, AckReclaimedFails, PassEnds, XAck, UnreadIsFree,
       TypeOK, RedisTypeOK
  <1>10. ASSUME NEW c \in Consumers, XGroupDelConsumer(c) PROVE UnreadIsFree'
    BY <1>10 DEF XGroupDelConsumer, UnreadIsFree
  <1>11. CASE UNCHANGED vars
    BY <1>11 DEF vars, UnreadIsFree
  <1>12. ClaimPage \/ ClaimReplyLost =>
           XAutoClaim /\ claimed' \subseteq claimed \cup Claims
    BY DEF ClaimPage, ClaimReplyLost, PassEnds
  <1> QED
    BY <1>1, <1>2, <1>3, <1>4, <1>5, <1>6, <1>7, <1>8, <1>9, <1>10, <1>11, <1>12
    DEF Next, InstanceStep, TaskStep, Fault

\* An entry before an instance keeps to the clocks: handing out, acknowledging,
\* ticking and claiming never leave it idle for longer than its batch is old, and
\* so no page of XAUTOCLAIM takes it before MinIdle.
LEMMA NextBatch ==
  TypeOK /\ UnreadIsFree /\ BatchIsGiven /\ FreshWorkIsNotClaimed /\ [Next]_vars
    => BatchIsGiven' /\ FreshWorkIsNotClaimed'
  <1> SUFFICES ASSUME TypeOK, UnreadIsFree, BatchIsGiven, FreshWorkIsNotClaimed,
                      [Next]_vars
               PROVE  BatchIsGiven' /\ FreshWorkIsNotClaimed'
    OBVIOUS
  <1> USE DEF instanceVars, clockVars, taskVars, redisVars
  <1>0. /\ Task \in Consumers /\ Task \notin Instances /\ None \notin Consumers
        /\ Instances \subseteq Consumers /\ MinIdle \in Nat \ {0} /\ ld \in Int
    BY ReclaimAssumption, NoneAssumption, MaxIdAssumption
    DEF Instances, TypeOK, RedisTypeOK, NoGroup
  <1>1. CASE Gateway
    BY <1>1 DEF Gateway, XAdd, XTrim, BatchIsGiven, FreshWorkIsNotClaimed
  <1>2. CASE NewStreamSource
    <2>1. ld = -1 /\ UNCHANGED <<batch, pel, idle, age, claimed>>
      BY <1>2 DEF NewStreamSource, XGroupCreate, NoGroup
    <2>2. \A c \in Instances : batch[c] = {}
      BY <2>1 DEF BatchIsGiven, TypeOK, Ids
    <2> QED
      BY <2>1, <2>2 DEF BatchIsGiven, FreshWorkIsNotClaimed
  <1>3. CASE Tick
    <2>1. UNCHANGED <<batch, pel, ld, claimed>>
      BY <1>3 DEF Tick
    <2>2. ASSUME NEW c \in Instances, NEW e \in batch[c]
          PROVE  /\ pel[e] = c => idle'[e] <= age'[c]
                 /\ age'[c] < MinIdle => age[c] < MinIdle
      <3>1. e \in Ids /\ idle[e] \in 0 .. MinIdle /\ age[c] \in 0 .. MinIdle
        BY <2>2 DEF TypeOK
      <3>2. age'[c] = Smaller(age[c] + 1, MinIdle)
        BY <1>3, <2>2 DEF Tick
      <3>3. pel[e] # None => idle'[e] = Smaller(idle[e] + 1, MinIdle)
        BY <1>3, <3>1 DEF Tick
      <3>4. pel[e] = c => pel[e] # None /\ idle[e] <= age[c]
        BY <1>0, <2>2 DEF BatchIsGiven
      <3> QED
        BY <1>0, <3>1, <3>2, <3>3, <3>4 DEF Smaller
    <2> QED
      BY <2>1, <2>2 DEF BatchIsGiven, FreshWorkIsNotClaimed
  <1>4. ASSUME NEW c \in Instances, Read(c)
        PROVE  BatchIsGiven' /\ FreshWorkIsNotClaimed'
    <2>1. PICK lo \in Ids, up \in Ids :
            /\ lo > ld /\ up >= lo /\ ld' = up
            /\ pel' = [e \in Ids |-> IF e \in lo .. up THEN c ELSE pel[e]]
            /\ batch' \in {batch, [batch EXCEPT ![c] = lo .. up]}
      BY <1>4, ReadEffect
    <2>2. /\ UNCHANGED claimed /\ batch[c] = {}
          /\ age' = [age EXCEPT ![c] = 0]
          /\ idle' = [e \in Ids |-> IF pel'[e] # pel[e] THEN 0 ELSE idle[e]]
      BY <1>4 DEF Read, TaskElsewhere, Given
    <2>3. ASSUME NEW d \in Instances, d # c, NEW e \in batch'[d]
          PROVE  /\ e \in batch[d] /\ pel'[e] = pel[e] /\ idle'[e] = idle[e]
                 /\ age'[d] = age[d] /\ e <= ld'
      <3>1. e \in batch[d]
        BY <2>1, <2>3 DEF TypeOK
      <3>2. e \in Ids /\ e <= ld
        BY <3>1 DEF BatchIsGiven, TypeOK
      <3> QED
        BY <1>0, <2>1, <2>2, <2>3, <3>1, <3>2 DEF TypeOK, Ids
    <2>4. ASSUME NEW e \in batch'[c]
          PROVE  /\ pel'[e] = c /\ idle'[e] = 0 /\ age'[c] = 0 /\ e <= ld'
                 /\ e \notin claimed
      <3>1. e \in lo .. up /\ e \in Ids
        BY <2>1, <2>2, <2>4, MaxIdAssumption DEF TypeOK, Ids
      <3>2. e > ld /\ e <= up
        BY <1>0, <2>1, <3>1 DEF Ids
      <3>3. pel[e] = None
        BY <3>1, <3>2 DEF UnreadIsFree
      <3>4. e \notin claimed
        BY <1>0, <3>1, <3>2 DEF UnreadIsFree, Ids
      <3> QED
        BY <1>0, <2>1, <2>2, <3>1, <3>2, <3>3, <3>4 DEF TypeOK
    <2>5. BatchIsGiven'
      BY <1>0, <2>3, <2>4 DEF BatchIsGiven
    <2>6. FreshWorkIsNotClaimed'
      BY <1>0, <2>2, <2>3, <2>4 DEF FreshWorkIsNotClaimed
    <2> QED
      BY <2>5, <2>6
  <1>5. ASSUME NEW c \in Instances, ReadNothing(c) \/ Resolve(c) \/ Abandon(c)
        PROVE  BatchIsGiven' /\ FreshWorkIsNotClaimed'
    <2>1. /\ UNCHANGED <<pel, ld, idle, age, claimed>>
          /\ \A d \in Instances : batch'[d] \subseteq batch[d]
      BY <1>5 DEF ReadNothing, Resolve, Abandon, TaskElsewhere, TypeOK
    <2> QED
      BY <2>1 DEF BatchIsGiven, FreshWorkIsNotClaimed
  <1>6. ASSUME NEW c \in Instances, Ack(c)
        PROVE  BatchIsGiven' /\ FreshWorkIsNotClaimed'
    <2>1. /\ UNCHANGED <<ld, idle, age, claimed>>
          /\ \A d \in Instances : batch'[d] \subseteq batch[d]
          /\ \A e \in Ids : pel'[e] \in {pel[e], None}
      BY <1>6 DEF Ack, XAck, TypeOK, RedisTypeOK
    <2> QED
      BY <1>0, <2>1 DEF BatchIsGiven, FreshWorkIsNotClaimed, TypeOK
  <1>7. CASE StartPass \/ XInfoConsumers \/ PassReturns \/ PassAborts
    BY <1>7 DEF StartPass, XInfoConsumers, PassReturns, PassAborts, PassEnds,
       BatchIsGiven, FreshWorkIsNotClaimed
  <1>8. CASE XAutoClaim /\ claimed' \subseteq claimed \cup Claims
    <2>1. /\ UNCHANGED <<batch, ld, age>>
          /\ \A e \in Claims : pel'[e] = Task
          /\ \A e \in Ids \ Claims : pel'[e] \in {pel[e], None} /\ idle'[e] = idle[e]
      BY <1>8, ClaimsAreIdle DEF XAutoClaim
    <2>2. ASSUME NEW c \in Instances, NEW e \in batch[c], e \in Claims
          PROVE  ~(age[c] < MinIdle)
      <3>1. e \in Ids /\ pel[e] # None /\ idle[e] >= MinIdle
        BY <2>2, ClaimsAreIdle
      <3>2. age[c] < MinIdle => pel[e] = c
        BY <2>2, <3>1 DEF BatchIsGiven, FreshWorkIsNotClaimed
      <3> QED
        BY <1>0, <2>2, <3>1, <3>2 DEF BatchIsGiven, TypeOK
    <2>3. BatchIsGiven'
      BY <1>0, <2>1 DEF BatchIsGiven, TypeOK
    <2>4. FreshWorkIsNotClaimed'
      BY <1>0, <1>8, <2>1, <2>2 DEF FreshWorkIsNotClaimed, TypeOK
    <2> QED
      BY <2>3, <2>4
  <1>9. CASE AckReclaimed \/ AckReclaimedFails
    <2>1. /\ UNCHANGED <<batch, ld, idle, age>>
          /\ claimed' \subseteq claimed
          /\ \A e \in Ids : pel'[e] \in {pel[e], None}
      BY <1>9 DEF AckReclaimed, AckReclaimedFails, PassEnds, XAck, TypeOK,
         RedisTypeOK
    <2> QED
      BY <1>0, <2>1 DEF BatchIsGiven, FreshWorkIsNotClaimed, TypeOK
  <1>10. ASSUME NEW c \in Consumers, XGroupDelConsumer(c)
         PROVE  BatchIsGiven' /\ FreshWorkIsNotClaimed'
    <2>1. /\ UNCHANGED <<batch, ld, idle, age, claimed>>
          /\ \A e \in Ids : pel'[e] \in {pel[e], None}
      BY <1>10 DEF XGroupDelConsumer
    <2> QED
      BY <1>0, <2>1 DEF BatchIsGiven, FreshWorkIsNotClaimed, TypeOK
  <1>11. CASE UNCHANGED vars
    BY <1>11 DEF vars, BatchIsGiven, FreshWorkIsNotClaimed
  <1>12. ClaimPage \/ ClaimReplyLost =>
           XAutoClaim /\ claimed' \subseteq claimed \cup Claims
    BY DEF ClaimPage, ClaimReplyLost, PassEnds
  <1> QED
    BY <1>1, <1>2, <1>3, <1>4, <1>5, <1>6, <1>7, <1>8, <1>9, <1>10, <1>11, <1>12
    DEF Next, InstanceStep, TaskStep, Fault

\* Every way out of the pending list leaves a record (handle, reclaimOne, and
\* what Redis removes by itself).
LEMMA NextRecord ==
  TypeOK /\ GroupHasStart /\ LeftWithARecord /\ [Next]_vars => LeftWithARecord'
  <1> SUFFICES ASSUME TypeOK, GroupHasStart, LeftWithARecord, [Next]_vars
               PROVE  LeftWithARecord'
    OBVIOUS
  <1> USE DEF instanceVars, clockVars, taskVars, redisVars
  <1>0. /\ None \notin Consumers /\ Instances \subseteq Consumers
        /\ start \in Int /\ ld \in Int /\ start >= -1 /\ ld <= MaxId
    BY NoneAssumption, MaxIdAssumption
    DEF Instances, TypeOK, RedisTypeOK, NoGroup
  <1>r. start + 1 .. ld \subseteq Ids
    BY <1>0, MaxIdAssumption DEF GroupHasStart, NoGroup, TypeOK, RedisTypeOK, Ids
  <1>1. CASE Gateway
    BY <1>1 DEF Gateway, XAdd, XTrim, LeftWithARecord
  <1>2. CASE NewStreamSource
    <2>1. start' = last /\ ld' = last /\ last \in Int
      BY <1>2 DEF NewStreamSource, XGroupCreate, TypeOK, RedisTypeOK
    <2>2. start' + 1 .. ld' = {}
      BY <2>1
    <2> QED
      BY <2>2 DEF LeftWithARecord
  <1>3. CASE Tick
    BY <1>3 DEF Tick, LeftWithARecord
  <1>4. ASSUME NEW c \in Instances, Read(c) PROVE LeftWithARecord'
    <2>1. PICK lo \in Ids, up \in Ids :
            /\ lo > ld /\ up >= lo /\ ld' = up /\ ld # NoGroup
            /\ pel' = [e \in Ids |-> IF e \in lo .. up THEN c ELSE pel[e]]
            /\ skipped' = skipped \cup (ld + 1 .. lo - 1)
            /\ start' = start
      BY <1>4, ReadEffect
    <2>2. UNCHANGED <<resolved, logged, dropped>>
      BY <1>4 DEF Read, TaskElsewhere
    <2>3. ASSUME NEW e \in start + 1 .. up, pel'[e] = None
          PROVE  e \in resolved \cup logged \cup skipped' \cup dropped
      <3>1. CASE e <= ld
        <4>1. e \in start + 1 .. ld /\ e \in Ids
          BY <1>0, <1>r, <2>3, <3>1 DEF Ids
        <4> QED
          BY <1>0, <2>1, <2>3, <3>1, <4>1 DEF LeftWithARecord, Ids
      <3>2. CASE e > ld /\ e < lo
        BY <1>0, <2>1, <2>3, <3>2 DEF Ids
      <3>3. CASE e >= lo
        BY <1>0, <2>1, <2>3, <3>3, MaxIdAssumption DEF Ids
      <3> QED
        BY <1>0, <2>1, <2>3, <3>1, <3>2, <3>3 DEF Ids
    <2> QED
      BY <2>1, <2>2, <2>3 DEF LeftWithARecord
  <1>5. ASSUME UNCHANGED <<ld, start, skipped>>,
               \A e \in Ids : pel'[e] = None /\ pel[e] # None =>
                 e \in resolved' \cup logged' \cup dropped',
               resolved \subseteq resolved', logged \subseteq logged',
               dropped \subseteq dropped'
        PROVE  LeftWithARecord'
    BY <1>5, <1>r DEF LeftWithARecord
  <1>6. ASSUME NEW c \in Instances, ReadNothing(c) \/ Resolve(c) \/ Abandon(c)
        PROVE  LeftWithARecord'
    BY <1>5, <1>6 DEF ReadNothing, Resolve, Abandon, TaskElsewhere
  <1>7. ASSUME NEW c \in Instances, Ack(c) PROVE LeftWithARecord'
    <2>1. /\ UNCHANGED <<ld, start, skipped, resolved, logged, dropped>>
          /\ \A e \in Ids : pel'[e] # pel[e] => e \in resolved
      BY <1>7 DEF Ack, XAck, TypeOK, RedisTypeOK
    <2> QED
      BY <1>5, <2>1
  <1>8. CASE StartPass \/ XInfoConsumers \/ PassReturns \/ PassAborts
    BY <1>5, <1>8 DEF StartPass, XInfoConsumers, PassReturns, PassAborts, PassEnds
  <1>9. CASE ClaimPage \/ ClaimReplyLost
    <2>1. /\ UNCHANGED <<ld, start, skipped, resolved, logged>>
          /\ dropped' = dropped \cup Removed
          /\ pel' = [e \in Ids |-> IF e \in Claims THEN Task
                                   ELSE IF e \in Removed THEN None ELSE pel[e]]
      BY <1>9 DEF ClaimPage, ClaimReplyLost, XAutoClaim
    <2> QED
      BY <1>0, <1>5, <2>1, ReclaimAssumption
  <1>10. CASE AckReclaimed \/ AckReclaimedFails
    <2>1. /\ UNCHANGED <<ld, start, skipped, resolved, dropped>>
          /\ logged' = logged \cup {Min(claimed)}
          /\ \A e \in Ids : pel'[e] # pel[e] => e = Min(claimed)
      BY <1>10 DEF AckReclaimed, AckReclaimedFails, XAck, TypeOK, RedisTypeOK
    <2> QED
      BY <1>5, <2>1
  <1>11. ASSUME NEW c \in Consumers, XGroupDelConsumer(c) PROVE LeftWithARecord'
    BY <1>5, <1>11 DEF XGroupDelConsumer
  <1>12. CASE UNCHANGED vars
    BY <1>12 DEF vars, LeftWithARecord
  <1> QED
    BY <1>1, <1>2, <1>3, <1>4, <1>6, <1>7, <1>8, <1>9, <1>10, <1>11, <1>12
    DEF Next, InstanceStep, TaskStep, Fault

\* XGROUP CREATE is the only command that gives a group its start.
LEMMA NextStart == TypeOK /\ GroupHasStart /\ [Next]_vars => GroupHasStart'
  <1> SUFFICES ASSUME TypeOK, GroupHasStart, [Next]_vars PROVE GroupHasStart'
    OBVIOUS
  <1>1. CASE NewStreamSource
    BY <1>1 DEF NewStreamSource, XGroupCreate, TypeOK, RedisTypeOK, NoGroup,
       GroupHasStart
  <1>2. ASSUME NEW c \in Instances, Read(c) PROVE GroupHasStart'
    BY <1>2 DEF Read, XReadGroup, GroupHasStart
  <1>3. CASE UNCHANGED <<ld, start>>
    BY <1>3 DEF GroupHasStart
  <1>4. [Next]_vars => \/ NewStreamSource
                       \/ \E c \in Instances : Read(c)
                       \/ UNCHANGED <<ld, start>>
    BY DEF Next, vars, redisVars, Gateway, XAdd, XTrim, Tick, InstanceStep,
       ReadNothing, Resolve, Ack, XAck, Abandon, TaskStep, StartPass, ClaimPage,
       XAutoClaim, AckReclaimed, XInfoConsumers, PassReturns, Fault, PassAborts,
       ClaimReplyLost, AckReclaimedFails, XGroupDelConsumer
  <1> QED
    BY <1>1, <1>2, <1>3, <1>4

-----------------------------------------------------------------------------
\* The inductive invariant holds in every behaviour of the task, the instances,
\* the gateway and Redis.
LEMMA Invariant == Spec => []IInv
  <1>1. Init => IInv
    <2> SUFFICES ASSUME Init PROVE IInv
      OBVIOUS
    <2>1. TypeOK
      BY InitType
    <2>2. UnreadIsFree /\ BatchIsGiven /\ GroupHasStart
      BY DEF Init, RedisInit, UnreadIsFree, BatchIsGiven, GroupHasStart
    <2>3. FreshWorkIsNotClaimed /\ LeftWithARecord
      BY DEF Init, RedisInit, FreshWorkIsNotClaimed, LeftWithARecord, NoGroup
    <2> QED
      BY <2>1, <2>2, <2>3 DEF IInv
  <1>2. IInv /\ [Next]_vars => IInv'
    BY NextType, NextUnread, NextBatch, NextRecord, NextStart DEF IInv
  <1> QED
    BY <1>1, <1>2, PTL DEF Spec

\* Every variable of the reclaim pass and of the group keeps its type.
THEOREM TypeCorrect == Spec => []TypeOK
  BY Invariant, PTL DEF IInv

\* "minIdle is what protects a LIVE consumer's in-flight work" (Client.Reclaim),
\* for any number of instances, pages and passes: an entry of a batch read less
\* than MinIdle ago is never pending for the task nor among what it claimed.
THEOREM FreshWorkIsSafe == Spec => []FreshWorkIsNotClaimed
  BY Invariant, PTL DEF IInv

\* "None disappears without a record" (handle and reclaimOne): an entry the group
\* was given and that is no longer pending was resolved, logged, skipped or
\* removed by Redis.
THEOREM NothingLeavesUnrecorded == Spec => []LeftWithARecord
  BY Invariant, PTL DEF IInv
=============================================================================
