-------------------------------- MODULE Lag ---------------------------------
(***************************************************************************)
(* StreamSource.Lag (internal/ingest/redis/stream.go): the monitor asks    *)
(* Redis for the group, then for the stream, then maybe for its length, in *)
(* commands of their own, while the gateway adds and trims, an operator    *)
(* deletes and the agent's consumer reads.                                 *)
(*                                                                         *)
(* What Redis 7.4 and go-redis v9.19.0 answer is external.  The lag of a   *)
(* group is the number of stored entries after its last-delivered-id.      *)
(* Redis tells it from the group's position when that is before, at the    *)
(* oldest or beyond all stored entries, or from the group's entries-read   *)
(* counter, which a group created at $ has not got (NULL) until it was     *)
(* given an entry Redis can count from; an entry deleted by XDEL at or     *)
(* after the position defeats both.  When neither serves the lag is NULL,  *)
(* which go-redis hands on as -1; entries-read as NULL arrives as 0.       *)
(***************************************************************************)
EXTENDS Integers, FiniteSets

CONSTANTS
  MaxId,     \* bound: entries ever added
  BatchSize  \* COUNT of the agent's XREADGROUP

ASSUME LagAssumption == MaxId \in Nat /\ BatchSize \in Nat \ {0}

VARIABLES
  last,     \* newest entry added, 0 before the first
  stored,   \* entries in the stream
  tomb,     \* max-deleted-entry-id, 0 before the first XDEL
  ld,       \* the group's last-delivered-id, NoGroup before XGROUP CREATE
  counted,  \* the group's entries-read is not NULL
  lost,     \* history: entries trimmed away before the group read them
  at,       \* where the call of Lag is
  group,    \* reply of XINFO GROUPS for the group
  past,     \* what trimmedPastGroup returned
  reading,  \* the LagReading returned, NoReading before
  began,    \* history: backlog when XINFO GROUPS was answered
  standing  \* history: a loss has stood ever since this call began

server == <<last, stored, tomb, ld, counted, lost>>
lagVars == <<at, group, past, reading, began, standing>>
vars == <<server, lagVars>>

NoGroup == -1
Null == -1

Ids == 1 .. MaxId
Numbers == 0 .. MaxId
Replies == [ld : Numbers, lag : Numbers \cup {Null}, read : Numbers]
Readings == [entries : Numbers \cup {Null}, approximate : BOOLEAN]

\* Types of every variable.
TypeOK ==
  /\ last \in Numbers
  /\ stored \in SUBSET (1 .. last)
  /\ tomb \in 0 .. last
  /\ ld \in NoGroup .. last
  /\ counted \in BOOLEAN
  /\ lost \in SUBSET (1 .. last)
  /\ at \in {"idle", "groups", "stream", "decide", "length", "done"}
  /\ group \in Replies
  /\ past \in BOOLEAN
  /\ reading \in Readings
  /\ began \in Numbers
  /\ standing \in BOOLEAN

NoReply == [ld |-> 0, lag |-> 0, read |-> 0]
NoReading == [entries |-> 0, approximate |-> FALSE]

Init ==
  /\ last = 0
  /\ stored = {}
  /\ tomb = 0
  /\ ld = NoGroup
  /\ counted = FALSE
  /\ lost = {}
  /\ at = "idle"
  /\ group = NoReply
  /\ past = FALSE
  /\ reading = NoReading
  /\ began = 0
  /\ standing = FALSE

Length == Cardinality(stored)

\* Stored entries the group has not been given.
Unread == {e \in stored : e > ld}
Backlog == Cardinality(Unread)

\* Entries were trimmed away and the group has not been told by a later one.
LossStands == stored # {} /\ \E e \in lost : e > ld

-----------------------------------------------------------------------------
(***************************************************************************)
(* The environment: gateway, operator, a process building the source, the  *)
(* reader.                                                                 *)
(***************************************************************************)
Environment ==
  /\ UNCHANGED <<at, group, past, reading, began>>
  /\ standing' = (standing /\ LossStands')

XAdd ==
  /\ last < MaxId
  /\ last' = last + 1
  /\ stored' = stored \cup {last + 1}
  /\ UNCHANGED <<tomb, ld, counted, lost>>
  /\ Environment

\* By length or by age: everything up to an entry goes, read or not.
XTrim ==
  /\ \E upto \in stored :
       /\ stored' = {e \in stored : e > upto}
       /\ lost' = lost \cup {e \in stored : e <= upto /\ ld # NoGroup /\ e > ld}
  /\ UNCHANGED <<last, tomb, ld, counted>>
  /\ Environment

XDel ==
  /\ \E e \in stored :
       /\ stored' = stored \ {e}
       /\ tomb' = IF e > tomb THEN e ELSE tomb
  /\ UNCHANGED <<last, ld, counted, lost>>
  /\ Environment

NewStreamSource ==
  /\ ld' = IF ld = NoGroup THEN last ELSE ld
  /\ UNCHANGED <<last, stored, tomb, counted, lost>>
  /\ Environment

\* Every stored entry is after the position, or after the newest deleted one.
PositionBeforeAll == \A e \in stored : ld < e
NoTombstones == \A e \in stored : tomb < e

\* The counter can be carried over what is stored after the position.
CanCount == NoTombstones \/ tomb < ld

Read ==
  /\ ld # NoGroup
  /\ \E upto \in Unread :
       LET batch == {e \in Unread : e <= upto}
       IN /\ \/ Cardinality(batch) = BatchSize
             \/ Cardinality(batch) < BatchSize /\ batch = Unread
          /\ ld' = upto
          /\ counted' = \/ counted /\ CanCount
                        \/ NoTombstones /\ PositionBeforeAll
                        \/ upto = last
  /\ UNCHANGED <<last, stored, tomb, lost>>
  /\ Environment

-----------------------------------------------------------------------------
(***************************************************************************)
(* The call.                                                               *)
(***************************************************************************)
\* Mutant: a group that is not in the reply is taken for one at its start.
CallForAnyGroup ==
  /\ at = "idle"
  /\ at' = "groups"
  /\ standing' = LossStands
  /\ UNCHANGED <<server, group, past, reading, began>>

Call ==
  /\ at = "idle"
  /\ ld # NoGroup
  /\ at' = "groups"
  /\ standing' = LossStands
  /\ UNCHANGED <<server, group, past, reading, began>>

LagIsNull ==
  /\ stored # {}
  /\ ld < last
  /\ ~(counted /\ CanCount)
  /\ ~(NoTombstones /\ \A e \in stored : ld <= e)

XInfoGroups ==
  /\ at = "groups"
  /\ group' = [ld |-> ld,
               lag |-> IF LagIsNull THEN Null ELSE Backlog,
               read |-> IF counted THEN ld ELSE 0]
  /\ began' = Backlog
  /\ at' = "stream"
  /\ UNCHANGED <<server, past, reading, standing>>

compareIDs(a, b) == IF a < b THEN -1 ELSE IF a > b THEN 1 ELSE 0

\* Mutant: the position must be two behind the first stored entry.
trimmedOnlyFarPast(lastDelivered) ==
  stored # {} /\ \A e \in stored : compareIDs(lastDelivered + 2, e) < 0

\* The first stored entry is the least.
trimmedPastGroup(lastDelivered) ==
  stored # {} /\ \A e \in stored : compareIDs(lastDelivered, e) < 0

XInfoStream ==
  /\ at = "stream"
  /\ past' = trimmedPastGroup(group.ld)
  /\ at' = "decide"
  /\ UNCHANGED <<server, group, reading, began, standing>>

\* The test meant for a NULL lag; 0 is the id "0-0".
LagUnknown == group.lag = 0 /\ group.read = 0 /\ group.ld # 0

Decide ==
  /\ at = "decide"
  /\ \/ /\ LagUnknown
        /\ at' = "length"
        /\ UNCHANGED reading
     \/ /\ ~LagUnknown
        /\ reading' = [entries |-> group.lag, approximate |-> past]
        /\ at' = "done"
  /\ UNCHANGED <<server, group, past, began, standing>>

\* Mutant: the length is returned as if it were the lag.
XLenIsExact ==
  /\ at = "length"
  /\ reading' = [entries |-> Length, approximate |-> past]
  /\ at' = "done"
  /\ UNCHANGED <<server, group, past, began, standing>>

XLen ==
  /\ at = "length"
  /\ reading' = [entries |-> Length, approximate |-> TRUE]
  /\ at' = "done"
  /\ UNCHANGED <<server, group, past, began, standing>>

\* The monitor takes the reading, or a command failed and there is none.
Return ==
  /\ at \in {"groups", "stream", "length", "done"}
  /\ at' = "idle"
  /\ group' = NoReply
  /\ past' = FALSE
  /\ reading' = NoReading
  /\ began' = 0
  /\ standing' = FALSE
  /\ UNCHANGED server

Lag == Call \/ XInfoGroups \/ XInfoStream \/ Decide \/ XLen \/ Return

Next == XAdd \/ XTrim \/ XDel \/ NewStreamSource \/ Read \/ Lag

Spec == Init /\ [][Next]_vars

-----------------------------------------------------------------------------
\* "Entries trimmed away before this group read them ... has to be detected
\* separately" (Lag, trimmedPastGroup): a loss that stands from the call of Lag
\* to its return, on a stream that still holds entries, is never returned as an
\* exact number, whatever is added, trimmed, deleted or read between the
\* commands.
StandingLossIsFlagged == at = "done" /\ standing => reading.approximate

\* "A reading of zero there would invert the signal" (LagReading,
\* internal/ingest/source.go): a number of entries that Lag returns as exact is
\* the number the group had not been given when Redis was asked; no reply, no
\* deletion and no read between the commands makes a backlog pass for zero or
\* for another number.  What a NULL lag becomes, -1, is not a number of entries.
ExactCountIsTheBacklog ==
  at = "done" /\ ~reading.approximate /\ reading.entries # Null
    => reading.entries = began

\* "`Approximate == true` means entries were trimmed from under the group -
\* data was lost upstream" (data-model.md:105, and the monitor's anomaly
\* entries_trimmed): some entry of the group was trimmed unread, by now or
\* earlier.
ApproximateIsLoss == at = "done" /\ reading.approximate => lost # {}
=============================================================================
