------------------------------ MODULE Reclaim -------------------------------
(***************************************************************************)
(* ReclaimTask (internal/housekeeping/reclaim.go) over Client.Pending,     *)
(* Reclaim and RetireConsumers (internal/ingest/redis/pending.go), beside  *)
(* the instances of the stream agent whose group the task is given.        *)
(*                                                                         *)
(* The task is a consumer of the same group under a name of its own, so it *)
(* is one more member of Consumers, for which no instance runs.  Of an     *)
(* instance (module StreamAgent) only what touches the group is kept: it   *)
(* reads a batch, resolves and acknowledges one entry after the other, and *)
(* may leave the batch at any moment.  Time is counted in ticks, as far as *)
(* the two idle limits tell it apart.                                      *)
(***************************************************************************)
EXTENDS RedisStream, FiniteSetsExt

CONSTANTS
  BatchSize,  \* COUNT of an instance's XREADGROUP
  Task,       \* the consumer name the task claims for
  MinIdle,    \* PENDING_MIN_IDLE
  RetireIdle, \* CONSUMER_RETIRE_IDLE
  ClaimBatch  \* PENDING_BATCH, the COUNT of XAUTOCLAIM

ASSUME ReclaimAssumption ==
  /\ Task \in Consumers
  /\ {BatchSize, MinIdle, RetireIdle, ClaimBatch} \subseteq Nat \ {0}

VARIABLES
  batch,     \* entries each instance has read and not finished with
  resolved,  \* entries whose outcome an instance recorded
  idle,      \* time since each entry was last delivered, up to MinIdle
  unseen,    \* time since each consumer last read or claimed, up to RetireIdle
  members,   \* consumers the group has
  rpc,       \* where the task's Run is
  cursor,    \* where the next page of XAUTOCLAIM starts
  claimed,   \* deliveries Reclaim returns
  retiring,  \* consumers RetireConsumers is going to delete
  age,       \* history: time since each instance read its batch, up to MinIdle
  logged,    \* history: entries the task logged as reclaimed
  dropped    \* history: entries Redis removed from the pel without an ack

instanceVars == <<batch, resolved>>
clockVars == <<idle, unseen, members, age>>
taskVars == <<rpc, cursor, claimed, retiring, logged, dropped>>
vars == <<redisVars, instanceVars, clockVars, taskVars>>

Instances == Consumers \ {Task}
Pending == {e \in Ids : pel[e] # None}

TypeOK ==
  /\ RedisTypeOK
  /\ batch \in [Instances -> SUBSET Ids]
  /\ resolved \in SUBSET Ids
  /\ idle \in [Ids -> 0 .. MinIdle]
  /\ unseen \in [Consumers -> 0 .. RetireIdle]
  /\ members \in SUBSET Consumers
  /\ rpc \in {"waiting", "claim", "ack", "info", "retire"}
  /\ cursor \in 0 .. MaxId
  /\ claimed \in SUBSET Ids
  /\ retiring \in SUBSET Consumers
  /\ age \in [Instances -> 0 .. MinIdle]
  /\ logged \in SUBSET Ids
  /\ dropped \in SUBSET Ids

Init ==
  /\ RedisInit
  /\ batch = [c \in Instances |-> {}]
  /\ resolved = {}
  /\ idle = [e \in Ids |-> 0]
  /\ unseen = [c \in Consumers |-> 0]
  /\ members = {}
  /\ rpc = "waiting"
  /\ cursor = 0
  /\ claimed = {}
  /\ retiring = {}
  /\ age = [c \in Instances |-> 0]
  /\ logged = {}
  /\ dropped = {}

-----------------------------------------------------------------------------
(***************************************************************************)
(* The instances.  Every XREADGROUP makes its consumer a member and        *)
(* refreshes it, whether or not it returns entries; what it returns starts *)
(* to age.                                                                 *)
(***************************************************************************)
Seen(c) ==
  /\ unseen' = [unseen EXCEPT ![c] = 0]
  /\ members' = members \cup {c}

Given(c) ==
  /\ Seen(c)
  /\ idle' = [e \in Ids |-> IF pel'[e] # pel[e] THEN 0 ELSE idle[e]]
  /\ age' = [age EXCEPT ![c] = 0]

TaskElsewhere == UNCHANGED <<rpc, cursor, claimed, retiring, logged, dropped>>

\* The reply may be lost: go-redis asks again, or Run returns.
Read(c) ==
  /\ batch[c] = {}
  /\ XReadGroup(c, BatchSize)
  /\ batch' \in {batch, [batch EXCEPT ![c] = Unread .. ReadUpTo(BatchSize)]}
  /\ Given(c)
  /\ UNCHANGED resolved
  /\ TaskElsewhere

ReadNothing(c) ==
  /\ batch[c] = {}
  /\ ld # NoGroup
  /\ Unread > last
  /\ Seen(c)
  /\ UNCHANGED <<redisVars, instanceVars, idle, age>>
  /\ TaskElsewhere

\* handle: the entry is dispatched to the end or recorded as unprocessable ...
Resolve(c) ==
  /\ batch[c] # {}
  /\ resolved' = resolved \cup {Min(batch[c])}
  /\ UNCHANGED <<redisVars, batch, clockVars, taskVars>>

\* ... and acknowledged; a failed ack is logged and the loop goes on.
Ack(c) ==
  /\ batch[c] # {}
  /\ Min(batch[c]) \in resolved
  /\ XAck(Min(batch[c])) \/ UNCHANGED redisVars
  /\ batch' = [batch EXCEPT ![c] = @ \ {Min(@)}]
  /\ UNCHANGED <<resolved, clockVars, taskVars>>

\* A signal, a panic or a crash ends the Run.
Abandon(c) ==
  /\ batch[c] # {}
  /\ batch' = [batch EXCEPT ![c] = {}]
  /\ UNCHANGED <<redisVars, resolved, clockVars, taskVars>>

NewStreamSource ==
  /\ ld = NoGroup
  /\ XGroupCreate
  /\ UNCHANGED <<instanceVars, clockVars, taskVars>>

\* Whether an entry parses makes no difference here.
Gateway ==
  /\ UNCHANGED bad
  /\ XAdd \/ XTrim
  /\ UNCHANGED <<instanceVars, clockVars, taskVars>>

Tick ==
  /\ idle' = [e \in Ids |-> IF pel[e] = None THEN idle[e]
                            ELSE Smaller(idle[e] + 1, MinIdle)]
  /\ unseen' = [c \in Consumers |-> Smaller(unseen[c] + 1, RetireIdle)]
  /\ age' = [c \in Instances |-> IF batch[c] = {} THEN age[c]
                                 ELSE Smaller(age[c] + 1, MinIdle)]
  /\ UNCHANGED <<redisVars, instanceVars, members, taskVars>>

-----------------------------------------------------------------------------
(***************************************************************************)
(* Run and reclaimOne.  An error, a signal and a crash all end the pass;   *)
(* what was claimed and not acknowledged stays pending for the task.       *)
(***************************************************************************)
PassEnds ==
  /\ rpc' = "waiting"
  /\ cursor' = 0
  /\ claimed' = {}
  /\ retiring' = {}

\* Any command fails, or the process ends, before Redis has done anything.
PassAborts ==
  /\ rpc # "waiting"
  /\ PassEnds
  /\ UNCHANGED <<redisVars, instanceVars, clockVars, logged, dropped>>

\* Mutant: what the task claimed earlier and did not finish does not count.
StartPassForOthers ==
  /\ rpc = "waiting"
  /\ ld # NoGroup
  /\ \E e \in Pending : pel[e] # Task
  /\ rpc' = "claim"
  /\ UNCHANGED <<redisVars, instanceVars, clockVars>>
  /\ UNCHANGED <<cursor, claimed, retiring, logged, dropped>>

\* XPENDING: the pass goes on only if something is pending.
StartPass ==
  /\ rpc = "waiting"
  /\ ld # NoGroup
  /\ Pending # {}
  /\ rpc' = "claim"
  /\ UNCHANGED <<redisVars, instanceVars, clockVars>>
  /\ UNCHANGED <<cursor, claimed, retiring, logged, dropped>>

(***************************************************************************)
(* XAUTOCLAIM from the cursor (external): in the order of ids, a pending   *)
(* entry that is no longer stored is removed from the pel, one idle for    *)
(* MinIdle is claimed, others are passed over; the scan ends after COUNT   *)
(* removals and claims and returns where to go on, 0 when it is through.   *)
(* That it also ends after looking at ten times COUNT entries is left out. *)
(***************************************************************************)
\* Mutant: MinIdle is not passed on.
ClaimableAtOnce(e) == pel[e] # None

Claimable(e) == pel[e] # None /\ idle[e] >= MinIdle

Scanned == {e \in Pending : e >= cursor /\ (e < first \/ Claimable(e))}

Page == {e \in Scanned : Cardinality({f \in Scanned : f < e}) < ClaimBatch}

Removed == {e \in Page : e < first}
Claims == Page \ Removed

NextCursor ==
  LET rest == {e \in Pending : e > Max(Page)}
  IN  IF Cardinality(Page) < ClaimBatch \/ rest = {} THEN 0 ELSE Min(rest)

XAutoClaim ==
  /\ pel' = [e \in Ids |-> IF e \in Claims THEN Task
                           ELSE IF e \in Removed THEN None ELSE pel[e]]
  /\ idle' = [e \in Ids |-> IF e \in Claims THEN 0 ELSE idle[e]]
  /\ unseen' = [unseen EXCEPT ![Task] = 0]
  /\ members' = members \cup {Task}
  /\ dropped' = dropped \cup Removed
  /\ UNCHANGED <<last, first, bad, ld, start, acked, skipped>>
  /\ UNCHANGED <<instanceVars, age>>

\* Mutant: the next page starts behind the last entry of this one.
ClaimPageBehindLast ==
  /\ rpc = "claim"
  /\ XAutoClaim
  /\ claimed' = claimed \cup Claims
  /\ cursor' = IF Claims = {} THEN 0 ELSE Max(Claims) + 1
  /\ rpc' = IF Claims = {} THEN "ack" ELSE "claim"
  /\ UNCHANGED <<retiring, logged>>

\* Client.Reclaim goes on to the next page unless the scan is through or the
\* page brought nothing.
ClaimPage ==
  /\ rpc = "claim"
  /\ XAutoClaim
  /\ claimed' = claimed \cup Claims
  /\ cursor' = IF Claims = {} THEN 0 ELSE NextCursor
  /\ rpc' = IF Claims = {} \/ NextCursor = 0 THEN "ack" ELSE "claim"
  /\ UNCHANGED <<retiring, logged>>

\* The reply is lost: go-redis asks for the page again, or Reclaim fails.
ClaimReplyLost ==
  /\ rpc = "claim"
  /\ XAutoClaim
  /\ \/ UNCHANGED <<rpc, cursor, claimed, retiring>>
     \/ PassEnds
  /\ UNCHANGED logged

\* Mutant: the task acknowledges without a word in the log.
AckReclaimedSilently ==
  /\ rpc = "ack"
  /\ claimed # {}
  /\ XAck(Min(claimed))
  /\ claimed' = claimed \ {Min(claimed)}
  /\ UNCHANGED <<instanceVars, clockVars>>
  /\ UNCHANGED <<rpc, cursor, retiring, logged, dropped>>

\* The entry is logged, with its bytes if it cannot be parsed, and acknowledged.
AckReclaimed ==
  /\ rpc = "ack"
  /\ claimed # {}
  /\ logged' = logged \cup {Min(claimed)}
  /\ XAck(Min(claimed))
  /\ claimed' = claimed \ {Min(claimed)}
  /\ UNCHANGED <<instanceVars, clockVars>>
  /\ UNCHANGED <<rpc, cursor, retiring, dropped>>

\* The ack fails, executed or not: the rest of the deliveries is given up.
AckReclaimedFails ==
  /\ rpc = "ack"
  /\ claimed # {}
  /\ logged' = logged \cup {Min(claimed)}
  /\ XAck(Min(claimed)) \/ UNCHANGED redisVars
  /\ PassEnds
  /\ UNCHANGED <<instanceVars, clockVars, dropped>>

-----------------------------------------------------------------------------
(***************************************************************************)
(* RetireConsumers: XINFO CONSUMERS, then a deletion for each consumer it  *)
(* showed idle and without pending entries.                                *)
(***************************************************************************)
Retirable(c) ==
  /\ c \in members
  /\ \A e \in Ids : pel[e] # c
  /\ unseen[c] >= RetireIdle

XInfoConsumers ==
  /\ rpc = "ack"
  /\ claimed = {}
  /\ retiring' = {c \in Consumers : Retirable(c)}
  /\ rpc' = "retire"
  /\ UNCHANGED <<redisVars, instanceVars, clockVars>>
  /\ UNCHANGED <<cursor, claimed, logged, dropped>>

\* XGROUP DELCONSUMER removes whatever is pending for the consumer by now.
XGroupDelConsumer(c) ==
  /\ rpc = "retire"
  /\ c \in retiring
  /\ pel' = [e \in Ids |-> IF pel[e] = c THEN None ELSE pel[e]]
  /\ dropped' = dropped \cup {e \in Ids : pel[e] = c}
  /\ members' = members \ {c}
  /\ retiring' = retiring \ {c}
  /\ UNCHANGED <<last, first, bad, ld, start, acked, skipped>>
  /\ UNCHANGED <<instanceVars, idle, unseen, age>>
  /\ UNCHANGED <<rpc, cursor, claimed, logged>>

PassReturns ==
  /\ rpc = "retire"
  /\ retiring = {}
  /\ PassEnds
  /\ UNCHANGED <<redisVars, instanceVars, clockVars, logged, dropped>>

-----------------------------------------------------------------------------
\* The pass is cut short, or Redis did something the task does not know of.
Fault == PassAborts \/ ClaimReplyLost \/ AckReclaimedFails

TaskStep ==
  \/ StartPass \/ ClaimPage \/ AckReclaimed \/ XInfoConsumers \/ PassReturns
  \/ Fault
  \/ \E c \in Consumers : XGroupDelConsumer(c)

InstanceStep(c) ==
  Read(c) \/ ReadNothing(c) \/ Resolve(c) \/ Ack(c) \/ Abandon(c)

Next ==
  \/ Gateway
  \/ NewStreamSource
  \/ Tick
  \/ \E c \in Instances : InstanceStep(c)
  \/ TaskStep

Spec == Init /\ [][Next]_vars

(***************************************************************************)
(* Fairness.  Time passes, PeriodicAgent runs the task at every tick of    *)
(* its interval, and a command ends.  Nothing is assumed about instances.  *)
(***************************************************************************)
FairSpec == Spec /\ WF_vars(Tick) /\ WF_vars(TaskStep)

-----------------------------------------------------------------------------
\* "minIdle is what protects a LIVE consumer's in-flight work" (Client.Reclaim):
\* an entry of a batch an instance read less than MinIdle ago, and still has
\* before it, is never taken over by the task, at any page of any pass.
FreshWorkIsNotClaimed ==
  \A c \in Instances :
    age[c] < MinIdle => \A e \in batch[c] :
      pel[e] # Task /\ e \notin claimed

\* "None disappears without a record" (spec.md:180, handle and reclaimOne): an
\* entry the group was given and that is no longer pending was resolved by an
\* instance, or logged by the task, or skipped or removed by Redis itself.
LeftWithARecord ==
  \A e \in start + 1 .. ld :
    pel[e] = None => e \in resolved \cup logged \cup skipped \cup dropped

\* "A periodic agent MUST reclaim entries left pending by consumers that are no
\* longer active" (spec.md:146, Run and reclaimOne): whatever crashes, half done
\* passes and lost replies came before, once the task's commands succeed every
\* pending entry leaves the pending list.
AbandonedIsCleared ==
  <>[][~Fault]_vars => \A e \in Ids : (pel[e] # None) ~> (pel[e] = None)

\* "Those entries are reclaimed and processed" (spec.md:84): what the task took
\* over and acknowledged had its outcomes recorded.
ReclaimedIsProcessed == \A e \in logged \cap acked : e \in resolved
=============================================================================
