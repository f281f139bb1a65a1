---------------------------- MODULE StreamAgent -----------------------------
(***************************************************************************)
(* One stream agent, run by several instances of the service: the loop of  *)
(* StreamAgent.Run and handle (internal/agent/stream.go) over              *)
(* StreamSource.Read and Ack (internal/ingest/redis/stream.go), the        *)
(* dispatch of every entry, and what supervise (internal/agent/runner.go), *)
(* a signal or a crash of the process does to the loop.                    *)
(*                                                                         *)
(* All instances share the agent's consumer group and have a consumer name *)
(* of their own (FR-009a); an agent with another id has another group, so  *)
(* another agent is another copy of this module.                           *)
(***************************************************************************)
EXTENDS RedisStream, Dispatch

CONSTANT BatchSize  \* AGENT_<ID>_BATCH_SIZE, the COUNT of XREADGROUP

ASSUME BatchAssumption == BatchSize \in Nat \ {0}

VARIABLES
  pc,         \* where each instance is in Run, or in supervise around it
  cancelled,  \* instances whose root context is cancelled
  cur,        \* entry of the batch the loop is at
  hi,         \* last entry of the batch; deliveries are cur .. hi
  recorded    \* entries logged in full as unprocessable

agentVars == <<pc, cancelled, cur, hi, recorded>>
vars == <<redisVars, dispatchVars, agentVars>>

Running == {"top", "read", "loop", "send", "ack", "acking"}
InBatch == {"loop", "send", "ack", "acking"}

AgentTypeOK ==
  /\ pc \in [Consumers -> Running \cup {"down", "backoff", "stopped"}]
  /\ cancelled \in SUBSET Consumers
  /\ cur \in [Consumers -> Nat]
  /\ hi \in [Consumers -> Nat]
  /\ recorded \in SUBSET Ids

\* Types of every variable.
TypeOK == RedisTypeOK /\ DispatchTypeOK /\ AgentTypeOK

Init ==
  /\ RedisInit
  /\ DispatchInit
  /\ pc = [c \in Consumers |-> "down"]
  /\ cancelled = {}
  /\ cur = [c \in Consumers |-> 1]
  /\ hi = [c \in Consumers |-> 0]
  /\ recorded = {}

Goto(c, to) == pc' = [pc EXCEPT ![c] = to]

\* The batch a Run had read is gone with its stack.
ForgetBatch(c) ==
  /\ cur' = [cur EXCEPT ![c] = 1]
  /\ hi' = [hi EXCEPT ![c] = 0]

-----------------------------------------------------------------------------
(***************************************************************************)
(* Process lifecycle.  A new process builds its sources, which creates the *)
(* group if it is absent, and starts the agent.                            *)
(***************************************************************************)
Boot(c) ==
  /\ pc[c] = "down"
  /\ XGroupCreate
  /\ Goto(c, "top")
  /\ UNCHANGED <<dispatchVars, cancelled, cur, hi, recorded>>

Signal(c) ==
  /\ pc[c] \notin {"down", "stopped"}
  /\ cancelled' = cancelled \cup {c}
  /\ UNCHANGED <<redisVars, dispatchVars, pc, cur, hi, recorded>>

\* The process ends: Wait returned once the agent stopped or its grace expired
\* with the agent still draining, or the process was killed.
ProcessEnds(c) ==
  /\ pc[c] # "down"
  /\ Goto(c, "down")
  /\ cancelled' = cancelled \ {c}
  /\ ForgetBatch(c)
  /\ EndSend(c)
  /\ UNCHANGED <<redisVars, recorded>>

\* Run returned, with an error or because of cancellation, or it panicked and
\* runOnce recovered: supervise stops the agent only if the context is done.
RunReturns(c) ==
  /\ Goto(c, IF c \in cancelled THEN "stopped" ELSE "backoff")
  /\ ForgetBatch(c)

Panic(c) ==
  /\ pc[c] = "send"
  /\ phase[c] = "attempt"
  /\ RunReturns(c)
  /\ EndSend(c)
  /\ UNCHANGED <<redisVars, cancelled, recorded>>

\* Mutant: a failed agent is not started again.
RestartNever(c) ==
  /\ pc[c] = "backoff"
  /\ c \in cancelled
  /\ Goto(c, "stopped")
  /\ UNCHANGED <<redisVars, dispatchVars, cancelled, cur, hi, recorded>>

Restart(c) ==
  /\ pc[c] = "backoff"
  /\ Goto(c, IF c \in cancelled THEN "stopped" ELSE "top")
  /\ UNCHANGED <<redisVars, dispatchVars, cancelled, cur, hi, recorded>>

-----------------------------------------------------------------------------
(***************************************************************************)
(* Run: the context check, and a blocking read.  go-redis does not         *)
(* interrupt a command in progress, so a read may still return entries     *)
(* after the signal.                                                       *)
(***************************************************************************)
\* Mutant: the loop does not look at its context.
SkipContextCheck(c) ==
  /\ pc[c] = "top"
  /\ Goto(c, "read")
  /\ UNCHANGED <<redisVars, dispatchVars, cancelled, cur, hi, recorded>>

CheckContext(c) ==
  /\ pc[c] = "top"
  /\ Goto(c, IF c \in cancelled THEN "stopped" ELSE "read")
  /\ UNCHANGED <<redisVars, dispatchVars, cancelled, cur, hi, recorded>>

ReadDeliver(c) ==
  /\ pc[c] = "read"
  /\ XReadGroup(c, BatchSize)
  /\ cur' = [cur EXCEPT ![c] = Unread]
  /\ hi' = [hi EXCEPT ![c] = ReadUpTo(BatchSize)]
  /\ Goto(c, "loop")
  /\ UNCHANGED <<dispatchVars, cancelled, recorded>>

\* BLOCK elapsed with nothing to read.
ReadNil(c) ==
  /\ pc[c] = "read"
  /\ Unread > last
  /\ Goto(c, "top")
  /\ UNCHANGED <<redisVars, dispatchVars, cancelled, cur, hi, recorded>>

ReadError(c) ==
  /\ pc[c] = "read"
  /\ RunReturns(c)
  /\ UNCHANGED <<redisVars, dispatchVars, cancelled, recorded>>

\* Redis executed the command and the reply was lost; go-redis retries the
\* command, or gives up and Read fails.
ReadReplyLost(c) ==
  /\ pc[c] = "read"
  /\ XReadGroup(c, BatchSize)
  /\ \/ c \notin cancelled /\ UNCHANGED <<pc, cur, hi>>
     \/ RunReturns(c)
  /\ UNCHANGED <<dispatchVars, cancelled, recorded>>

-----------------------------------------------------------------------------
(***************************************************************************)
(* The loop over the batch, and handle.                                    *)
(***************************************************************************)
BatchDone(c) ==
  /\ pc[c] = "loop"
  /\ cur[c] > hi[c]
  /\ Goto(c, "top")
  /\ ForgetBatch(c)
  /\ UNCHANGED <<redisVars, dispatchVars, cancelled, recorded>>

\* Cancellation mid-batch: the rest of the batch stays unacknowledged.
LeaveBatch(c) ==
  /\ pc[c] = "loop"
  /\ cur[c] <= hi[c]
  /\ c \in cancelled
  /\ RunReturns(c)
  /\ UNCHANGED <<redisVars, dispatchVars, cancelled, recorded>>

\* toDelivery: the entry has no data field, or envelope.Parse refuses it.
Unprocessable(e) == e \in bad

HandleUnprocessable(c) ==
  /\ pc[c] = "loop"
  /\ cur[c] <= hi[c]
  /\ c \notin cancelled
  /\ Unprocessable(cur[c])
  /\ recorded' = recorded \cup {cur[c]}
  /\ Goto(c, "ack")
  /\ UNCHANGED <<redisVars, dispatchVars, cancelled, cur, hi>>

HandleEnvelope(c) ==
  /\ pc[c] = "loop"
  /\ cur[c] <= hi[c]
  /\ c \notin cancelled
  /\ ~Unprocessable(cur[c])
  /\ Send(c)
  /\ Goto(c, "send")
  /\ UNCHANGED <<redisVars, cancelled, cur, hi, recorded>>

Dispatching(c) ==
  /\ pc[c] = "send"
  /\ DispatchStep(c, cur[c], c \in cancelled)
  /\ UNCHANGED <<redisVars, agentVars>>

\* Mutant: handle goes on to the ack while the dispatch is in progress.
SendInBackground(c) ==
  /\ pc[c] = "send"
  /\ EndSend(c)
  /\ Goto(c, "ack")
  /\ UNCHANGED <<redisVars, cancelled, cur, hi, recorded>>

\* Mutant: a drop holds the agent up.
SendHeldByDrop(c) ==
  /\ pc[c] = "send"
  /\ phase[c] = "sent"
  /\ \A d \in Dests : result[cur[c]][d] = "delivered"
  /\ EndSend(c)
  /\ Goto(c, "ack")
  /\ UNCHANGED <<redisVars, cancelled, cur, hi, recorded>>

SendReturns(c) ==
  /\ pc[c] = "send"
  /\ phase[c] = "sent"
  /\ EndSend(c)
  /\ Goto(c, "ack")
  /\ UNCHANGED <<redisVars, cancelled, cur, hi, recorded>>

-----------------------------------------------------------------------------
(***************************************************************************)
(* Delivery.Ack.  go-redis refuses a command whose context is already      *)
(* cancelled; one already issued is executed, fails, or is executed and    *)
(* its reply lost.  handle logs a failed ack and goes on to the next       *)
(* delivery.                                                               *)
(***************************************************************************)
\* Mutant: the ack is given a context of its own, which is never cancelled.
IssueDetachedAck(c) ==
  /\ pc[c] = "ack"
  /\ Goto(c, "acking")
  /\ UNCHANGED <<redisVars, dispatchVars, cancelled, cur, hi, recorded>>

IssueAck(c) ==
  /\ pc[c] = "ack"
  /\ c \notin cancelled
  /\ Goto(c, "acking")
  /\ UNCHANGED <<redisVars, dispatchVars, cancelled, cur, hi, recorded>>

NextDelivery(c) ==
  /\ Goto(c, "loop")
  /\ cur' = [cur EXCEPT ![c] = @ + 1]
  /\ UNCHANGED <<dispatchVars, cancelled, hi, recorded>>

AckRefused(c) ==
  /\ pc[c] = "ack"
  /\ c \in cancelled
  /\ NextDelivery(c)
  /\ UNCHANGED redisVars

\* Mutant: the position of the whole batch is acknowledged.
AckBatchEnd(c) ==
  /\ pc[c] = "acking"
  /\ XAck(hi[c])
  /\ NextDelivery(c)

AckOk(c) ==
  /\ pc[c] = "acking"
  /\ XAck(cur[c])
  /\ NextDelivery(c)

AckFailed(c) ==
  /\ pc[c] = "acking"
  /\ XAck(cur[c]) \/ UNCHANGED redisVars
  /\ NextDelivery(c)

-----------------------------------------------------------------------------
\* What the instance's own goroutine does next.
Step(c) ==
  \/ CheckContext(c)
  \/ ReadDeliver(c)
  \/ ReadNil(c)
  \/ ReadError(c)
  \/ ReadReplyLost(c)
  \/ BatchDone(c)
  \/ LeaveBatch(c)
  \/ HandleUnprocessable(c)
  \/ HandleEnvelope(c)
  \/ Dispatching(c)
  \/ SendReturns(c)
  \/ IssueAck(c)
  \/ AckRefused(c)
  \/ AckOk(c)
  \/ AckFailed(c)
  \/ Restart(c)

Gateway == (XAdd \/ XTrim) /\ UNCHANGED <<dispatchVars, agentVars>>

Next ==
  \/ Gateway
  \/ \E c \in Consumers :
       Step(c) \/ Boot(c) \/ Signal(c) \/ ProcessEnds(c) \/ Panic(c)

Spec == Init /\ [][Next]_vars

(***************************************************************************)
(* Fairness.  A goroutine that can run is scheduled, every command and     *)
(* every attempt ends (DialTimeout and the read timeout of go-redis, the   *)
(* per-attempt Timeout), so an instance's own steps are weakly fair.       *)
(* Reading is strongly fair: Redis does not answer every read with an      *)
(* error for ever.  Nothing is assumed about signals, crashes, panics, the *)
(* gateway or how attempts end.                                            *)
(***************************************************************************)
Fairness ==
  \A c \in Consumers : WF_vars(Step(c)) /\ SF_vars(ReadDeliver(c))

FairSpec == Spec /\ Fairness

-----------------------------------------------------------------------------
\* The entry needs nothing more: its raw bytes are logged because it cannot be
\* parsed, or an outcome is recorded for every destination.
Resolved(e) ==
  IF Unprocessable(e) THEN e \in recorded
  ELSE \A d \in Dests : result[e][d] # "none"

\* "Every dispatch is resolved - delivered or dropped - before the delivery is
\* acknowledged" (handle, internal/agent/stream.go): whatever interleaving of
\* signals, panics, crashes and lost replies came before, an entry that left
\* the pending list by an ack was delivered or recorded as dropped at every
\* destination, or recorded as unprocessable.
AckedIsResolved == \A e \in acked : Resolved(e)

\* "Draining must not acknowledge work that did not complete" (Wait,
\* internal/agent/runner.go): an entry one of whose dispatches was cut short by
\* cancellation is never acknowledged, although handle calls Ack for it.
CutWorkIsNotAcked ==
  \A e \in acked : \A d \in Dests : result[e][d] # "cancelled"

\* Instances that share a group never work on the same entry: what is left of a
\* batch in memory is pending for the consumer that holds it (Run over
\* StreamSource.Read, which names the consumer; FR-009a).
InFlightIsOwned ==
  \A c \in Consumers :
    pc[c] \in InBatch => \A e \in cur[c] .. hi[c] : pel[e] = c

\* No entry the group was given is forgotten by Redis and the service alike: it
\* is acknowledged, still pending, or was trimmed away unread, and only one of
\* the three (StreamSource.Read and Ack).
GivenIsAccountedFor ==
  \A e \in start + 1 .. ld :
    \/ e \in acked /\ pel[e] = None /\ e \notin skipped
    \/ e \notin acked /\ pel[e] # None /\ e \notin skipped
    \/ e \notin acked /\ pel[e] = None /\ e \in skipped

\* What is left to spend in Do: the wait in progress and the attempts to come.
WorstWait == Larger(BackoffInitial, BackoffMax)

DoBound == MaxAttempts * Timeout + (MaxAttempts - 1) * WorstWait

\* Do "never blocks longer than MaxAttempts x (Timeout + backoff)"
\* (internal/dispatch/retry.go), where the first wait is not capped by
\* BackoffMax: even if the rest takes its full time, a call ends within DoBound.
DoIsBounded ==
  \A c \in Consumers :
    /\ phase[c] = "attempt" => elapsed[c] + Timeout <= DoBound
    /\ phase[c] = "wait" => elapsed[c] + backoff[c] + Timeout <= DoBound

-----------------------------------------------------------------------------
Interrupted(c) == pc[c] \in {"down", "backoff", "stopped"}

\* Bounded loss (Policy.Do and Run): an entry in a batch is resolved however
\* its destinations fail, unless a panic, a signal or a crash ends the Run.
ReadIsResolved ==
  \A c \in Consumers : \A e \in Ids :
    (pc[c] \in InBatch /\ e \in cur[c] .. hi[c])
      ~> (Resolved(e) \/ Interrupted(c))

\* "An unavailable destination must never become the reason this service falls
\* behind" (Policy, internal/dispatch/retry.go): while every instance stays up,
\* a stored entry is read or trimmed sooner or later, whatever dispatch does.
BacklogIsRead ==
  \A e \in Ids :
    (ld # NoGroup /\ ld < e /\ e <= last)
      ~> \/ ld >= e \/ first > e
         \/ \E c \in Consumers : pc[c] \in {"down", "stopped"}

\* Shutdown ends (Run, handle and supervise on cancellation): after the signal
\* an instance stops without help, whatever it was doing.
SignalStops ==
  \A c \in Consumers : (c \in cancelled) ~> (pc[c] \in {"stopped", "down"})
=============================================================================
