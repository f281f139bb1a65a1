------------------------------ MODULE Dispatch ------------------------------
(***************************************************************************)
(* Dispatcher.Send and Policy.Do (internal/dispatch): one envelope goes to *)
(* every destination of the agent in turn, each under a bounded retry      *)
(* budget.  Every consumer has at most one Send in progress.               *)
(*                                                                         *)
(* A destination is external; an attempt against it ends within Timeout    *)
(* (the per-attempt context) as delivered, as a transient failure or as a  *)
(* permanent one.  logOnly.Dispatch ignores its context, so an attempt may *)
(* be delivered even after cancellation.                                   *)
(***************************************************************************)
EXTENDS Delivery

CONSTANTS
  NDests,          \* destinations of the agent; 0 when its only one is "none"
  MaxAttempts,     \* DISPATCH_MAX_ATTEMPTS, validated to be at least 1
  Timeout,         \* DISPATCH_TIMEOUT, per attempt
  BackoffInitial,  \* DISPATCH_BACKOFF_INITIAL
  BackoffMax       \* DISPATCH_BACKOFF_MAX

ASSUME DispatchAssumption ==
  /\ NDests \in Nat
  /\ MaxAttempts \in Nat \ {0}
  /\ Timeout \in Nat
  /\ BackoffInitial \in Nat
  /\ BackoffMax \in Nat

VARIABLES
  phase,    \* "idle", "attempt" or "wait" inside Do, "sent" once Send returned
  dest,     \* index of the destination Do is called for
  attempt,  \* 1-based attempt number inside Do
  backoff,  \* upper end of the next jittered wait
  elapsed,  \* history: time this call of Do has taken
  result    \* history: the Outcome recorded for each entry and destination

callVars == <<phase, dest, attempt, backoff, elapsed>>
dispatchVars == <<callVars, result>>

Dests == 1 .. NDests
Drops == {"permanent", "exhausted", "cancelled"}

DispatchTypeOK ==
  /\ phase \in [Consumers -> {"idle", "attempt", "wait", "sent"}]
  /\ dest \in [Consumers -> Nat]
  /\ attempt \in [Consumers -> 1 .. MaxAttempts]
  /\ backoff \in [Consumers -> Nat]
  /\ elapsed \in [Consumers -> Nat]
  /\ result \in [Ids -> [Dests -> {"none", "delivered"} \cup Drops]]

DispatchInit ==
  /\ phase = [c \in Consumers |-> "idle"]
  /\ dest = [c \in Consumers |-> 1]
  /\ attempt = [c \in Consumers |-> 1]
  /\ backoff = [c \in Consumers |-> 0]
  /\ elapsed = [c \in Consumers |-> 0]
  /\ result = [e \in Ids |-> [d \in Dests |-> "none"]]

-----------------------------------------------------------------------------
(***************************************************************************)
(* Do is entered for destination d, or Send returns when there is none.    *)
(***************************************************************************)
CallDo(c, d) ==
  /\ phase' = [phase EXCEPT ![c] = IF d <= NDests THEN "attempt" ELSE "sent"]
  /\ dest' = [dest EXCEPT ![c] = d]
  /\ attempt' = [attempt EXCEPT ![c] = 1]
  /\ backoff' = [backoff EXCEPT ![c] = BackoffInitial]
  /\ elapsed' = [elapsed EXCEPT ![c] = 0]

Send(c) == CallDo(c, 1) /\ UNCHANGED result

\* Do returned r for entry e: Send records the outcome and goes on.
Record(c, e, r) ==
  /\ result' = [result EXCEPT ![e][dest[c]] = r]
  /\ CallDo(c, dest[c] + 1)

AttemptDelivered(c, e) == phase[c] = "attempt" /\ Record(c, e, "delivered")

AttemptPermanent(c, e) == phase[c] = "attempt" /\ Record(c, e, "permanent")

(***************************************************************************)
(* A drop whose error wraps the cancelled context is told apart from one   *)
(* whose budget ran out: under a cancelled context every attempt of an     *)
(* HTTP destination fails at once.                                         *)
(***************************************************************************)
ExhaustedReason(ctxDone) == IF ctxDone THEN "cancelled" ELSE "exhausted"

\* Mutant: the budget check is off by one.
LastAttemptOffByOne(c) == attempt[c] > MaxAttempts

LastAttempt(c) == attempt[c] = MaxAttempts

AttemptExhausted(c, e, ctxDone) ==
  /\ phase[c] = "attempt"
  /\ LastAttempt(c)
  /\ Record(c, e, ExhaustedReason(ctxDone))

AttemptTransient(c) ==
  /\ phase[c] = "attempt"
  /\ ~LastAttempt(c)
  /\ phase' = [phase EXCEPT ![c] = "wait"]
  /\ \E t \in 0 .. Timeout : elapsed' = [elapsed EXCEPT ![c] = @ + t]
  /\ UNCHANGED <<dest, attempt, backoff, result>>

(***************************************************************************)
(* The jittered wait ends, or cancellation is seen first.  The wait may be *)
(* zero and select picks either ready case, so a cancelled context does    *)
(* not exclude another attempt.                                            *)
(***************************************************************************)
\* Mutant: the doubled backoff is not capped.
UncappedBackoff(b) == 2 * b

NextBackoff(b) == Smaller(2 * b, BackoffMax)

WaitOver(c) ==
  /\ phase[c] = "wait"
  /\ phase' = [phase EXCEPT ![c] = "attempt"]
  /\ attempt' = [attempt EXCEPT ![c] = @ + 1]
  /\ backoff' = [backoff EXCEPT ![c] = NextBackoff(@)]
  /\ \E t \in 0 .. backoff[c] : elapsed' = [elapsed EXCEPT ![c] = @ + t]
  /\ UNCHANGED <<dest, result>>

WaitCancelled(c, e) ==
  /\ phase[c] = "wait"
  /\ Record(c, e, "cancelled")

DispatchStep(c, e, ctxDone) ==
  \/ AttemptDelivered(c, e)
  \/ AttemptPermanent(c, e)
  \/ AttemptExhausted(c, e, ctxDone)
  \/ AttemptTransient(c)
  \/ WaitOver(c)
  \/ ctxDone /\ WaitCancelled(c, e)

\* The locals of Send are gone: its caller used the outcomes and returned, its
\* goroutine panicked or its process ended.
EndSend(c) ==
  /\ phase' = [phase EXCEPT ![c] = "idle"]
  /\ dest' = [dest EXCEPT ![c] = 1]
  /\ attempt' = [attempt EXCEPT ![c] = 1]
  /\ backoff' = [backoff EXCEPT ![c] = 0]
  /\ elapsed' = [elapsed EXCEPT ![c] = 0]
  /\ UNCHANGED result
=============================================================================
