------------------------------- MODULE Runner -------------------------------
(***************************************************************************)
(* The supervisor of all agents of one process (internal/agent/runner.go), *)
(* with the periodic agents' guard against overlapping runs                *)
(* (internal/agent/periodic.go) and the shutdown of main.                  *)
(*                                                                         *)
(* Agents that are not periodic are known here only by how their Run ends: *)
(* with an error or a panic, which runOnce turns into an error, or because *)
(* of cancellation.  StreamAgent says what the loop does in between.       *)
(***************************************************************************)
EXTENDS Integers

CONSTANTS
  Agents,          \* enabled agents
  Periodic,        \* those among them that run a task at an interval
  RestartInitial,  \* restartBackoffInitial
  RestartMax,      \* restartBackoffMax
  DegradedAfter,   \* failures after which an agent is reported degraded
  MaxFailures,     \* bound: failures of one agent in a row
  MaxEnding        \* bound: runs of a task that ended without calling Done yet

ASSUME AgentsAssumption == Periodic \subseteq Agents
ASSUME RestartAssumption ==
  /\ RestartInitial \in Nat \ {0}
  /\ RestartMax \in Nat
  /\ RestartInitial <= RestartMax
  /\ DegradedAfter \in Nat \ {0}
  /\ MaxFailures \in Nat
  /\ MaxEnding \in Nat \ {0}

VARIABLES
  proc,         \* "up", "drained" or "expired" once Wait returned, "crashed"
  done,         \* the root context is cancelled
  pc,           \* where supervise is for each agent
  state,        \* the State the agent's status reports
  backoff,      \* wait before the next restart
  consecutive,  \* failures since the last clean return
  flag,         \* inFlight, the guard against overlap
  tasks,        \* goroutines inside PeriodicAgent.run
  ending        \* goroutines past Store(false) that have not called Done

vars == <<proc, done, pc, state, backoff, consecutive, flag, tasks, ending>>

\* Types of every variable.
TypeOK ==
  /\ proc \in {"up", "drained", "expired", "crashed"}
  /\ done \in BOOLEAN
  /\ pc \in [Agents -> {"start", "run", "drain", "backoff", "gone"}]
  /\ state \in [Agents -> {"configured", "running", "recovering", "degraded",
                           "stopped"}]
  /\ backoff \in [Agents -> 1 .. RestartMax]
  /\ consecutive \in [Agents -> Nat]
  /\ flag \in [Agents -> BOOLEAN]
  /\ tasks \in [Agents -> Nat]
  /\ ending \in [Agents -> Nat]

\* Start registers every agent and launches its supervisor.
Init ==
  /\ proc = "up"
  /\ done = FALSE
  /\ pc = [a \in Agents |-> "start"]
  /\ state = [a \in Agents |-> "configured"]
  /\ backoff = [a \in Agents |-> RestartInitial]
  /\ consecutive = [a \in Agents |-> 0]
  /\ flag = [a \in Agents |-> FALSE]
  /\ tasks = [a \in Agents |-> 0]
  /\ ending = [a \in Agents |-> 0]

taskVars == <<flag, tasks, ending>>

-----------------------------------------------------------------------------
(***************************************************************************)
(* supervise.                                                              *)
(***************************************************************************)
Move(a, to, st) ==
  /\ pc' = [pc EXCEPT ![a] = to]
  /\ state' = [state EXCEPT ![a] = st]

Stop(a) ==
  /\ Move(a, "gone", "stopped")
  /\ UNCHANGED <<proc, done, backoff, consecutive, taskVars>>

Begin(a) ==
  /\ pc[a] = "start"
  /\ IF done THEN Stop(a)
     ELSE /\ Move(a, "run", "running")
          /\ UNCHANGED <<proc, done, backoff, consecutive, taskVars>>

\* Run returned after cancellation: shutdown, not failure.
Returns(a) ==
  /\ pc[a] = "run"
  /\ a \notin Periodic
  /\ done
  /\ Stop(a)

\* Run returned an error or panicked.
Fails(a) ==
  /\ pc[a] = "run"
  /\ a \notin Periodic
  /\ ~done
  /\ consecutive[a] < MaxFailures
  /\ consecutive' = [consecutive EXCEPT ![a] = @ + 1]
  /\ Move(a, "backoff", IF consecutive[a] + 1 >= DegradedAfter
                        THEN "degraded" ELSE "recovering")
  /\ UNCHANGED <<proc, done, backoff, taskVars>>

\* Run returned without error and without cancellation.  No agent of the
\* repository does; the Agent interface allows it.
Finishes(a) ==
  /\ pc[a] = "run"
  /\ a \notin Periodic
  /\ ~done
  /\ consecutive' = [consecutive EXCEPT ![a] = 0]
  /\ backoff' = [backoff EXCEPT ![a] = RestartInitial]
  /\ pc' = [pc EXCEPT ![a] = "backoff"]
  /\ UNCHANGED <<proc, done, state, taskVars>>

\* Mutant: the wait does not grow.
SameRestartBackoff(b) == b

\* Mutant: the wait grows past the longest.
UncappedRestartBackoff(b) == 2 * b

NextRestartBackoff(b) == IF 2 * b > RestartMax THEN RestartMax ELSE 2 * b

\* The timer of the select fires.
Awake(a) ==
  /\ pc[a] = "backoff"
  /\ pc' = [pc EXCEPT ![a] = "start"]
  /\ backoff' = [backoff EXCEPT ![a] = NextRestartBackoff(@)]
  /\ UNCHANGED <<proc, done, state, consecutive, taskVars>>

CancelledInBackoff(a) ==
  /\ pc[a] = "backoff"
  /\ done
  /\ Stop(a)

-----------------------------------------------------------------------------
(***************************************************************************)
(* PeriodicAgent.Run.  A tick starts the task in a goroutine of its own,   *)
(* also when cancellation is ready too (select takes either); a tick that  *)
(* finds the flag set is counted and skipped, which changes nothing here.  *)
(* The deferred calls of the goroutine clear the flag before they call     *)
(* Done.                                                                   *)
(***************************************************************************)
\* Mutant: a tick does not look at the flag.
TickUnguarded(a) ==
  /\ a \in Periodic
  /\ pc[a] = "run"
  /\ tasks[a] < 2
  /\ flag' = [flag EXCEPT ![a] = TRUE]
  /\ tasks' = [tasks EXCEPT ![a] = @ + 1]
  /\ UNCHANGED <<proc, done, pc, state, backoff, consecutive, ending>>

Tick(a) ==
  /\ a \in Periodic
  /\ pc[a] = "run"
  /\ ~flag[a]
  /\ flag' = [flag EXCEPT ![a] = TRUE]
  /\ tasks' = [tasks EXCEPT ![a] = @ + 1]
  /\ UNCHANGED <<proc, done, pc, state, backoff, consecutive, ending>>

TaskEnds(a) ==
  /\ tasks[a] > 0
  /\ ending[a] < MaxEnding
  /\ flag' = [flag EXCEPT ![a] = FALSE]
  /\ tasks' = [tasks EXCEPT ![a] = @ - 1]
  /\ ending' = [ending EXCEPT ![a] = @ + 1]
  /\ UNCHANGED <<proc, done, pc, state, backoff, consecutive>>

\* Mutant: the goroutine does not call Done.
ForgetDone(a) ==
  /\ ending[a] > MaxEnding
  /\ UNCHANGED vars

CallDone(a) ==
  /\ ending[a] > 0
  /\ ending' = [ending EXCEPT ![a] = @ - 1]
  /\ UNCHANGED <<proc, done, pc, state, backoff, consecutive, flag, tasks>>

\* runOnce recovers panics of the goroutine that calls Run, which the task's
\* goroutine is not: the process dies.
TaskPanics(a) ==
  /\ tasks[a] > 0
  /\ proc' = "crashed"
  /\ UNCHANGED <<done, pc, state, backoff, consecutive, taskVars>>

SeesDone(a) ==
  /\ a \in Periodic
  /\ pc[a] = "run"
  /\ done
  /\ pc' = [pc EXCEPT ![a] = "drain"]
  /\ UNCHANGED <<proc, done, state, backoff, consecutive, taskVars>>

\* Mutant: Run returns without waiting for the run in flight.
LeaveTask(a) ==
  /\ pc[a] = "drain"
  /\ Stop(a)

Drained(a) ==
  /\ pc[a] = "drain"
  /\ tasks[a] + ending[a] = 0
  /\ Stop(a)

-----------------------------------------------------------------------------
(***************************************************************************)
(* main: a signal or a failed operational server cancels the context, then *)
(* Wait returns when every supervisor has, or when the grace expires.      *)
(***************************************************************************)
Cancel ==
  /\ ~done
  /\ done' = TRUE
  /\ UNCHANGED <<proc, pc, state, backoff, consecutive, taskVars>>

WaitDrained ==
  /\ done
  /\ \A a \in Agents : pc[a] = "gone"
  /\ proc' = "drained"
  /\ UNCHANGED <<done, pc, state, backoff, consecutive, taskVars>>

WaitExpired ==
  /\ done
  /\ proc' = "expired"
  /\ UNCHANGED <<done, pc, state, backoff, consecutive, taskVars>>

Supervise(a) ==
  Begin(a) \/ Returns(a) \/ Awake(a) \/ CancelledInBackoff(a) \/ SeesDone(a)
    \/ Drained(a)

Task(a) == TaskEnds(a) \/ CallDone(a)

AgentStep(a) ==
  Supervise(a) \/ Fails(a) \/ Finishes(a) \/ Tick(a) \/ Task(a)
    \/ TaskPanics(a)

Next ==
  /\ proc = "up"
  /\ Cancel \/ WaitDrained \/ WaitExpired \/ \E a \in Agents : AgentStep(a)

Spec == Init /\ [][Next]_vars

(***************************************************************************)
(* Fairness: a supervisor and a task's goroutine that can run do, a Run    *)
(* returns after cancellation (StreamAgent's SignalStops) and so does a    *)
(* task.  Nothing is assumed of failures, ticks, signals or the grace.     *)
(***************************************************************************)
FairSpec ==
  /\ Spec
  /\ \A a \in Agents :
       /\ WF_vars(proc = "up" /\ Supervise(a))
       /\ WF_vars(proc = "up" /\ Task(a))

-----------------------------------------------------------------------------
\* "A run that overruns its next due time must not start a second copy of
\* itself" (PeriodicAgent, internal/agent/periodic.go; FR-005).
NoOverlap == \A a \in Agents : tasks[a] <= 1

\* "All agents drained" is only logged when it is so (Wait, and the wait of
\* PeriodicAgent.Run for its task): no task is cut off half way.
DrainedIsQuiet ==
  proc = "drained" => \A a \in Agents : tasks[a] = 0 /\ ending[a] = 0

\* "A crash-looping agent must not become a hot loop" (supervise,
\* internal/agent/runner.go): the n-th failure in a row is followed by a wait
\* of at least 2^(n-1) initial waits, or by the longest.
CrashLoopIsSlowed ==
  \A a \in Agents :
    (pc[a] = "backoff" /\ consecutive[a] > 0) =>
      \/ backoff[a] = RestartMax
      \/ backoff[a] >= RestartInitial * 2 ^ (consecutive[a] - 1)

\* Shutdown ends without help from the grace period (supervise and
\* PeriodicAgent.Run): after cancellation every supervisor returns.
SupervisorsStop ==
  done ~> (proc # "up" \/ \A a \in Agents : pc[a] = "gone")

\* "Recovery here keeps it to the one agent": a panic of an agent's work does
\* not take the process down (runOnce, internal/agent/runner.go; FR-004).
PanicIsContained == proc # "crashed"
=============================================================================
