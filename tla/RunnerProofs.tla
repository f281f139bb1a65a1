---------------------------- MODULE RunnerProofs ----------------------------
(***************************************************************************)
(* The safety properties of Runner for any number of agents and failures   *)
(* and any waits.                                                          *)
(***************************************************************************)
EXTENDS Runner, FiniteSetTheorems, TLAPS

-----------------------------------------------------------------------------
(***************************************************************************)
(* Powers of two.  The provers know no law of ^, but the library counts    *)
(* the subsets of a finite set with it: the subsets of 1 .. n + 1 are      *)
(* those of 1 .. n, without n + 1 and with it.                             *)
(***************************************************************************)
\* A power of two, the number of waits of CrashLoopIsSlowed, is positive.
LEMMA PowerType ==
  ASSUME NEW n \in Nat
  PROVE  /\ IsFiniteSet(SUBSET (1 .. n))
         /\ Cardinality(SUBSET (1 .. n)) = 2 ^ n
         /\ 2 ^ n \in Nat
  <1>1. IsFiniteSet(1 .. n) /\ Cardinality(1 .. n) = n
    BY FS_Interval
  <1>2. /\ IsFiniteSet(SUBSET (1 .. n))
        /\ Cardinality(SUBSET (1 .. n)) = 2 ^ n
    BY <1>1, FS_SUBSET, Zenon
  <1> QED
    BY <1>2, FS_CardinalityType, Zenon

\* One more failure doubles the wait that CrashLoopIsSlowed asks for.
LEMMA Doubling == ASSUME NEW n \in Nat PROVE 2 ^ (n + 1) = 2 * 2 ^ n
  <1> DEFINE A == SUBSET (1 .. n)
             B == {T \cup {n + 1} : T \in A}
             f == [T \in A |-> T \cup {n + 1}]
  <1>1. n + 1 \notin 1 .. n /\ 1 .. n + 1 = (1 .. n) \cup {n + 1}
    OBVIOUS
  <1>2. SUBSET (1 .. n + 1) = A \cup B
    <2>1. ASSUME NEW U \in SUBSET (1 .. n + 1) PROVE U \in A \cup B
      <3>1. CASE n + 1 \in U
        <4>1. U \ {n + 1} \in A /\ U = (U \ {n + 1}) \cup {n + 1}
          BY <1>1, <3>1, Zenon
        <4> QED
          BY <4>1, Zenon
      <3>2. CASE n + 1 \notin U
        BY <1>1, <3>2, Zenon
      <3> QED
        BY <3>1, <3>2
    <2>2. ASSUME NEW U \in A \cup B PROVE U \in SUBSET (1 .. n + 1)
      BY <1>1, Zenon
    <2> QED
      BY <2>1, <2>2, Zenon
  <1>3. A \cap B = {}
    BY <1>1, Zenon
  <1>4. f \in Bijection(A, B)
    <2>1. f \in [A -> B]
      BY Zenon
    <2>2. \A T, U \in A : f[T] = f[U] => T = U
      <3> SUFFICES ASSUME NEW T \in A, NEW U \in A, f[T] = f[U] PROVE T = U
        OBVIOUS
      <3>1. T \cup {n + 1} = U \cup {n + 1} /\ n + 1 \notin T /\ n + 1 \notin U
        BY <1>1, Zenon
      <3> QED
        BY <3>1
    <2>3. \A V \in B : \E T \in A : f[T] = V
      BY Zenon
    <2> QED
      BY <2>1, <2>2, <2>3 DEF Bijection, Injection, Surjection, IsInjective
  <1>5. /\ IsFiniteSet(A) /\ Cardinality(A) = 2 ^ n /\ 2 ^ n \in Nat
        /\ Cardinality(SUBSET (1 .. n + 1)) = 2 ^ (n + 1)
    <2>1. n + 1 \in Nat
      OBVIOUS
    <2> QED
      BY <2>1, PowerType
  <1> HIDE DEF A, B, f
  <1>6. IsFiniteSet(B) /\ Cardinality(B) = Cardinality(A)
    BY <1>4, <1>5, FS_Bijection, Zenon DEF ExistsBijection
  <1>7. Cardinality(A \cup B) =
          Cardinality(A) + Cardinality(B) - Cardinality(A \cap B)
    BY <1>5, <1>6, FS_Union, Zenon
  <1>8. Cardinality(A \cap B) = 0
    BY <1>3, FS_EmptySet, Zenon
  <1>9. ASSUME NEW p \in Nat PROVE p + p - 0 = 2 * p
    OBVIOUS
  <1>10. 2 ^ (n + 1) = 2 ^ n + 2 ^ n - 0
    BY <1>2, <1>5, <1>6, <1>7, <1>8, Zenon
  <1> QED
    BY <1>5, <1>9, <1>10, Zenon

-----------------------------------------------------------------------------
(***************************************************************************)
(* The inductive invariant.                                                *)
(***************************************************************************)

\* The flag is set exactly while a run of the task is in flight.
FlagGuards ==
  \A a \in Agents : tasks[a] = IF flag[a] THEN 1 ELSE 0

\* Only a periodic agent inside its Run has goroutines: supervise cannot have
\* restarted or left it with one.
TasksAreInRun ==
  \A a \in Agents :
    (tasks[a] # 0 \/ ending[a] # 0) => a \in Periodic /\ pc[a] \in {"run", "drain"}

\* "Drained" is said only when every supervisor has returned.
DrainedIsGone == proc = "drained" => \A a \in Agents : pc[a] = "gone"

\* The wait that will follow a failure.  At the start of a Run it has already
\* been doubled once for each failure in a row; during the wait the last failure
\* is counted and its doubling is still to come.
WaitGrows ==
  \A a \in Agents :
    /\ backoff[a] >= RestartInitial
    /\ pc[a] \in {"start", "run"} =>
         \/ backoff[a] = RestartMax
         \/ backoff[a] >= RestartInitial * 2 ^ consecutive[a]

IInv ==
  /\ TypeOK
  /\ FlagGuards /\ TasksAreInRun /\ DrainedIsGone /\ WaitGrows
  /\ CrashLoopIsSlowed

-----------------------------------------------------------------------------
\* The wait stays within its limits when it is doubled (supervise).
LEMMA BackoffRange ==
  ASSUME NEW b \in 1 .. RestartMax
  PROVE  /\ NextRestartBackoff(b) \in 1 .. RestartMax
         /\ NextRestartBackoff(b) >= b
         /\ NextRestartBackoff(b) = RestartMax \/ NextRestartBackoff(b) = 2 * b
  BY RestartAssumption DEF NextRestartBackoff

\* Start leaves every agent in a state of the right type.
LEMMA InitType == Init => TypeOK
  <1>1. RestartInitial \in 1 .. RestartMax /\ 0 \in Nat
    BY RestartAssumption
  <1> QED
    BY <1>1, Zenon DEF Init, TypeOK

\* Types are kept by every step of supervise, PeriodicAgent.Run and main.
LEMMA NextType == TypeOK /\ [Next]_vars => TypeOK'
  <1> SUFFICES ASSUME TypeOK, [Next]_vars PROVE TypeOK'
    OBVIOUS
  <1> USE DEF taskVars
  <1>1. CASE Cancel \/ WaitDrained \/ WaitExpired
    BY <1>1 DEF Cancel, WaitDrained, WaitExpired, TypeOK
  <1>2. ASSUME NEW a \in Agents, Begin(a) PROVE TypeOK'
    BY <1>2 DEF Begin, Stop, Move, TypeOK
  <1>3. ASSUME NEW a \in Agents, Returns(a) \/ CancelledInBackoff(a) \/ Drained(a)
        PROVE  TypeOK'
    BY <1>3 DEF Returns, CancelledInBackoff, Drained, Stop, Move, TypeOK
  <1>4. ASSUME NEW a \in Agents, Awake(a) PROVE TypeOK'
    <2>1. NextRestartBackoff(backoff[a]) \in 1 .. RestartMax
      BY BackoffRange DEF TypeOK
    <2> QED
      BY <1>4, <2>1 DEF Awake, TypeOK
  <1>5. ASSUME NEW a \in Agents, SeesDone(a) PROVE TypeOK'
    BY <1>5 DEF SeesDone, TypeOK
  <1>6. ASSUME NEW a \in Agents, Fails(a) PROVE TypeOK'
    BY <1>6 DEF Fails, Move, TypeOK
  <1>7. ASSUME NEW a \in Agents, Finishes(a) PROVE TypeOK'
    BY <1>7, RestartAssumption DEF Finishes, TypeOK
  <1>8. ASSUME NEW a \in Agents, Tick(a) \/ TaskEnds(a) \/ CallDone(a)
        PROVE  TypeOK'
    <2>1. flag' \in [Agents -> BOOLEAN]
      BY <1>8, Zenon DEF Tick, TaskEnds, CallDone, TypeOK
    <2>2. tasks' \in [Agents -> Nat] /\ ending' \in [Agents -> Nat]
      BY <1>8 DEF Tick, TaskEnds, CallDone, TypeOK
    <2> QED
      BY <1>8, <2>1, <2>2 DEF Tick, TaskEnds, CallDone, TypeOK
  <1>9. ASSUME NEW a \in Agents, TaskPanics(a) PROVE TypeOK'
    BY <1>9 DEF TaskPanics, TypeOK
  <1>10. CASE UNCHANGED vars
    BY <1>10 DEF vars, TypeOK
  <1> QED
    BY <1>1, <1>2, <1>3, <1>4, <1>5, <1>6, <1>7, <1>8, <1>9, <1>10
    DEF Next, AgentStep, Supervise, Task

\* Every step keeps the flag equal to a run in flight, and every goroutine of a
\* task inside the Run that waits for it (PeriodicAgent.Run).
LEMMA NextTasks ==
  TypeOK /\ FlagGuards /\ TasksAreInRun /\ DrainedIsGone /\ [Next]_vars
    => FlagGuards' /\ TasksAreInRun' /\ DrainedIsGone'
  <1> SUFFICES ASSUME TypeOK, FlagGuards, TasksAreInRun, DrainedIsGone,
                      [Next]_vars
               PROVE  FlagGuards' /\ TasksAreInRun' /\ DrainedIsGone'
    OBVIOUS
  <1> USE DEF taskVars
  <1>1. CASE Cancel
    BY <1>1 DEF Cancel, FlagGuards, TasksAreInRun, DrainedIsGone
  <1>2. CASE WaitDrained \/ WaitExpired
    BY <1>2 DEF WaitDrained, WaitExpired, FlagGuards, TasksAreInRun, DrainedIsGone
  <1>3. CASE UNCHANGED vars
    BY <1>3 DEF vars, FlagGuards, TasksAreInRun, DrainedIsGone
  <1>4. ASSUME proc = "up", NEW a \in Agents, AgentStep(a)
        PROVE  FlagGuards' /\ TasksAreInRun' /\ DrainedIsGone'
    <2>1. DrainedIsGone'
      BY <1>4
      DEF AgentStep, Supervise, Task, Begin, Returns, Awake, CancelledInBackoff,
          SeesDone, Drained, Fails, Finishes, Tick, TaskEnds, CallDone,
          TaskPanics, Stop, DrainedIsGone
    <2>2. CASE Begin(a) \/ Returns(a) \/ CancelledInBackoff(a) \/ Drained(a)
      <3>1. /\ UNCHANGED <<flag, tasks, ending>>
            /\ \E to \in {"run", "gone"} : pc' = [pc EXCEPT ![a] = to]
        BY <2>2 DEF Begin, Returns, CancelledInBackoff, Drained, Stop, Move
      <3>2. tasks[a] = 0 /\ ending[a] = 0
        BY <2>2 DEF Begin, Returns, CancelledInBackoff, Drained, TypeOK,
           TasksAreInRun
      <3> QED
        BY <2>1, <3>1, <3>2 DEF TypeOK, FlagGuards, TasksAreInRun
    <2>3. CASE Awake(a) \/ Fails(a) \/ Finishes(a) \/ SeesDone(a)
      <3>1. /\ UNCHANGED <<flag, tasks, ending>>
            /\ \/ a \notin Periodic \/ pc[a] = "backoff"
               \/ pc' = [pc EXCEPT ![a] = "drain"]
            /\ \E to \in {"start", "backoff", "drain"} : pc' = [pc EXCEPT ![a] = to]
        BY <2>3 DEF Awake, Fails, Finishes, SeesDone, Move
      <3> QED
        BY <2>1, <3>1 DEF TypeOK, FlagGuards, TasksAreInRun
    <2>4. CASE Tick(a) \/ TaskEnds(a) \/ CallDone(a)
      <3>1. UNCHANGED pc /\ a \in Periodic /\ pc[a] \in {"run", "drain"}
        BY <2>4 DEF Tick, TaskEnds, CallDone, TypeOK, TasksAreInRun
      <3>2. FlagGuards'
        BY <2>4 DEF Tick, TaskEnds, CallDone, TypeOK, FlagGuards
      <3>3. TasksAreInRun'
        BY <2>4, <3>1 DEF Tick, TaskEnds, CallDone, TypeOK, TasksAreInRun
      <3> QED
        BY <2>1, <3>2, <3>3
    <2>5. CASE TaskPanics(a)
      BY <2>1, <2>5 DEF TaskPanics, FlagGuards, TasksAreInRun
    <2> QED
      BY <1>4, <2>2, <2>3, <2>4, <2>5 DEF AgentStep, Supervise, Task
  <1> QED
    BY <1>1, <1>2, <1>3, <1>4 DEF Next

\* Each failure in a row doubles the wait before the next Run, up to the longest,
\* and only a Run that returns without error takes it back (supervise).
LEMMA NextWait ==
  TypeOK /\ WaitGrows /\ CrashLoopIsSlowed /\ [Next]_vars
    => WaitGrows' /\ CrashLoopIsSlowed'
  <1> SUFFICES ASSUME TypeOK, WaitGrows, CrashLoopIsSlowed, [Next]_vars
               PROVE  WaitGrows' /\ CrashLoopIsSlowed'
    OBVIOUS
  <1> DEFINE Need(n) == RestartInitial * 2 ^ n
  <1>1. /\ \A n \in Nat : Need(n) \in Nat /\ Need(n + 1) = 2 * Need(n)
        /\ Need(0) = RestartInitial
    <2>1. ASSUME NEW n \in Nat, NEW p \in Nat, NEW q \in Nat, q = 2 * p
          PROVE  /\ RestartInitial * p \in Nat
                 /\ RestartInitial * q = 2 * (RestartInitial * p)
      BY <2>1, RestartAssumption
    <2>2. ASSUME NEW n \in Nat PROVE Need(n) \in Nat /\ Need(n + 1) = 2 * Need(n)
      <3>1. n + 1 \in Nat
        OBVIOUS
      <3>2. 2 ^ n \in Nat /\ 2 ^ (n + 1) \in Nat /\ 2 ^ (n + 1) = 2 * 2 ^ n
        BY <3>1, PowerType, Doubling, Zenon
      <3> QED
        BY <2>1, <3>2, Zenon
    <2>3. Need(0) = RestartInitial
      BY RestartAssumption
    <2> QED
      BY <2>2, <2>3
  <1>2. WaitGrows <=>
          \A a \in Agents :
            /\ backoff[a] >= RestartInitial
            /\ pc[a] \in {"start", "run"} =>
                 backoff[a] = RestartMax \/ backoff[a] >= Need(consecutive[a])
    BY Zenon DEF WaitGrows
  <1>3. CrashLoopIsSlowed <=>
          \A a \in Agents :
            pc[a] = "backoff" /\ consecutive[a] > 0 =>
              backoff[a] = RestartMax \/ backoff[a] >= Need(consecutive[a] - 1)
    BY Zenon DEF CrashLoopIsSlowed
  <1>4. WaitGrows' <=>
          \A a \in Agents :
            /\ backoff'[a] >= RestartInitial
            /\ pc'[a] \in {"start", "run"} =>
                 backoff'[a] = RestartMax \/ backoff'[a] >= Need(consecutive'[a])
    BY Zenon DEF WaitGrows
  <1>5. CrashLoopIsSlowed' <=>
          \A a \in Agents :
            pc'[a] = "backoff" /\ consecutive'[a] > 0 =>
              backoff'[a] = RestartMax \/ backoff'[a] >= Need(consecutive'[a] - 1)
    BY Zenon DEF CrashLoopIsSlowed
  <1> HIDE DEF Need
  <1>6. CASE UNCHANGED <<pc, backoff, consecutive>>
    BY <1>2, <1>3, <1>4, <1>5, <1>6
  <1>7. ASSUME NEW a \in Agents,
               Begin(a) \/ Returns(a) \/ CancelledInBackoff(a) \/ Drained(a)
                 \/ SeesDone(a)
        PROVE  WaitGrows' /\ CrashLoopIsSlowed'
    <2>1. /\ UNCHANGED <<backoff, consecutive>>
          /\ \/ pc[a] = "start" /\ pc' = [pc EXCEPT ![a] = "run"]
             \/ \E to \in {"drain", "gone"} : pc' = [pc EXCEPT ![a] = to]
      BY <1>7 DEF Begin, Returns, CancelledInBackoff, Drained, SeesDone, Stop, Move
    <2> QED
      BY <1>2, <1>3, <1>4, <1>5, <2>1 DEF TypeOK
  <1>8. ASSUME NEW a \in Agents, Awake(a) PROVE WaitGrows' /\ CrashLoopIsSlowed'
    <2> DEFINE b == backoff[a]
               n == consecutive[a]
               w == NextRestartBackoff(b)
    <2>1. /\ pc[a] = "backoff" /\ pc' = [pc EXCEPT ![a] = "start"]
          /\ backoff' = [backoff EXCEPT ![a] = w] /\ UNCHANGED consecutive
      BY <1>8 DEF Awake
    <2>2. /\ b \in 1 .. RestartMax /\ n \in Nat /\ w \in 1 .. RestartMax /\ w >= b
          /\ w = RestartMax \/ w = 2 * b
      BY BackoffRange DEF TypeOK
    <2>3. b >= RestartInitial
      BY <1>2
    <2>4. n > 0 => b = RestartMax \/ b >= Need(n - 1)
      BY <1>3, <2>1
    <2> HIDE DEF b, n, w
    <2>5. w >= RestartInitial
      BY <2>2, <2>3, RestartAssumption
    <2>6. w = RestartMax \/ w >= Need(n)
      <3>1. CASE n = 0
        BY <1>1, <2>2, <2>5, <3>1
      <3>2. CASE n > 0
        <4>1. /\ n - 1 \in Nat /\ Need(n - 1) \in Nat
              /\ Need(n) = 2 * Need(n - 1)
          <5>1. n - 1 \in Nat /\ (n - 1) + 1 = n
            BY <2>2, <3>2
          <5> QED
            BY <1>1, <5>1
        <4> QED
          BY <2>2, <2>4, <3>2, <4>1, RestartAssumption
      <3> QED
        BY <2>2, <3>1, <3>2
    <2> QED
      BY <1>2, <1>3, <1>4, <1>5, <2>1, <2>5, <2>6 DEF TypeOK, n
  <1>9. ASSUME NEW a \in Agents, Fails(a) PROVE WaitGrows' /\ CrashLoopIsSlowed'
    <2>1. /\ pc[a] = "run" /\ pc' = [pc EXCEPT ![a] = "backoff"]
          /\ consecutive' = [consecutive EXCEPT ![a] = @ + 1] /\ UNCHANGED backoff
          /\ consecutive[a] + 1 - 1 = consecutive[a]
      BY <1>9 DEF Fails, Move, TypeOK
    <2> QED
      BY <1>2, <1>3, <1>4, <1>5, <2>1 DEF TypeOK
  <1>10. ASSUME NEW a \in Agents, Finishes(a)
         PROVE  WaitGrows' /\ CrashLoopIsSlowed'
    <2>1. /\ pc' = [pc EXCEPT ![a] = "backoff"]
          /\ consecutive' = [consecutive EXCEPT ![a] = 0]
          /\ backoff' = [backoff EXCEPT ![a] = RestartInitial]
      BY <1>10 DEF Finishes
    <2> QED
      BY <1>2, <1>3, <1>4, <1>5, <2>1, RestartAssumption DEF TypeOK
  <1>11. ASSUME NEW a \in Agents,
                Tick(a) \/ TaskEnds(a) \/ CallDone(a) \/ TaskPanics(a)
         PROVE  UNCHANGED <<pc, backoff, consecutive>>
    BY <1>11 DEF Tick, TaskEnds, CallDone, TaskPanics
  <1>12. Cancel \/ WaitDrained \/ WaitExpired \/ UNCHANGED vars
           => UNCHANGED <<pc, backoff, consecutive>>
    BY DEF Cancel, WaitDrained, WaitExpired, vars
  <1> QED
    BY <1>6, <1>7, <1>8, <1>9, <1>10, <1>11, <1>12
    DEF Next, AgentStep, Supervise, Task

\* The inductive invariant holds in every behaviour of the process.
LEMMA Invariant == Spec => []IInv
  <1>1. Init => IInv
    <2> SUFFICES ASSUME Init PROVE IInv
      OBVIOUS
    <2>1. FlagGuards /\ TasksAreInRun /\ DrainedIsGone /\ CrashLoopIsSlowed
      BY DEF Init, FlagGuards, TasksAreInRun, DrainedIsGone, CrashLoopIsSlowed
    <2>2. WaitGrows
      <3>1. RestartInitial >= RestartInitial * 2 ^ 0
        BY RestartAssumption
      <3>2. RestartInitial >= RestartInitial
        BY RestartAssumption
      <3>3. \A a \in Agents : backoff[a] = RestartInitial /\ consecutive[a] = 0
        BY DEF Init
      <3> QED
        BY <3>1, <3>2, <3>3, Zenon DEF WaitGrows
    <2> QED
      BY <2>1, <2>2, InitType DEF IInv
  <1>2. IInv /\ [Next]_vars => IInv'
    BY NextType, NextTasks, NextWait DEF IInv
  <1> QED
    BY <1>1, <1>2, PTL DEF Spec

-----------------------------------------------------------------------------
\* Every variable of the runner and the periodic agents keeps its type.
THEOREM TypeCorrect == Spec => []TypeOK
  BY Invariant, PTL DEF IInv

\* "A run that overruns its next due time must not start a second copy of itself"
\* (PeriodicAgent), for any number of periodic agents.
THEOREM NeverOverlaps == Spec => []NoOverlap
  <1>1. IInv => NoOverlap
    <2>1. IInv => \A a \in Agents : tasks[a] \in {0, 1}
      BY Zenon DEF IInv, FlagGuards
    <2>2. \A t \in {0, 1} : t <= 1
      OBVIOUS
    <2> QED
      BY <2>1, <2>2, Zenon DEF NoOverlap
  <1> QED
    BY <1>1, Invariant, PTL

\* "All agents drained" is said only when no goroutine of a task is left (Wait
\* and the WaitGroup of PeriodicAgent.Run).
THEOREM DrainCutsNothingOff == Spec => []DrainedIsQuiet
  <1>1. IInv => DrainedIsQuiet
    BY DEF IInv, TasksAreInRun, DrainedIsGone, DrainedIsQuiet
  <1> QED
    BY <1>1, Invariant, PTL

\* "A crash-looping agent must not become a hot loop" (supervise): the n-th failure
\* in a row is followed by 2^(n-1) initial waits or the longest, for every n.
THEOREM CrashLoopSlowsDown == Spec => []CrashLoopIsSlowed
  BY Invariant, PTL DEF IInv
=============================================================================
