---------------------------- MODULE EventLedger -----------------------------
(***************************************************************************)
(* What a stream agent promises about every event of its stream, however   *)
(* many instances run it and whatever becomes of them.  An event published *)
(* after the agent first came up is waiting; it is taken, in the order of  *)
(* publication, or lost to trimming; an event that was taken is resolved   *)
(* (an outcome at every destination, or recorded as unprocessable) or its  *)
(* dispatch is cut short; only a resolved event is acknowledged, and no    *)
(* event goes back.                                                        *)
(***************************************************************************)
EXTENDS Integers

CONSTANT MaxId  \* bound: events published in a behaviour

VARIABLES
  open,  \* the agent has come up at least once
  fate   \* of each event

vars == <<open, fate>>

Events == 1 .. MaxId
Fates ==
  {"unborn", "early", "waiting", "lost", "taken", "resolved", "cut", "acked"}

TypeOK == open \in BOOLEAN /\ fate \in [Events -> Fates]

Init ==
  /\ open = FALSE
  /\ fate = [e \in Events |-> "unborn"]

Open ==
  /\ ~open
  /\ open' = TRUE
  /\ UNCHANGED fate

\* Exactly the events es change, all of them to the same fate.
Become(es, to) ==
  /\ fate' = [e \in Events |-> IF e \in es THEN to ELSE fate[e]]
  /\ UNCHANGED open

\* Events are published one after the other.
Publish ==
  \E e \in Events :
    /\ fate[e] = "unborn"
    /\ \A f \in 1 .. e - 1 : fate[f] # "unborn"
    /\ Become({e}, IF open THEN "waiting" ELSE "early")

\* What waits is taken, or lost, from the oldest to some event e.
FromOldest(to) ==
  \E e \in Events :
    /\ fate[e] = "waiting"
    /\ Become({f \in 1 .. e : fate[f] = "waiting"}, to)

Take == FromOldest("taken")
Lose == FromOldest("lost")

Becomes(from, to) ==
  \E e \in Events :
    /\ fate[e] = from
    /\ Become({e}, to)

Resolve == Becomes("taken", "resolved")
Cut == Becomes("taken", "cut")
Acknowledge == Becomes("resolved", "acked")

\* Every step changes something; said first, it spares TLC the other tests for a
\* step of an implementation that stutters here.
Next ==
  /\ vars' # vars
  /\ Open \/ Publish \/ Take \/ Lose \/ Resolve \/ Cut \/ Acknowledge

Spec == Init /\ [][Next]_vars
=============================================================================
