------------------------------ MODULE Monitor -------------------------------
(***************************************************************************)
(* The monitor (internal/agent/monitor.go): it samples the lag of every    *)
(* agent at an interval, tells the detector, and keeps the snapshot that   *)
(* readyz (internal/observability/http.go) answers from.                   *)
(*                                                                         *)
(* The reading of an agent is the set of conditions that hold for it when  *)
(* its Lag is called: the types of the anomalies they stand for.  The      *)
(* interval of the ticker is the unit of time, and a sample takes less.    *)
(***************************************************************************)
EXTENDS Detector, FiniteSets

CONSTANTS
  AgentSeq,    \* agents with a lag, in the order they are sampled
  Source,      \* the source each of them reads
  Lists,       \* those whose source is a list
  Conditions,  \* conditions that occur in a behaviour
  MaxTime      \* bound: samples in a behaviour

Lag == "lag_threshold"
Trimmed == "entries_trimmed"
Unavailable == "source_unavailable"
Depth == "log_list_depth"
Types == {Lag, Trimmed, Unavailable, Depth}

MonitorAgents == {AgentSeq[i] : i \in 1 .. Len(AgentSeq)}

ASSUME MonitorAssumption ==
  /\ AgentSeq \in Seq(MonitorAgents)
  /\ Conditions \subseteq Types
  /\ MaxTime \in Nat \ {0}

Keys == Types \X (MonitorAgents \cup {Source[a] : a \in MonitorAgents})

VARIABLES
  todo,      \* agents the current sample has still to read
  snapshot,  \* what the current sample found
  latest,    \* the snapshot of the last sample that ended
  reading,   \* history: what held for each agent when it was last read
  streak,    \* history: first observation of an unbroken breach of each key
  tried      \* history: when a notification about each key was last attempted

vars == <<detectorVars, todo, snapshot, latest, reading, streak, tried>>

\* A health the snapshot does not hold yet.
NoHealth == [a \in {} |-> {}]

\* Types of every variable.
TypeOK ==
  /\ now \in 1 .. MaxTime
  /\ st \in [Keys -> AnomalyState]
  /\ notes \in [Keys -> Seq([kind : {"onset", "resolved"}, at : Nat,
                             since : Nat])]
  /\ Len(todo) <= Len(AgentSeq)
  /\ \A a \in DOMAIN snapshot : snapshot[a] \subseteq {Lag, Trimmed}
  /\ \A a \in DOMAIN latest : latest[a] \subseteq {Lag, Trimmed}
  /\ \A a \in DOMAIN reading : reading[a] \subseteq Conditions
  /\ streak \in [Keys -> Nat]
  /\ tried \in [Keys -> Nat]

Init ==
  /\ DetectorInit(Keys)
  /\ todo = AgentSeq
  /\ snapshot = NoHealth
  /\ latest = NoHealth
  /\ reading = NoHealth
  /\ streak = [k \in Keys |-> Zero]
  /\ tried = [k \in Keys |-> Zero]

-----------------------------------------------------------------------------
\* The keys sample observes for agent a: a reading that failed says nothing of
\* the lag.
ObservedKeys(a, r) ==
  {<<Unavailable, Source[a]>>} \cup
  (IF Unavailable \in r THEN {}
   ELSE {<<Lag, a>>, <<Trimmed, a>>} \cup
        (IF a \in Lists THEN {<<Depth, Source[a]>>} ELSE {}))

\* Mutant: the health names every condition.
HealthOfAll(r) == r

\* The health recorded for an agent; a reading that failed leaves lag zero.
HealthOf(r) == IF Unavailable \in r THEN {} ELSE r \cap {Lag, Trimmed}

With(f, a, v) == [x \in DOMAIN f \cup {a} |-> IF x = a THEN v ELSE f[x]]

Observe(ks, r, failed) ==
  /\ st' = [k \in Keys |->
              IF k \in ks
              THEN Observed(st[k], k[1] \in r, k[1] = Lag, k \notin failed)
              ELSE st[k]]
  /\ streak' = [k \in Keys |->
                  IF k \notin ks THEN streak[k]
                  ELSE IF k[1] \notin r THEN Zero
                  ELSE IF streak[k] = Zero THEN now ELSE streak[k]]
  /\ notes' = [k \in Keys |->
                 NotesAfter(notes[k], st[k], st'[k], k[1] \in r,
                            IF k[1] \in r THEN streak'[k] ELSE streak[k])]
  /\ tried' = [k \in Keys |->
                 IF k \in ks /\ Told(st[k], Observed(st[k], k[1] \in r,
                                                  k[1] = Lag, TRUE))
                 THEN now ELSE tried[k]]

SampleAgent ==
  /\ todo # <<>>
  /\ LET a == Head(todo)
     IN  \E r \in SUBSET Conditions :
           /\ \E failed \in NotifyFailures(ObservedKeys(a, r)) :
                Observe(ObservedKeys(a, r), r, failed)
           /\ snapshot' = With(snapshot, a, HealthOf(r))
           /\ reading' = With(reading, a, r)
  /\ todo' = Tail(todo)
  /\ latest' = IF Tail(todo) = <<>> THEN snapshot' ELSE latest
  /\ UNCHANGED now

NextTick ==
  /\ todo = <<>>
  /\ now < MaxTime
  /\ now' = now + 1
  /\ todo' = AgentSeq
  /\ snapshot' = NoHealth
  /\ UNCHANGED <<st, notes, latest, reading, streak, tried>>

Next == SampleAgent \/ NextTick

Spec == Init /\ [][Next]_vars

-----------------------------------------------------------------------------
Onsets(k) == {i \in DOMAIN notes[k] : notes[k][i].kind = "onset"}
Resolutions(k) == {i \in DOMAIN notes[k] : notes[k][i].kind = "resolved"}

\* A COOLDOWN keeps repeated notifications apart (Detector.send): support hears
\* of an anomaly, again or anew, only a cooldown after the last message.
CooldownHolds ==
  \A k \in Keys : \A i \in Onsets(k) :
    i > 1 => notes[k][i].at - notes[k][i - 1].at >= Cooldown

\* Onsets of key k in the hour that begins at time t.
HourOf(k, t) ==
  {i \in Onsets(k) : t <= notes[k][i].at /\ notes[k][i].at < t + Hour}

\* What the hourly ceiling is worth on support's clock (Detector.send): the hour
\* it counts in starts at an observation and is rolled by a later one, so an hour
\* that begins at any message holds up to twice MaxPerHour messages about a
\* condition that persists or comes back, and never more.
TwiceTheCeiling ==
  \A k \in Keys : \A i \in Onsets(k) :
    Cardinality(HourOf(k, notes[k][i].at)) <= 2 * MaxPerHour

\* Suppression ends (Detector.send rolls the hour before it looks at the
\* ceiling): a condition found breached by a sample is younger than the sustain
\* window, or a message about it was at least attempted less than a cooldown or
\* less than an hour ago, however the ceiling was used up before.
SilenceIsBounded ==
  (todo = <<>> /\ MaxPerHour > 0) =>
    \A a \in MonitorAgents : \A k \in ObservedKeys(a, reading[a]) :
      streak[k] # Zero =>
        \/ k[1] = Lag /\ now - streak[k] < SustainFor
        \/ /\ tried[k] # Zero
           /\ now - tried[k] < Cooldown \/ now - tried[k] < Hour

\* A SUSTAIN window, "so a single burst does not page anyone" (Detector):
\* support hears of lag only if every observation since SustainFor ago found it.
SustainHolds ==
  \A k \in Keys : \A i \in Onsets(k) :
    k[1] = Lag => notes[k][i].at - notes[k][i].since >= SustainFor

\* "Exactly one notification when a condition clears" (Detector.Observe): never
\* a second one for the same breach, however long it stays clear.  The breach
\* that a resolution ends began no earlier than the resolution before it.
OneResolution ==
  \A k \in Keys : \A i, j \in Resolutions(k) :
    i < j => notes[k][i].at <= notes[k][j].since
=============================================================================
