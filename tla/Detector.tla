------------------------------ MODULE Detector ------------------------------
(***************************************************************************)
(* The anomaly detector (internal/observability/anomaly.go): when a        *)
(* condition becomes an anomaly and how often support hears about it.      *)
(*                                                                         *)
(* A key is the pair of an anomaly type and a scope; the detector keeps    *)
(* one anomalyState per key.  Observe is a function from the state of a    *)
(* key to its next state, because all it reads besides is the clock and    *)
(* whether the notifier delivers.                                          *)
(***************************************************************************)
EXTENDS Integers, Sequences

CONSTANTS
  Cooldown,      \* ANOMALY_NOTIFY_COOLDOWN
  MaxPerHour,    \* ANOMALY_MAX_PER_HOUR
  SustainFor,    \* LAG_SUSTAINED_FOR
  Hour,          \* time.Hour
  EmailEnabled   \* EMAIL_ENABLED: only then can a notification fail

ASSUME DetectorAssumption ==
  /\ Cooldown \in Nat /\ MaxPerHour \in Nat /\ SustainFor \in Nat
  /\ Hour \in Nat \ {0}
  /\ EmailEnabled \in BOOLEAN

VARIABLES
  now,    \* the clock of the current sample
  st,     \* anomalyState of each key
  notes   \* history: notifications delivered for each key

detectorVars == <<now, st, notes>>

\* The zero time of Go; the clock starts after it.
Zero == 0

\* A key that was never observed: Observe makes its state, whose hour starts at
\* the first observation.
Unknown ==
  [active |-> FALSE, breachedAt |-> Zero, lastNotified |-> Zero,
   sentThisHour |-> 0, hourStart |-> Zero]

AnomalyState ==
  [active : BOOLEAN, breachedAt : Nat, lastNotified : Nat, sentThisHour : Nat,
   hourStart : Nat]

DetectorInit(keys) ==
  /\ now = 1
  /\ st = [k \in keys |-> Unknown]
  /\ notes = [k \in keys |-> <<>>]

-----------------------------------------------------------------------------
(***************************************************************************)
(* send.                                                                   *)
(***************************************************************************)
RollHour(s) ==
  IF now - s.hourStart >= Hour
  THEN [s EXCEPT !.hourStart = now, !.sentThisHour = 0] ELSE s

\* Mutant: the cooldown is over one tick early.
ShortCooldown(s) ==
  \/ s.lastNotified # Zero /\ now - s.lastNotified < Cooldown - 1
  \/ s.sentThisHour >= MaxPerHour

\* Mutant: one notification too many passes the ceiling.
CeilingOffByOne(s) ==
  \/ s.lastNotified # Zero /\ now - s.lastNotified < Cooldown
  \/ s.sentThisHour > MaxPerHour

Suppressed(s) ==
  \/ s.lastNotified # Zero /\ now - s.lastNotified < Cooldown
  \/ s.sentThisHour >= MaxPerHour

\* Mutant: the hour is rolled only when a message goes out.
SendRollsLate(s, force, ok) ==
  IF (~force /\ Suppressed(s)) \/ ~ok THEN s
  ELSE [RollHour(s) EXCEPT !.lastNotified = now, !.sentThisHour = @ + 1]

Send(s, force, ok) ==
  LET h == RollHour(s)
  IN  IF (~force /\ Suppressed(h)) \/ ~ok THEN h
      ELSE [h EXCEPT !.lastNotified = now, !.sentThisHour = @ + 1]

-----------------------------------------------------------------------------
(***************************************************************************)
(* Observe.                                                                *)
(***************************************************************************)
Known(s) == IF s = Unknown THEN [s EXCEPT !.hourStart = now] ELSE s

\* Mutant: the start of the breach survives the end of the breach.
ClearedKeepsBreach(s, ok) ==
  IF s.active THEN Send([s EXCEPT !.active = FALSE], TRUE, ok) ELSE s

\* Mutant: the anomaly is announced as resolved and stays active.
ClearedStaysActive(s, ok) ==
  LET c == [s EXCEPT !.breachedAt = Zero]
  IN  IF s.active THEN Send(c, TRUE, ok) ELSE c

Cleared(s, ok) ==
  LET c == [s EXCEPT !.breachedAt = Zero]
  IN  IF s.active THEN Send([c EXCEPT !.active = FALSE], TRUE, ok) ELSE c

Breached(s, sustain, ok) ==
  LET b == [s EXCEPT !.breachedAt = IF @ = Zero THEN now ELSE @]
  IN  IF sustain /\ now - b.breachedAt < SustainFor THEN b
      ELSE Send([b EXCEPT !.active = TRUE], FALSE, ok)

Observed(s, breached, sustain, ok) ==
  IF breached THEN Breached(Known(s), sustain, ok) ELSE Cleared(Known(s), ok)

\* EmailNotifier.Notify: the keys among ks whose notification fails.  With
\* email disabled it only logs, and succeeds.
NotifyFailures(ks) == IF EmailEnabled THEN SUBSET ks ELSE {{}}

-----------------------------------------------------------------------------
\* A notification was delivered when a key went from state s to state t.
Told(s, t) ==
  /\ t.lastNotified = now
  /\ s.lastNotified # now \/ t.sentThisHour > s.sentThisHour

\* What it said, when, and since when the condition had held without a break.
NotesAfter(n, s, t, breached, since) ==
  IF Told(s, t)
  THEN Append(n, [kind |-> IF breached THEN "onset" ELSE "resolved",
                  at |-> now, since |-> since])
  ELSE n
=============================================================================
