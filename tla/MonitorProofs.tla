--------------------------- MODULE MonitorProofs ----------------------------
(***************************************************************************)
(* The safety properties of Monitor and Detector for any agents, sources,  *)
(* windows and limits.  What the detector remembers of a key is tied to    *)
(* the messages support received, first for one call of Observe and then   *)
(* for every step of the monitor.                                          *)
(***************************************************************************)
EXTENDS Monitor, FiniteSetTheorems, TLAPS

Note == [kind : {"onset", "resolved"}, at : Nat, since : Nat]

\* The detector's state of a key agrees with the breach it is in and with the
\* messages sent: breachedAt is the start of the breach, lastNotified the time
\* of the last message, and the hour was current at that time.
Remembers(k) ==
  /\ st[k].breachedAt = streak[k] /\ streak[k] <= now
  /\ st[k].active => streak[k] # Zero
  /\ st[k].lastNotified <= now /\ st[k].hourStart <= now
  /\ st[k].lastNotified < st[k].hourStart + Hour
  /\ notes[k] # <<>> => notes[k][Len(notes[k])].at = st[k].lastNotified
  /\ \A i \in DOMAIN notes[k] :
       1 <= notes[k][i].at /\ notes[k][i].at <= st[k].lastNotified

\* Messages of the hour being counted, resolutions included.
ThisHour(k) == {i \in DOMAIN notes[k] : notes[k][i].at >= st[k].hourStart}

\* sentThisHour counts them all.
Counted(k) == Cardinality(ThisHour(k)) <= st[k].sentThisHour

\* Onsets of the hour being counted, and of the hour before it.
HourOnsets(k) == {i \in Onsets(k) : notes[k][i].at >= st[k].hourStart}
OlderOnsets(k) ==
  {i \in Onsets(k) : /\ st[k].hourStart - Hour <= notes[k][i].at
                     /\ notes[k][i].at < st[k].hourStart}

\* The ceiling holds for both of them.
CeilingHolds ==
  \A k \in Keys : /\ Cardinality(HourOnsets(k)) <= MaxPerHour
                  /\ Cardinality(OlderOnsets(k)) <= MaxPerHour

\* A breach in progress began after the last one was reported as resolved.
Ended(k) ==
  streak[k] # Zero => \A i \in Resolutions(k) : notes[k][i].at <= streak[k]

\* The agents are those sampled in this round, which the snapshot holds, and
\* those still to come.
Sampled ==
  /\ todo \in Seq(MonitorAgents)
  /\ MonitorAgents = DOMAIN snapshot \cup {todo[i] : i \in 1 .. Len(todo)}
  /\ DOMAIN snapshot \subseteq DOMAIN reading

\* Attempts to notify: none is later than now, the last message was one, and an
\* hour in which messages were counted holds the last of them.
Tried(k) ==
  /\ tried[k] <= now
  /\ st[k].lastNotified <= tried[k]
  /\ st[k].sentThisHour > 0 =>
       st[k].lastNotified # Zero /\ st[k].lastNotified >= st[k].hourStart

\* A breach of key k is young, or support was told, or nearly so, not long ago.
Hushed(k) ==
  streak[k] # Zero =>
    \/ k[1] = Lag /\ now - streak[k] < SustainFor
    \/ /\ tried[k] # Zero
       /\ now - tried[k] < Cooldown \/ now - tried[k] < Hour

\* So it is with every key the current sample has observed.
SoFar ==
  MaxPerHour > 0 =>
    \A a \in DOMAIN snapshot : \A k \in ObservedKeys(a, reading[a]) : Hushed(k)

-----------------------------------------------------------------------------
(***************************************************************************)
(* One call of Observe.                                                    *)
(***************************************************************************)

\* The hour and its count: kept, or begun anew at a time no message was sent,
\* at the first observation or an hour after it began.
HourKept(s, start, sent) ==
  \/ start = s.hourStart /\ sent = s.sentThisHour
  \/ /\ start = now /\ sent = 0 /\ s.lastNotified < now
     /\ s.lastNotified = Zero \/ now - s.hourStart >= Hour

\* Observe sent nothing.
Silent(s, t) ==
  t.lastNotified = s.lastNotified /\ HourKept(s, t.hourStart, t.sentThisHour)

\* Observe sent a message.
Spoken(s, t) ==
  /\ t.lastNotified = now
  /\ HourKept(s, t.hourStart, t.sentThisHour - 1)
  /\ t.hourStart <= now => now < t.hourStart + Hour

\* A message about a condition that holds passed the cooldown and the ceiling.
Allowed(s, t) ==
  /\ s.lastNotified # Zero => now - s.lastNotified >= Cooldown
  /\ t.sentThisHour - 1 < MaxPerHour

\* The state Observe leaves for key k when r holds and the notifier fails for
\* the keys in failed.
Seen(k, r, failed) ==
  Observed(st[k], k[1] \in r, k[1] = Lag, k \notin failed)

\* The clock of a sample is a positive natural number.
LEMMA ClockType == TypeOK => now \in Nat /\ now >= 1
  BY MonitorAssumption DEF TypeOK

\* The fields of an anomalyState.
LEMMA Fields ==
  ASSUME NEW s \in AnomalyState
  PROVE  /\ s.active \in BOOLEAN /\ s.breachedAt \in Nat /\ s.lastNotified \in Nat
         /\ s.sentThisHour \in Nat /\ s.hourStart \in Nat
  BY Zenon DEF AnomalyState

\* Detector.send: the state stays well typed, and a message is sent only when
\* it is forced or passes the cooldown and the ceiling.
LEMMA SendOutcome ==
  ASSUME now \in Nat, NEW s \in AnomalyState, NEW force, NEW ok,
         s.lastNotified < s.hourStart + Hour
  PROVE  /\ Send(s, force, ok) \in AnomalyState
         /\ Send(s, force, ok).breachedAt = s.breachedAt
         /\ Send(s, force, ok).active = s.active
         /\ \/ Silent(s, Send(s, force, ok))
            \/ /\ Spoken(s, Send(s, force, ok))
               /\ force \/ Allowed(s, Send(s, force, ok))
  <1> DEFINE h == RollHour(s)
             u == [h EXCEPT !.lastNotified = now, !.sentThisHour = @ + 1]
  <1>0. Hour \in Nat /\ Hour >= 1 /\ Cooldown \in Nat /\ MaxPerHour \in Nat
    BY DetectorAssumption
  <1>1. /\ h \in AnomalyState /\ h.active = s.active
        /\ h.breachedAt = s.breachedAt /\ h.lastNotified = s.lastNotified
        /\ HourKept(s, h.hourStart, h.sentThisHour)
        /\ h.hourStart <= now => now < h.hourStart + Hour
    <2>1. CASE now - s.hourStart >= Hour
      <3>1. h = [s EXCEPT !.hourStart = now, !.sentThisHour = 0]
        BY <2>1 DEF RollHour
      <3>0. 0 \in Nat
        OBVIOUS
      <3>2. /\ h \in AnomalyState /\ h.active = s.active
            /\ h.breachedAt = s.breachedAt /\ h.lastNotified = s.lastNotified
            /\ h.hourStart = now /\ h.sentThisHour = 0
        BY <3>0, <3>1, Zenon DEF AnomalyState
      <3>3. s.lastNotified < now /\ now < now + Hour
        BY <1>0, <2>1, Fields
      <3> QED
        BY <2>1, <3>2, <3>3 DEF HourKept
    <2>2. CASE ~(now - s.hourStart >= Hour)
      <3>1. h = s
        BY <2>2 DEF RollHour
      <3>2. now < s.hourStart + Hour
        BY <1>0, <2>2, Fields
      <3> QED
        BY <3>1, <3>2 DEF HourKept
    <2> QED
      BY <2>1, <2>2
  <1> HIDE DEF h
  <1>2. /\ u \in AnomalyState /\ u.breachedAt = s.breachedAt
        /\ u.active = s.active /\ u.lastNotified = now
        /\ u.hourStart = h.hourStart /\ u.sentThisHour - 1 = h.sentThisHour
    <2>1. h.sentThisHour \in Nat /\ h.sentThisHour + 1 \in Nat
      BY <1>1, Fields
    <2>2. u = [h EXCEPT !.lastNotified = now, !.sentThisHour = h.sentThisHour + 1]
      OBVIOUS
    <2>3. /\ u \in AnomalyState /\ u.breachedAt = s.breachedAt
          /\ u.active = s.active /\ u.lastNotified = now
          /\ u.hourStart = h.hourStart /\ u.sentThisHour = h.sentThisHour + 1
      BY <1>1, <2>1, <2>2, Zenon DEF AnomalyState
    <2> QED
      BY <2>1, <2>3
  <1> HIDE DEF u
  <1>3. Silent(s, h)
    BY <1>1 DEF Silent
  <1>4. Spoken(s, u)
    BY <1>1, <1>2 DEF Spoken
  <1>5. ~Suppressed(h) => Allowed(s, u)
    BY <1>0, <1>1, <1>2, Fields DEF Suppressed, Allowed
  <1>6. Send(s, force, ok) = h \/ (Send(s, force, ok) = u /\ (force \/ ~Suppressed(h)))
    BY DEF Send, h, u
  <1> QED
    BY <1>1, <1>2, <1>3, <1>4, <1>5, <1>6

\* Detector.Observe for one key: what becomes of the breach, and what a message
\* sent says of the state before.
LEMMA ObserveOutcome ==
  ASSUME TypeOK, NEW k \in Keys, NEW r, NEW failed, Remembers(k),
         NEW t, t = Seen(k, r, failed)
  PROVE  /\ t \in AnomalyState
         /\ t.breachedAt = IF k[1] \notin r THEN Zero
                           ELSE IF streak[k] = Zero THEN now ELSE streak[k]
         /\ k[1] \notin r => ~t.active
         /\ \/ Silent(st[k], t)
            \/ /\ Spoken(st[k], t)
               /\ k[1] \in r => Allowed(st[k], t)
               /\ k[1] \in r /\ k[1] = Lag => now - t.breachedAt >= SustainFor
               /\ k[1] \notin r => st[k].active
  <1>0. /\ st[k] \in AnomalyState /\ now \in Nat /\ now >= 1 /\ streak[k] \in Nat
        /\ Hour \in Nat /\ Hour >= 1
    BY ClockType, DetectorAssumption DEF TypeOK
  <1> DEFINE s == Known(st[k])
  <1>1. /\ s \in AnomalyState /\ s.active = st[k].active
        /\ s.breachedAt = streak[k] /\ s.lastNotified = st[k].lastNotified
        /\ HourKept(st[k], s.hourStart, s.sentThisHour)
        /\ s.lastNotified < s.hourStart + Hour
    <2>1. CASE st[k] = Unknown
      <3>1. /\ st[k].lastNotified = 0 /\ st[k].sentThisHour = 0
            /\ s = [st[k] EXCEPT !.hourStart = now]
        BY <2>1 DEF Known, Unknown, Zero
      <3>2. /\ s \in AnomalyState /\ s.active = st[k].active
            /\ s.breachedAt = st[k].breachedAt
            /\ s.lastNotified = st[k].lastNotified
            /\ s.sentThisHour = st[k].sentThisHour /\ s.hourStart = now
        BY <1>0, <3>1, Zenon DEF AnomalyState
      <3> QED
        BY <1>0, <3>1, <3>2 DEF HourKept, Remembers, Zero
    <2>2. CASE st[k] # Unknown
      BY <1>0, <2>2 DEF Known, HourKept, Remembers
    <2> QED
      BY <2>1, <2>2
  <1> HIDE DEF s
  <1>2. CASE k[1] \notin r
    <2> DEFINE c == [s EXCEPT !.breachedAt = Zero]
               a == [c EXCEPT !.active = FALSE]
    <2>1. /\ c \in AnomalyState /\ c.active = s.active /\ c.breachedAt = Zero
          /\ c.lastNotified = s.lastNotified
          /\ c.sentThisHour = s.sentThisHour /\ c.hourStart = s.hourStart
      <3>1. Zero \in Nat
        BY DEF Zero
      <3> QED
        BY <1>1, <3>1, Zenon DEF AnomalyState
    <2> HIDE DEF c
    <2>2. /\ a \in AnomalyState /\ a.active = FALSE /\ a.breachedAt = Zero
          /\ a.lastNotified = s.lastNotified
          /\ a.sentThisHour = s.sentThisHour /\ a.hourStart = s.hourStart
      BY <1>0, <2>1, Zenon DEF AnomalyState
    <2> HIDE DEF a
    <2>3. t = IF s.active THEN Send(a, TRUE, k \notin failed) ELSE c
      BY <1>2 DEF Seen, Observed, Cleared, s, c, a
    <2>4. CASE s.active
      <3>1. /\ t \in AnomalyState /\ t.breachedAt = Zero /\ t.active = FALSE
            /\ Silent(a, t) \/ Spoken(a, t)
        <4>1. PICK ok : t = Send(a, TRUE, ok)
          BY <2>3, <2>4, Zenon
        <4>2. a.lastNotified < a.hourStart + Hour
          BY <1>1, <2>2
        <4>3. /\ Send(a, TRUE, ok) \in AnomalyState
              /\ Send(a, TRUE, ok).breachedAt = a.breachedAt
              /\ Send(a, TRUE, ok).active = a.active
              /\ \/ Silent(a, Send(a, TRUE, ok))
                 \/ /\ Spoken(a, Send(a, TRUE, ok))
                    /\ TRUE \/ Allowed(a, Send(a, TRUE, ok))
          BY <1>0, <2>2, <4>2, SendOutcome
        <4> QED
          BY <2>2, <4>1, <4>3
      <3>2. Silent(st[k], t) \/ Spoken(st[k], t)
        BY <1>1, <2>2, <3>1 DEF Silent, Spoken, HourKept
      <3> QED
        BY <1>1, <1>2, <2>4, <3>1, <3>2
    <2>5. CASE ~s.active
      <3>1. Silent(st[k], t)
        BY <1>1, <2>1, <2>3, <2>5 DEF Silent
      <3> QED
        BY <1>2, <2>1, <2>3, <2>5, <3>1
    <2> QED
      BY <2>4, <2>5
  <1>3. CASE k[1] \in r
    <2> DEFINE at == IF s.breachedAt = Zero THEN now ELSE s.breachedAt
               b == [s EXCEPT !.breachedAt = at]
               a == [b EXCEPT !.active = TRUE]
    <2>0. at \in Nat /\ at = IF streak[k] = Zero THEN now ELSE streak[k]
      BY <1>0, <1>1
    <2> HIDE DEF at
    <2>1. /\ b \in AnomalyState /\ b.active = s.active /\ b.breachedAt = at
          /\ b.lastNotified = s.lastNotified
          /\ b.sentThisHour = s.sentThisHour /\ b.hourStart = s.hourStart
      BY <1>1, <2>0, Zenon DEF AnomalyState
    <2> HIDE DEF b
    <2>2. /\ a \in AnomalyState /\ a.breachedAt = at
          /\ a.lastNotified = s.lastNotified
          /\ a.sentThisHour = s.sentThisHour /\ a.hourStart = s.hourStart
      BY <1>0, <2>1, Zenon DEF AnomalyState
    <2> HIDE DEF a
    <2>3. t = IF k[1] = Lag /\ now - b.breachedAt < SustainFor THEN b
              ELSE Send(a, FALSE, k \notin failed)
      BY <1>3 DEF Seen, Observed, Breached, s, a, b, at
    <2>4. CASE k[1] = Lag /\ now - b.breachedAt < SustainFor
      <3>1. Silent(st[k], t)
        BY <1>1, <2>1, <2>3, <2>4 DEF Silent
      <3> QED
        BY <1>3, <2>0, <2>1, <2>3, <2>4, <3>1
    <2>5. CASE ~(k[1] = Lag /\ now - b.breachedAt < SustainFor)
      <3>1. /\ t \in AnomalyState /\ t.breachedAt = at
            /\ Silent(a, t) \/ (Spoken(a, t) /\ Allowed(a, t))
        <4>1. PICK ok : t = Send(a, FALSE, ok)
          BY <2>3, <2>5, Zenon
        <4>2. a.lastNotified < a.hourStart + Hour
          BY <1>1, <2>2
        <4>3. /\ Send(a, FALSE, ok) \in AnomalyState
              /\ Send(a, FALSE, ok).breachedAt = a.breachedAt
              /\ Send(a, FALSE, ok).active = a.active
              /\ \/ Silent(a, Send(a, FALSE, ok))
                 \/ /\ Spoken(a, Send(a, FALSE, ok))
                    /\ FALSE \/ Allowed(a, Send(a, FALSE, ok))
          BY <1>0, <2>2, <4>2, SendOutcome
        <4> QED
          BY <2>2, <4>1, <4>3
      <3>2. Silent(st[k], t) \/ (Spoken(st[k], t) /\ Allowed(st[k], t))
        BY <1>1, <2>2, <3>1 DEF Silent, Spoken, Allowed, HourKept
      <3>3. k[1] = Lag => now - t.breachedAt >= SustainFor
        BY <1>0, <2>0, <2>1, <2>5, <3>1, DetectorAssumption
      <3> QED
        BY <1>3, <2>0, <3>1, <3>2, <3>3
    <2> QED
      BY <2>4, <2>5
  <1> QED
    BY <1>2, <1>3

-----------------------------------------------------------------------------
(***************************************************************************)
(* One step of the monitor, for one key.                                   *)
(***************************************************************************)

\* Message m was sent about key k.
Tells(k, m) ==
  /\ notes'[k] = Append(notes[k], m)
  /\ m.at = now
  /\ Spoken(st[k], st'[k])
  /\ m.kind = "onset" =>
       /\ Allowed(st[k], st'[k]) /\ m.since = streak'[k]
       /\ k[1] = Lag => now - m.since >= SustainFor
  /\ m.kind = "resolved" =>
       st[k].active /\ m.since = streak[k] /\ streak'[k] = Zero

\* What a sample can do to key k, whether it observes the key or not: a breach
\* begins, goes on or ends, and at most one message is sent.
Heard(k) ==
  /\ st'[k] \in AnomalyState
  /\ st'[k].breachedAt = streak'[k]
  /\ streak'[k] \in {Zero, IF streak[k] = Zero THEN now ELSE streak[k]}
  /\ st'[k].active => streak'[k] # Zero
  /\ \/ Silent(st[k], st'[k]) /\ notes'[k] = notes[k]
     \/ \E m \in Note : Tells(k, m)

\* Observe and the history of messages go together: Told is a message sent.
LEMMA ObserveHeard ==
  ASSUME TypeOK, NEW ks, NEW r, NEW failed, Observe(ks, r, failed),
         NEW k \in Keys, Remembers(k)
  PROVE  Heard(k)
  <1>0. /\ st[k] \in AnomalyState /\ now \in Nat /\ now >= 1 /\ streak[k] \in Nat
        /\ Hour \in Nat /\ Hour >= 1 /\ notes[k] \in Seq(Note)
    BY ClockType, DetectorAssumption DEF TypeOK, Note
  <1> DEFINE since == IF k[1] \in r THEN streak'[k] ELSE streak[k]
             m == [kind |-> IF k[1] \in r THEN "onset" ELSE "resolved",
                   at |-> now, since |-> since]
  <1>1. notes'[k] = IF Told(st[k], st'[k]) THEN Append(notes[k], m) ELSE notes[k]
    BY DEF Observe, NotesAfter
  <1>2. Silent(st[k], st'[k]) => ~Told(st[k], st'[k])
    BY <1>0, Fields DEF Silent, HourKept, Told
  <1>3. Spoken(st[k], st'[k]) => Told(st[k], st'[k])
    <2>1. st[k].lastNotified \in Nat /\ st[k].sentThisHour \in Nat
      BY <1>0, Fields
    <2>2. st'[k].sentThisHour - 1 = st[k].sentThisHour /\ st'[k] \in AnomalyState
            => st'[k].sentThisHour > st[k].sentThisHour
      BY <2>1, Fields
    <2>3. st'[k] \in AnomalyState
      BY ObserveOutcome, <1>0 DEF Observe, Seen
    <2> QED
      BY <1>0, <2>1, <2>2, <2>3 DEF Spoken, HourKept, Told
  <1>4. CASE k \notin ks
    <2>1. st'[k] = st[k] /\ streak'[k] = streak[k]
      BY <1>4 DEF Observe
    <2>2. Silent(st[k], st'[k])
      BY <2>1 DEF Silent, HourKept
    <2>3. notes'[k] = notes[k]
      BY <1>1, <1>2, <2>2
    <2>4. st[k].active => streak[k] # Zero
      BY DEF Remembers
    <2> QED
      BY <1>0, <2>1, <2>2, <2>3, <2>4 DEF Heard, Remembers
  <1>5. CASE k \in ks
    <2>1. /\ st'[k] = Seen(k, r, failed)
          /\ streak'[k] = IF k[1] \notin r THEN Zero
                          ELSE IF streak[k] = Zero THEN now ELSE streak[k]
      BY <1>5 DEF Observe, Seen
    <2>2. /\ st'[k] \in AnomalyState
          /\ st'[k].breachedAt = streak'[k]
          /\ k[1] \notin r => ~st'[k].active
          /\ \/ Silent(st[k], st'[k])
             \/ /\ Spoken(st[k], st'[k])
                /\ k[1] \in r => Allowed(st[k], st'[k])
                /\ k[1] \in r /\ k[1] = Lag => now - streak'[k] >= SustainFor
                /\ k[1] \notin r => st[k].active
      BY <2>1, ObserveOutcome
    <2>3. streak'[k] \in Nat /\ (k[1] \in r => streak'[k] # Zero)
      BY <1>0, <2>1 DEF Zero
    <2>4. st'[k].active => streak'[k] # Zero
      BY <2>2, <2>3
    <2>5. streak'[k] \in {Zero, IF streak[k] = Zero THEN now ELSE streak[k]}
      BY <2>1
    <2>6. CASE Silent(st[k], st'[k])
      BY <1>1, <1>2, <2>2, <2>4, <2>5, <2>6 DEF Heard
    <2>7. CASE Spoken(st[k], st'[k]) /\ ~Silent(st[k], st'[k])
      <3>1. notes'[k] = Append(notes[k], m)
        BY <1>1, <1>3, <2>7
      <3>2. /\ m \in Note /\ m.at = now /\ m.since = since
            /\ m.kind = IF k[1] \in r THEN "onset" ELSE "resolved"
        BY <1>0, <2>3 DEF Note
      <3> HIDE DEF m
      <3>3. m.kind = "onset" => k[1] \in r /\ m.since = streak'[k]
        BY <3>2
      <3>4. m.kind = "resolved" => k[1] \notin r /\ m.since = streak[k]
        BY <3>2
      <3>5. k[1] \notin r => streak'[k] = Zero
        BY <2>1
      <3>6. Tells(k, m)
        BY <2>2, <2>7, <3>1, <3>2, <3>3, <3>4, <3>5 DEF Tells
      <3> QED
        BY <2>2, <2>4, <2>5, <3>2, <3>6 DEF Heard
    <2> QED
      BY <2>2, <2>6, <2>7
  <1> QED
    BY <1>4, <1>5

\* The messages about a key, one by one.
LEMMA NoteFields ==
  ASSUME NEW n \in Seq(Note)
  PROVE  /\ Len(n) \in Nat /\ DOMAIN n = 1 .. Len(n)
         /\ \A i \in 1 .. Len(n) :
              /\ n[i] \in Note /\ n[i].at \in Nat /\ n[i].since \in Nat
              /\ n[i].kind \in {"onset", "resolved"}
  <1>1. /\ Len(n) \in Nat /\ DOMAIN n = 1 .. Len(n)
        /\ \A i \in 1 .. Len(n) : n[i] \in Note
    OBVIOUS
  <1>2. \A m \in Note : /\ m.at \in Nat /\ m.since \in Nat
                        /\ m.kind \in {"onset", "resolved"}
    BY DEF Note
  <1> QED
    BY <1>1, <1>2

\* Appending a message keeps the ones before it.
LEMMA Appended ==
  ASSUME NEW n \in Seq(Note), NEW m \in Note, NEW u, u = Append(n, m)
  PROVE  /\ u \in Seq(Note) /\ Len(n) \in Nat /\ u # <<>>
         /\ DOMAIN n = 1 .. Len(n) /\ DOMAIN u = 1 .. Len(n) + 1
         /\ Len(u) = Len(n) + 1 /\ u[Len(n) + 1] = m
         /\ \A i \in 1 .. Len(n) : u[i] = n[i]
  OBVIOUS

\* A sample keeps what the detector remembers of key k in step with support.
LEMMA HeardRemembers ==
  ASSUME TypeOK, UNCHANGED now, NEW k \in Keys, Remembers(k), Heard(k)
  PROVE  Remembers(k)'
  <1>0. /\ st[k] \in AnomalyState /\ st'[k] \in AnomalyState
        /\ now \in Nat /\ now >= 1 /\ streak[k] \in Nat
        /\ Hour \in Nat /\ Hour >= 1 /\ notes[k] \in Seq(Note)
    BY ClockType, DetectorAssumption DEF TypeOK, Note, Heard
  <1>1. /\ st'[k].breachedAt = streak'[k] /\ streak'[k] <= now
        /\ st'[k].active => streak'[k] # Zero
    BY <1>0 DEF Heard, Remembers, Zero
  <1>2. /\ st'[k].lastNotified <= now /\ st'[k].hourStart <= now
        /\ st'[k].lastNotified < st'[k].hourStart + Hour
    <2>1. CASE Silent(st[k], st'[k])
      BY <1>0, <2>1, Fields DEF Silent, HourKept, Remembers
    <2>2. CASE Spoken(st[k], st'[k])
      <3>1. st[k].hourStart <= now
        BY DEF Remembers
      <3>2. st'[k].hourStart <= now
        BY <1>0, <2>2, <3>1 DEF Spoken, HourKept
      <3> QED
        BY <1>0, <2>2, <3>2, Fields DEF Spoken
    <2> QED
      BY <2>1, <2>2 DEF Heard, Tells
  <1>3. /\ notes'[k] # <<>> => notes'[k][Len(notes'[k])].at = st'[k].lastNotified
        /\ \A i \in DOMAIN notes'[k] :
             1 <= notes'[k][i].at /\ notes'[k][i].at <= st'[k].lastNotified
    <2>1. CASE Silent(st[k], st'[k]) /\ notes'[k] = notes[k]
      BY <2>1 DEF Silent, Remembers
    <2>2. ASSUME NEW m \in Note, Tells(k, m)
          PROVE  /\ notes'[k][Len(notes'[k])].at = st'[k].lastNotified
                 /\ \A i \in DOMAIN notes'[k] :
                      /\ 1 <= notes'[k][i].at
                      /\ notes'[k][i].at <= st'[k].lastNotified
      <3>1. /\ notes'[k] = Append(notes[k], m) /\ m.at = now
            /\ st'[k].lastNotified = now
        BY <2>2 DEF Tells, Spoken
      <3>2. \A i \in 1 .. Len(notes[k]) :
              1 <= notes[k][i].at /\ notes[k][i].at <= now
        <4>1. \A i \in 1 .. Len(notes[k]) : notes[k][i].at \in Nat
          BY <1>0, NoteFields
        <4> QED
          BY <1>0, <4>1, Fields DEF Remembers
      <3> QED
        BY <1>0, <3>1, <3>2, Appended
    <2> QED
      BY <2>1, <2>2 DEF Heard
  <1> QED
    BY <1>1, <1>2, <1>3 DEF Remembers

\* Messages of an hour that began at h are finitely many.
LEMMA MessagesFinite ==
  ASSUME NEW n \in Seq(Note), NEW h
  PROVE  IsFiniteSet({i \in DOMAIN n : n[i].at >= h})
  <1>1. IsFiniteSet(1 .. Len(n))
    BY NoteFields, FS_Interval
  <1>2. {i \in DOMAIN n : n[i].at >= h} \subseteq 1 .. Len(n)
    BY NoteFields
  <1> QED
    BY <1>1, <1>2, FS_Subset

\* A sample keeps sentThisHour at least at the number of messages of the hour.
LEMMA HeardCounted ==
  ASSUME TypeOK, UNCHANGED now, NEW k \in Keys, Remembers(k), Heard(k),
         Counted(k)
  PROVE  Counted(k)'
  <1>0. /\ st[k] \in AnomalyState /\ st'[k] \in AnomalyState
        /\ now \in Nat /\ now >= 1 /\ notes[k] \in Seq(Note)
    BY ClockType DEF TypeOK, Note, Heard
  <1> DEFINE L == Len(notes[k])
             Old == {i \in 1 .. L : notes[k][i].at >= st'[k].hourStart}
  <1>1. /\ DOMAIN notes[k] = 1 .. L /\ L \in Nat
        /\ \A i \in 1 .. L : notes[k][i].at \in Nat
    BY <1>0, NoteFields
  <1>2. ASSUME NEW sent, HourKept(st[k], st'[k].hourStart, sent)
        PROVE  IsFiniteSet(Old) /\ Cardinality(Old) <= sent
    <2>1. CASE st'[k].hourStart = st[k].hourStart /\ sent = st[k].sentThisHour
      <3>1. Old = ThisHour(k)
        BY <1>1, <2>1 DEF ThisHour
      <3> HIDE DEF Old
      <3>2. IsFiniteSet(Old)
        BY <1>0, <3>1, MessagesFinite DEF ThisHour
      <3> QED
        BY <2>1, <3>1, <3>2 DEF Counted
    <2>2. CASE st'[k].hourStart = now /\ sent = 0 /\ st[k].lastNotified < now
      <3>1. Old = {}
        BY <1>0, <1>1, <2>2, Fields DEF Remembers
      <3> HIDE DEF Old
      <3>2. IsFiniteSet(Old) /\ Cardinality(Old) = 0
        BY <3>1, FS_EmptySet
      <3> QED
        BY <2>2, <3>2
    <2> QED
      BY <1>2, <2>1, <2>2 DEF HourKept
  <1>3. CASE Silent(st[k], st'[k]) /\ notes'[k] = notes[k]
    <2>1. ThisHour(k)' = Old
      BY <1>1, <1>3 DEF ThisHour
    <2> QED
      BY <1>2, <1>3, <2>1 DEF Silent, Counted
  <1>4. ASSUME NEW m \in Note, Tells(k, m) PROVE Counted(k)'
    <2>1. DOMAIN notes'[k] = 1 .. L + 1 /\ \A i \in 1 .. L : notes'[k][i] = notes[k][i]
      BY <1>0, <1>4, Appended DEF Tells
    <2>2. IsFiniteSet(Old) /\ Cardinality(Old) <= st'[k].sentThisHour - 1
      BY <1>2, <1>4 DEF Tells, Spoken
    <2>3. ThisHour(k)' \subseteq Old \cup {L + 1}
      BY <1>1, <2>1 DEF ThisHour
    <2> HIDE DEF L, Old
    <2>4. /\ IsFiniteSet(Old \cup {L + 1})
          /\ Cardinality(Old \cup {L + 1}) <= Cardinality(Old) + 1
          /\ Cardinality(Old) \in Nat
      <3>1. Cardinality(Old) \in Nat
        BY <2>2, FS_CardinalityType
      <3>2. /\ IsFiniteSet(Old \cup {L + 1})
            /\ \/ Cardinality(Old \cup {L + 1}) = Cardinality(Old)
               \/ Cardinality(Old \cup {L + 1}) = Cardinality(Old) + 1
        BY <2>2, FS_AddElement
      <3> QED
        BY <3>1, <3>2
    <2>5. /\ Cardinality(ThisHour(k)') <= Cardinality(Old \cup {L + 1})
          /\ Cardinality(ThisHour(k)') \in Nat
          /\ Cardinality(Old \cup {L + 1}) \in Nat
      BY <2>3, <2>4, FS_Subset, FS_CardinalityType
    <2>6. st'[k].sentThisHour \in Nat
      BY <1>0, Fields
    <2> QED
      BY <2>2, <2>4, <2>5, <2>6 DEF Counted
  <1> QED
    BY <1>3, <1>4 DEF Heard

-----------------------------------------------------------------------------
(***************************************************************************)
(* One sample keeps each of the promises to support.                       *)
(***************************************************************************)
Agreed == \A k \in Keys : Remembers(k) /\ Counted(k) /\ Ended(k) /\ Tried(k)

Sample == UNCHANGED now /\ \A k \in Keys : Heard(k)

\* Detector.send's cooldown keeps an onset away from the message before it.
LEMMA SampleCooldown ==
  ASSUME TypeOK, Agreed, Sample, CooldownHolds PROVE CooldownHolds'
  <1> SUFFICES ASSUME NEW k \in Keys, NEW i \in Onsets(k)', i > 1
               PROVE  notes'[k][i].at - notes'[k][i - 1].at >= Cooldown
    BY DEF CooldownHolds
  <1>0. /\ notes[k] \in Seq(Note) /\ Heard(k) /\ Remembers(k)
        /\ now \in Nat /\ Cooldown \in Nat
    BY ClockType, DetectorAssumption DEF TypeOK, Note, Agreed, Sample
  <1> DEFINE L == Len(notes[k])
  <1>1. CASE notes'[k] = notes[k]
    <2>1. i \in Onsets(k)
      BY <1>1 DEF Onsets
    <2> QED
      BY <1>1, <2>1 DEF CooldownHolds
  <1>2. ASSUME NEW m \in Note, Tells(k, m)
        PROVE  notes'[k][i].at - notes'[k][i - 1].at >= Cooldown
    <2>1. /\ DOMAIN notes'[k] = 1 .. L + 1 /\ notes'[k][L + 1] = m
          /\ L \in Nat /\ DOMAIN notes[k] = 1 .. L
          /\ \A j \in 1 .. L : notes'[k][j] = notes[k][j] /\ notes[k][j].at \in Nat
      BY <1>0, <1>2, Appended, NoteFields DEF Tells
    <2>2. i \in 1 .. L + 1 /\ notes'[k][i].kind = "onset"
      BY <2>1 DEF Onsets
    <2> HIDE DEF L
    <2>3. CASE i <= L
      <3>1. i \in 1 .. L /\ i - 1 \in 1 .. L
        BY <2>1, <2>2, <2>3
      <3>2. i \in Onsets(k)
        BY <2>1, <2>2, <3>1 DEF Onsets
      <3> QED
        BY <2>1, <3>1, <3>2 DEF CooldownHolds
    <2>4. CASE i = L + 1
      <3>1. L \in 1 .. L /\ L >= 1 /\ i - 1 = L
        BY <2>1, <2>4
      <3>2. m.kind = "onset" /\ m.at = now /\ Allowed(st[k], st'[k])
        BY <1>2, <2>1, <2>2, <2>4 DEF Tells
      <3>3. notes[k][L].at = st[k].lastNotified /\ notes[k][L].at >= 1
        <4>1. notes[k] # <<>>
          BY <3>1 DEF L
        <4> QED
          BY <1>0, <2>1, <3>1, <4>1 DEF Remembers, L
      <3>4. now - notes[k][L].at >= Cooldown
        BY <2>1, <3>1, <3>2, <3>3 DEF Allowed, Zero
      <3> QED
        BY <2>1, <2>4, <3>1, <3>2, <3>4
    <2> QED
      BY <2>1, <2>2, <2>3, <2>4
  <1> QED
    BY <1>0, <1>1, <1>2 DEF Heard

\* Detector.Observe's sustain window: an onset of lag comes late enough.
LEMMA SampleSustain ==
  ASSUME TypeOK, Sample, SustainHolds PROVE SustainHolds'
  <1> SUFFICES ASSUME NEW k \in Keys, NEW i \in Onsets(k)', k[1] = Lag
               PROVE  notes'[k][i].at - notes'[k][i].since >= SustainFor
    BY DEF SustainHolds
  <1>0. notes[k] \in Seq(Note) /\ Heard(k)
    BY DEF TypeOK, Note, Sample
  <1>1. CASE notes'[k] = notes[k]
    BY <1>1 DEF Onsets, SustainHolds
  <1>2. ASSUME NEW m \in Note, Tells(k, m)
        PROVE  notes'[k][i].at - notes'[k][i].since >= SustainFor
    <2> DEFINE L == Len(notes[k])
    <2>1. /\ DOMAIN notes'[k] = 1 .. L + 1 /\ notes'[k][L + 1] = m
          /\ L \in Nat /\ DOMAIN notes[k] = 1 .. L
          /\ \A j \in 1 .. L : notes'[k][j] = notes[k][j]
      BY <1>0, <1>2, Appended DEF Tells
    <2>2. i \in 1 .. L + 1 /\ notes'[k][i].kind = "onset"
      BY <2>1 DEF Onsets
    <2> HIDE DEF L
    <2>3. CASE i \in 1 .. L
      BY <2>1, <2>2, <2>3 DEF Onsets, SustainHolds
    <2>4. CASE i = L + 1
      BY <1>2, <2>1, <2>2, <2>4 DEF Tells
    <2> QED
      BY <2>1, <2>2, <2>3, <2>4
  <1> QED
    BY <1>0, <1>1, <1>2 DEF Heard

\* Onsets are finitely many.
LEMMA OnsetsFinite ==
  ASSUME TypeOK, NEW k \in Keys
  PROVE  IsFiniteSet(Onsets(k)) /\ \A S \in SUBSET Onsets(k) : IsFiniteSet(S)
  <1>1. notes[k] \in Seq(Note)
    BY DEF TypeOK, Note
  <1>2. IsFiniteSet(1 .. Len(notes[k]))
    BY <1>1, NoteFields, FS_Interval
  <1>3. Onsets(k) \subseteq 1 .. Len(notes[k])
    BY <1>1, NoteFields DEF Onsets
  <1>4. IsFiniteSet(Onsets(k))
    BY <1>2, <1>3, FS_Subset
  <1> QED
    BY <1>4, FS_Subset

\* Detector.send's ceiling: of the messages it counts, the onsets are bounded.
LEMMA SampleCeiling ==
  ASSUME TypeOK, TypeOK', Agreed, Sample, CeilingHolds, NEW k \in Keys,
         Counted(k)'
  PROVE  Cardinality(HourOnsets(k)') <= MaxPerHour
  <1>0. /\ notes[k] \in Seq(Note) /\ Heard(k) /\ Remembers(k)
        /\ st[k] \in AnomalyState /\ st'[k] \in AnomalyState
        /\ now \in Nat /\ MaxPerHour \in Nat
    BY ClockType, DetectorAssumption DEF TypeOK, Note, Agreed, Sample, Heard
  <1> DEFINE L == Len(notes[k])
             Old == {i \in Onsets(k) : notes[k][i].at >= st[k].hourStart}
             New == {i \in Onsets(k)' : notes'[k][i].at >= st'[k].hourStart}
  <1>1. /\ L \in Nat /\ DOMAIN notes[k] = 1 .. L
        /\ \A j \in 1 .. L : notes[k][j].at \in Nat
    BY <1>0, NoteFields
  <1>2. Cardinality(Old) <= MaxPerHour
    BY DEF CeilingHolds, HourOnsets
  <1>3. New = {} => Cardinality(New) <= MaxPerHour
    <2>1. Cardinality({}) = 0 /\ 0 <= MaxPerHour
      BY <1>0, FS_EmptySet
    <2> QED
      BY <2>1
  <1>4. New = Old => Cardinality(New) <= MaxPerHour
    BY <1>2
  <1>5. ASSUME NEW sent, HourKept(st[k], st'[k].hourStart, sent),
               Onsets(k)' = Onsets(k),
               \A i \in Onsets(k) : notes'[k][i] = notes[k][i]
        PROVE  New = {} \/ New = Old
    <2>1. CASE st'[k].hourStart = st[k].hourStart
      BY <1>5, <2>1
    <2>2. CASE st'[k].hourStart = now /\ st[k].lastNotified < now
      <3>1. \A i \in Onsets(k) : i \in 1 .. L
        BY <1>1 DEF Onsets
      <3> QED
        BY <1>0, <1>1, <1>5, <2>2, <3>1, Fields DEF Remembers
    <2> QED
      BY <1>5, <2>1, <2>2 DEF HourKept
  <1>6. ASSUME Silent(st[k], st'[k]), notes'[k] = notes[k]
        PROVE  Cardinality(New) <= MaxPerHour
    <2>1. Onsets(k)' = Onsets(k)
      BY <1>6 DEF Onsets
    <2>2. New = {} \/ New = Old
      BY <1>5, <1>6, <2>1 DEF Silent
    <2> QED
      BY <1>3, <1>4, <2>2
  <1>7. ASSUME NEW m \in Note, Tells(k, m) PROVE Cardinality(New) <= MaxPerHour
    <2>1. /\ DOMAIN notes'[k] = 1 .. L + 1 /\ notes'[k][L + 1] = m
          /\ \A j \in 1 .. L : notes'[k][j] = notes[k][j]
      BY <1>0, <1>7, Appended DEF Tells
    <2>2. CASE m.kind = "onset"
      <3>1. New \in SUBSET (ThisHour(k)')
        BY DEF Onsets, ThisHour
      <3>2. IsFiniteSet(ThisHour(k)')
        <4>1. notes'[k] \in Seq(Note)
          BY DEF TypeOK, Note
        <4> QED
          BY <4>1, MessagesFinite DEF ThisHour
      <3>3. /\ Cardinality(New) <= Cardinality(ThisHour(k)')
            /\ Cardinality(New) \in Nat /\ Cardinality(ThisHour(k)') \in Nat
        BY <3>1, <3>2, FS_Subset, FS_CardinalityType
      <3>4. st'[k].sentThisHour \in Nat /\ st'[k].sentThisHour - 1 < MaxPerHour
        BY <1>0, <1>7, <2>2, Fields DEF Tells, Allowed
      <3> QED
        BY <1>0, <3>3, <3>4 DEF Counted
    <2>3. CASE m.kind # "onset"
      <3>1. Onsets(k)' = Onsets(k) /\ \A i \in Onsets(k) : notes'[k][i] = notes[k][i]
        BY <1>1, <2>1, <2>3 DEF Onsets
      <3>2. New = {} \/ New = Old
        BY <1>5, <1>7, <3>1 DEF Tells, Spoken
      <3> QED
        BY <1>3, <1>4, <3>2
    <2> QED
      BY <2>2, <2>3
  <1> QED
    BY <1>0, <1>6, <1>7 DEF Heard, HourOnsets

\* Detector.send's hour: when it rolls, the hour before it is the one that was
\* counted, or a later part of it.
LEMMA SampleOlder ==
  ASSUME TypeOK, TypeOK', Agreed, Sample, CeilingHolds, NEW k \in Keys
  PROVE  Cardinality(OlderOnsets(k)') <= MaxPerHour
  <1>0. /\ notes[k] \in Seq(Note) /\ Heard(k) /\ Remembers(k)
        /\ st[k] \in AnomalyState /\ st'[k] \in AnomalyState
        /\ now \in Nat /\ MaxPerHour \in Nat /\ Hour \in Nat
    BY ClockType, DetectorAssumption DEF TypeOK, Note, Agreed, Sample, Heard
  <1> DEFINE L == Len(notes[k])
  <1>1. /\ L \in Nat /\ DOMAIN notes[k] = 1 .. L
        /\ \A j \in 1 .. L : notes[k][j].at \in Nat
    BY <1>0, NoteFields
  <1>2. /\ st[k].hourStart \in Nat /\ st[k].lastNotified \in Nat
        /\ st'[k].hourStart \in Nat
        /\ st[k].hourStart <= now
        /\ \A i \in 1 .. L : 1 <= notes[k][i].at /\ notes[k][i].at <= st[k].lastNotified
    BY <1>0, <1>1, Fields DEF Remembers
  <1>3. /\ OlderOnsets(k)' \subseteq {i \in Onsets(k) : notes[k][i].at < st'[k].hourStart
                                       /\ st'[k].hourStart - Hour <= notes[k][i].at}
        /\ \E sent : HourKept(st[k], st'[k].hourStart, sent)
    <2>1. CASE Silent(st[k], st'[k]) /\ notes'[k] = notes[k]
      BY <2>1 DEF Silent, OlderOnsets, Onsets
    <2>2. ASSUME NEW m \in Note, Tells(k, m)
          PROVE  /\ OlderOnsets(k)' \subseteq
                      {i \in Onsets(k) : notes[k][i].at < st'[k].hourStart
                                         /\ st'[k].hourStart - Hour <= notes[k][i].at}
                 /\ \E sent : HourKept(st[k], st'[k].hourStart, sent)
      <3>1. \E sent : HourKept(st[k], st'[k].hourStart, sent)
        BY <2>2 DEF Tells, Spoken
      <3>2. st'[k].hourStart <= now /\ m.at = now
        BY <1>2, <2>2, <3>1 DEF HourKept, Tells
      <3>3. /\ DOMAIN notes'[k] = 1 .. L + 1 /\ notes'[k][L + 1] = m
            /\ \A j \in 1 .. L : notes'[k][j] = notes[k][j]
        BY <1>0, <2>2, Appended DEF Tells
      <3>4. ASSUME NEW i \in OlderOnsets(k)'
            PROVE  /\ i \in Onsets(k) /\ notes[k][i].at < st'[k].hourStart
                   /\ st'[k].hourStart - Hour <= notes[k][i].at
        <4>1. /\ i \in 1 .. L + 1 /\ notes'[k][i].at < st'[k].hourStart
              /\ st'[k].hourStart - Hour <= notes'[k][i].at
              /\ notes'[k][i].kind = "onset"
          BY <3>3, <3>4 DEF OlderOnsets, Onsets
        <4>2. i \in 1 .. L
          BY <1>0, <1>1, <1>2, <3>2, <3>3, <4>1
        <4> QED
          BY <1>1, <3>3, <4>1, <4>2 DEF Onsets
      <3> QED
        BY <3>1, <3>4
    <2> QED
      BY <1>0, <2>1, <2>2 DEF Heard
  <1>4. OlderOnsets(k)' \subseteq OlderOnsets(k) \/ OlderOnsets(k)' \subseteq HourOnsets(k)
    <2>1. PICK sent : HourKept(st[k], st'[k].hourStart, sent)
      BY <1>3
    <2>2. CASE st'[k].hourStart = st[k].hourStart
      BY <1>3, <2>2 DEF OlderOnsets
    <2>3. CASE /\ st'[k].hourStart = now /\ st[k].lastNotified < now
               /\ st[k].lastNotified = Zero \/ now - st[k].hourStart >= Hour
      <3>1. ASSUME NEW i \in OlderOnsets(k)' PROVE i \in HourOnsets(k)
        <4>1. /\ i \in Onsets(k) /\ i \in 1 .. L /\ now - Hour <= notes[k][i].at
          BY <1>1, <1>3, <2>3 DEF Onsets
        <4>2. st[k].lastNotified # Zero
          BY <1>1, <1>2, <4>1 DEF Zero
        <4>3. now - st[k].hourStart >= Hour
          BY <2>3, <4>2
        <4>4. notes[k][i].at >= st[k].hourStart
          BY <1>0, <1>1, <1>2, <4>1, <4>3
        <4> QED
          BY <4>1, <4>4 DEF HourOnsets
      <3> QED
        BY <3>1
    <2> QED
      BY <2>1, <2>2, <2>3 DEF HourKept
  <1>5. /\ IsFiniteSet(OlderOnsets(k)) /\ IsFiniteSet(HourOnsets(k))
        /\ IsFiniteSet(OlderOnsets(k)')
    <2>1. OlderOnsets(k) \in SUBSET Onsets(k) /\ HourOnsets(k) \in SUBSET Onsets(k)
      BY DEF OlderOnsets, HourOnsets
    <2>2. IsFiniteSet(OlderOnsets(k)) /\ IsFiniteSet(HourOnsets(k))
      BY <2>1, OnsetsFinite
    <2> QED
      BY <1>4, <2>2, FS_Subset
  <1>6. /\ Cardinality(OlderOnsets(k)') \in Nat
        /\ Cardinality(OlderOnsets(k)) \in Nat /\ Cardinality(HourOnsets(k)) \in Nat
        /\ \/ Cardinality(OlderOnsets(k)') <= Cardinality(OlderOnsets(k))
           \/ Cardinality(OlderOnsets(k)') <= Cardinality(HourOnsets(k))
    BY <1>4, <1>5, FS_Subset, FS_CardinalityType
  <1>7. /\ Cardinality(OlderOnsets(k)) <= MaxPerHour
        /\ Cardinality(HourOnsets(k)) <= MaxPerHour
    BY DEF CeilingHolds
  <1> QED
    BY <1>0, <1>6, <1>7

\* An hour that begins at a message and holds the newest one lies in the hour
\* being counted and the hour before it, where the ceiling holds twice.
LEMMA SampleTwice ==
  ASSUME TypeOK, TypeOK', Agreed, Agreed', Sample, CeilingHolds', TwiceTheCeiling
  PROVE  TwiceTheCeiling'
  <1> SUFFICES ASSUME NEW k \in Keys, NEW i \in Onsets(k)'
               PROVE  Cardinality(HourOf(k, notes[k][i].at)') <= 2 * MaxPerHour
    BY DEF TwiceTheCeiling
  <1>0. /\ notes[k] \in Seq(Note) /\ Heard(k) /\ Remembers(k)'
        /\ st'[k] \in AnomalyState /\ notes'[k] \in Seq(Note)
        /\ now \in Nat /\ now' = now /\ MaxPerHour \in Nat /\ Hour \in Nat
    BY ClockType, DetectorAssumption DEF TypeOK, Note, Agreed, Sample, Heard
  <1> DEFINE L == Len(notes[k])
             h == st'[k].hourStart
             w == notes'[k][i].at
             W == {j \in Onsets(k)' : w <= notes'[k][j].at /\ notes'[k][j].at < w + Hour}
  <1>1. HourOf(k, notes[k][i].at)' = W
    BY DEF HourOf
  <1>2. /\ L \in Nat /\ DOMAIN notes[k] = 1 .. L
        /\ \A j \in 1 .. L : notes[k][j].at \in Nat
    BY <1>0, NoteFields
  <1>3. h \in Nat /\ h <= now /\ w \in Nat
    <2>1. i \in 1 .. Len(notes'[k])
      BY <1>0, NoteFields DEF Onsets
    <2> QED
      BY <1>0, <2>1, Fields, NoteFields DEF Remembers
  <1> HIDE DEF h, w
  <1>4. CASE i \in Onsets(k) /\ notes'[k][i] = notes[k][i]
             /\ W \subseteq HourOf(k, notes[k][i].at)
    <2>1. Cardinality(HourOf(k, notes[k][i].at)) <= 2 * MaxPerHour
      BY <1>4 DEF TwiceTheCeiling
    <2>2. IsFiniteSet(HourOf(k, notes[k][i].at))
      <3>1. HourOf(k, notes[k][i].at) \in SUBSET Onsets(k)
        BY DEF HourOf
      <3> QED
        BY <3>1, OnsetsFinite
    <2> HIDE DEF W
    <2>3. /\ Cardinality(W) <= Cardinality(HourOf(k, notes[k][i].at))
          /\ Cardinality(W) \in Nat
          /\ Cardinality(HourOf(k, notes[k][i].at)) \in Nat
      BY <1>4, <2>2, FS_Subset, FS_CardinalityType
    <2> QED
      BY <1>0, <1>1, <2>1, <2>3
  <1>5. CASE w > now - Hour
    <2>1. W \subseteq HourOnsets(k)' \cup OlderOnsets(k)'
      <3>1. ASSUME NEW j \in W PROVE j \in HourOnsets(k)' \/ j \in OlderOnsets(k)'
        <4>1. j \in Onsets(k)' /\ w <= notes'[k][j].at
          OBVIOUS
        <4>2. notes'[k][j].at \in Nat
          BY <1>0, <4>1, NoteFields DEF Onsets
        <4>3. h - Hour <= notes'[k][j].at
          BY <1>0, <1>3, <1>5, <4>1, <4>2
        <4>4. notes'[k][j].at >= h \/ notes'[k][j].at < h
          BY <1>3, <4>2
        <4> QED
          BY <4>1, <4>3, <4>4 DEF HourOnsets, OlderOnsets, h
      <3> QED
        BY <3>1
    <2> HIDE DEF W
    <2>2. IsFiniteSet(HourOnsets(k)') /\ IsFiniteSet(OlderOnsets(k)')
      <3>1. IsFiniteSet(Onsets(k)')
        <4>1. IsFiniteSet(1 .. Len(notes'[k]))
          BY <1>0, NoteFields, FS_Interval
        <4>2. Onsets(k)' \subseteq 1 .. Len(notes'[k])
          BY <1>0, NoteFields DEF Onsets
        <4> QED
          BY <4>1, <4>2, FS_Subset
      <3>2. HourOnsets(k)' \subseteq Onsets(k)' /\ OlderOnsets(k)' \subseteq Onsets(k)'
        BY DEF HourOnsets, OlderOnsets
      <3> QED
        BY <3>1, <3>2, FS_Subset
    <2> DEFINE A == HourOnsets(k)'
               B == OlderOnsets(k)'
    <2>3. Cardinality(A) <= MaxPerHour /\ Cardinality(B) <= MaxPerHour
      BY DEF CeilingHolds
    <2>4. W \subseteq A \cup B /\ IsFiniteSet(A) /\ IsFiniteSet(B)
      BY <2>1, <2>2
    <2> HIDE DEF A, B
    <2>5. /\ IsFiniteSet(A \cup B) /\ IsFiniteSet(A \cap B)
          /\ Cardinality(A \cup B) =
               Cardinality(A) + Cardinality(B) - Cardinality(A \cap B)
      <3>1. A \cap B \subseteq A
        OBVIOUS
      <3> QED
        BY <2>4, <3>1, FS_Union, FS_Subset
    <2>6. /\ Cardinality(A) \in Nat /\ Cardinality(B) \in Nat
          /\ Cardinality(A \cap B) \in Nat
      BY <2>4, <2>5, FS_CardinalityType
    <2>7. IsFiniteSet(W) /\ Cardinality(W) <= Cardinality(A \cup B)
      BY <2>4, <2>5, FS_Subset
    <2>8. Cardinality(W) \in Nat
      BY <2>7, FS_CardinalityType
    <2> QED
      BY <1>0, <1>1, <2>3, <2>5, <2>6, <2>7, <2>8
  <1>6. CASE w <= now - Hour
    <2>1. CASE notes'[k] = notes[k]
      BY <1>4, <2>1 DEF Onsets, HourOf, w
    <2>2. ASSUME NEW m \in Note, Tells(k, m)
          PROVE  Cardinality(HourOf(k, notes[k][i].at)') <= 2 * MaxPerHour
      <3>1. /\ DOMAIN notes'[k] = 1 .. L + 1 /\ notes'[k][L + 1] = m
            /\ \A j \in 1 .. L : notes'[k][j] = notes[k][j]
        BY <1>0, <2>2, Appended DEF Tells
      <3>2. m.at = now
        BY <2>2 DEF Tells
      <3>3. ASSUME NEW j \in Onsets(k)', notes'[k][j].at < w + Hour
            PROVE  j \in Onsets(k) /\ notes'[k][j] = notes[k][j]
        <4>1. j \in 1 .. L + 1 /\ notes'[k][j].kind = "onset"
          BY <3>1 DEF Onsets
        <4>2. j # L + 1
          BY <1>0, <1>3, <1>6, <3>1, <3>2, <3>3
        <4>3. j \in 1 .. L
          BY <1>2, <4>1, <4>2
        <4> QED
          BY <1>2, <3>1, <4>1, <4>3 DEF Onsets
      <3>4. w < w + Hour
        BY <1>3, DetectorAssumption
      <3>5. i \in Onsets(k) /\ notes'[k][i] = notes[k][i]
        BY <3>3, <3>4 DEF w
      <3>6. W \subseteq HourOf(k, notes[k][i].at)
        BY <3>3, <3>5 DEF HourOf, w
      <3> QED
        BY <1>4, <3>5, <3>6
    <2> QED
      BY <1>0, <2>1, <2>2 DEF Heard
  <1> QED
    BY <1>0, <1>3, <1>5, <1>6

\* A resolution ends its breach (Detector.Observe), so the next one began later.
LEMMA SampleResolution ==
  ASSUME TypeOK, Agreed, Sample, OneResolution
  PROVE  OneResolution' /\ \A k \in Keys : Ended(k)'
  <1>0. ASSUME NEW k \in Keys
        PROVE  /\ notes[k] \in Seq(Note) /\ Heard(k) /\ Remembers(k) /\ Ended(k)
               /\ now \in Nat /\ now >= 1 /\ streak[k] \in Nat
               /\ st[k] \in AnomalyState
    BY ClockType DEF TypeOK, Note, Agreed, Sample
  <1>1. ASSUME NEW k \in Keys, NEW m \in Note, Tells(k, m)
        PROVE  /\ Len(notes[k]) \in Nat
               /\ DOMAIN notes[k] = 1 .. Len(notes[k])
               /\ DOMAIN notes'[k] = 1 .. Len(notes[k]) + 1
               /\ notes'[k][Len(notes[k]) + 1] = m
               /\ \A j \in 1 .. Len(notes[k]) : notes'[k][j] = notes[k][j]
    BY <1>0, <1>1, Appended DEF Tells
  <1>2. ASSUME NEW k \in Keys, NEW i \in Resolutions(k)', NEW j \in Resolutions(k)',
               i < j
        PROVE  notes'[k][i].at <= notes'[k][j].since
    <2>1. CASE notes'[k] = notes[k]
      BY <1>2, <2>1 DEF Resolutions, OneResolution
    <2>2. ASSUME NEW m \in Note, Tells(k, m)
          PROVE  notes'[k][i].at <= notes'[k][j].since
      <3> DEFINE L == Len(notes[k])
      <3>1. /\ L \in Nat /\ DOMAIN notes[k] = 1 .. L
            /\ DOMAIN notes'[k] = 1 .. L + 1 /\ notes'[k][L + 1] = m
            /\ \A x \in 1 .. L : notes'[k][x] = notes[k][x]
        BY <1>1, <2>2
      <3> HIDE DEF L
      <3>2. /\ i \in 1 .. L + 1 /\ j \in 1 .. L + 1
            /\ notes'[k][i].kind = "resolved" /\ notes'[k][j].kind = "resolved"
        BY <3>1 DEF Resolutions
      <3>3. i \in 1 .. L
        BY <1>2, <3>1, <3>2
      <3>4. i \in Resolutions(k)
        BY <3>1, <3>2, <3>3 DEF Resolutions
      <3>5. CASE j \in 1 .. L
        BY <1>2, <3>1, <3>2, <3>3, <3>4, <3>5 DEF Resolutions, OneResolution
      <3>6. CASE j = L + 1
        <4>1. st[k].active /\ m.since = streak[k]
          BY <2>2, <3>1, <3>2, <3>6 DEF Tells
        <4>2. notes[k][i].at <= streak[k]
          BY <1>0, <3>4, <4>1 DEF Remembers, Ended
        <4> QED
          BY <3>1, <3>3, <3>6, <4>1, <4>2
      <3> QED
        BY <3>1, <3>2, <3>5, <3>6
    <2> QED
      BY <1>0, <2>1, <2>2 DEF Heard
  <1>3. ASSUME NEW k \in Keys, streak'[k] # Zero, NEW i \in Resolutions(k)'
        PROVE  notes'[k][i].at <= streak'[k]
    <2>1. ASSUME NEW x \in Resolutions(k) PROVE notes[k][x].at <= streak'[k]
      <3>1. /\ x \in 1 .. Len(notes[k]) /\ notes[k][x].at \in Nat
            /\ notes[k][x].at <= now
        BY <1>0, NoteFields, Fields DEF Resolutions, Remembers
      <3>2. streak'[k] = IF streak[k] = Zero THEN now ELSE streak[k]
        BY <1>0, <1>3 DEF Heard
      <3> QED
        BY <1>0, <3>1, <3>2 DEF Ended
    <2>2. CASE notes'[k] = notes[k]
      BY <2>1, <2>2 DEF Resolutions
    <2>3. ASSUME NEW m \in Note, Tells(k, m) PROVE notes'[k][i].at <= streak'[k]
      <3>1. m.kind # "resolved"
        BY <1>3, <2>3 DEF Tells
      <3>2. /\ i \in 1 .. Len(notes[k]) + 1 /\ notes'[k][i].kind = "resolved"
            /\ Len(notes[k]) \in Nat
        BY <1>1, <2>3 DEF Resolutions
      <3>3. i \in 1 .. Len(notes[k])
        BY <1>1, <2>3, <3>1, <3>2
      <3>4. notes'[k][i] = notes[k][i] /\ i \in Resolutions(k)
        BY <1>1, <2>3, <3>2, <3>3 DEF Resolutions
      <3> QED
        BY <2>1, <3>4
    <2> QED
      BY <1>0, <2>2, <2>3 DEF Heard
  <1> QED
    BY <1>2, <1>3 DEF OneResolution, Ended

-----------------------------------------------------------------------------
(***************************************************************************)
(* Suppression ends.                                                       *)
(***************************************************************************)

\* Detector.send when the notifier fails: no message is counted.
LEMMA SendFails ==
  ASSUME now \in Nat, NEW s \in AnomalyState, NEW force
  PROVE  Send(s, force, FALSE).lastNotified = s.lastNotified
  <1>1. Send(s, force, FALSE) = RollHour(s)
    BY DEF Send
  <1>2. \/ RollHour(s) = s
        \/ RollHour(s) = [s EXCEPT !.hourStart = now, !.sentThisHour = 0]
    BY DEF RollHour
  <1>3. [s EXCEPT !.hourStart = now, !.sentThisHour = 0].lastNotified
          = s.lastNotified
    BY Zenon DEF AnomalyState
  <1> QED
    BY <1>1, <1>2, <1>3

\* Detector.Observe when the notifier fails: the last message is the old one.
LEMMA ObserveFails ==
  ASSUME TypeOK, NEW k \in Keys, NEW breached, NEW sustain
  PROVE  Observed(st[k], breached, sustain, FALSE).lastNotified
           = st[k].lastNotified
  <1> DEFINE s == Known(st[k])
             c == [s EXCEPT !.breachedAt = Zero]
             d == [c EXCEPT !.active = FALSE]
             at == IF s.breachedAt = Zero THEN now ELSE s.breachedAt
             b == [s EXCEPT !.breachedAt = at]
             a == [b EXCEPT !.active = TRUE]
             t == Observed(st[k], breached, sustain, FALSE)
  <1>0. st[k] \in AnomalyState /\ now \in Nat /\ Zero \in Nat
    BY ClockType DEF TypeOK, Zero
  <1>1. s \in AnomalyState /\ s.lastNotified = st[k].lastNotified
    <2>1. s = st[k] \/ s = [st[k] EXCEPT !.hourStart = now]
      BY DEF Known
    <2>2. /\ [st[k] EXCEPT !.hourStart = now] \in AnomalyState
          /\ [st[k] EXCEPT !.hourStart = now].lastNotified = st[k].lastNotified
      BY <1>0, Zenon DEF AnomalyState
    <2> QED
      BY <1>0, <2>1, <2>2
  <1>2. t = IF breached
            THEN IF sustain /\ now - b.breachedAt < SustainFor THEN b
                 ELSE Send(a, FALSE, FALSE)
            ELSE IF s.active THEN Send(d, TRUE, FALSE) ELSE c
    BY DEF Observed, Breached, Cleared
  <1> HIDE DEF s, t
  <1>3. at \in Nat
    BY <1>0, <1>1, Fields
  <1> HIDE DEF at
  <1>4. /\ c \in AnomalyState /\ c.lastNotified = s.lastNotified
        /\ b \in AnomalyState /\ b.lastNotified = s.lastNotified
    BY <1>0, <1>1, <1>3, Zenon DEF AnomalyState
  <1> HIDE DEF c, b
  <1>5. /\ d \in AnomalyState /\ d.lastNotified = s.lastNotified
        /\ a \in AnomalyState /\ a.lastNotified = s.lastNotified
    BY <1>4, Zenon DEF AnomalyState
  <1> HIDE DEF d, a
  <1>6. /\ Send(a, FALSE, FALSE).lastNotified = s.lastNotified
        /\ Send(d, TRUE, FALSE).lastNotified = s.lastNotified
    BY <1>0, <1>5, SendFails
  <1>7. t.lastNotified = s.lastNotified
    BY <1>2, <1>4, <1>6
  <1> QED
    BY <1>1, <1>7 DEF t

\* A message that was sent shows in the state of the key.
LEMMA SpokenIsTold ==
  ASSUME now \in Nat, NEW s \in AnomalyState, NEW t \in AnomalyState,
         Spoken(s, t)
  PROVE  Told(s, t)
  <1>1. t.sentThisHour - 1 = s.sentThisHour => t.sentThisHour > s.sentThisHour
    BY Fields
  <1>2. s.lastNotified < now => s.lastNotified # now
    BY Fields
  <1> QED
    BY <1>1, <1>2 DEF Spoken, HourKept, Told

\* A sample keeps the attempts in step with the messages and the hour.
LEMMA ObserveTried ==
  ASSUME TypeOK, NEW ks, NEW r, NEW failed, Observe(ks, r, failed),
         UNCHANGED now, NEW k \in Keys, Remembers(k), Tried(k)
  PROVE  Tried(k)'
  <1>0. /\ st[k] \in AnomalyState /\ now \in Nat /\ now >= 1
        /\ tried[k] \in Nat /\ Heard(k) /\ st'[k] \in AnomalyState
    BY ClockType, ObserveHeard DEF TypeOK, Heard
  <1>1. tried'[k] = IF k \in ks /\ Told(st[k], Observed(st[k], k[1] \in r,
                                                   k[1] = Lag, TRUE))
                    THEN now ELSE tried[k]
    BY DEF Observe
  <1>2. tried'[k] <= now /\ tried'[k] >= tried[k] /\ tried'[k] \in Nat
    <2>1. tried'[k] = now \/ tried'[k] = tried[k]
      BY <1>1, Zenon
    <2> QED
      BY <1>0, <2>1 DEF Tried
  <1>3. CASE Silent(st[k], st'[k])
    <2>1. /\ st'[k].lastNotified = st[k].lastNotified
          /\ \/ /\ st'[k].hourStart = st[k].hourStart
                /\ st'[k].sentThisHour = st[k].sentThisHour
             \/ st'[k].sentThisHour = 0
      BY <1>3 DEF Silent, HourKept
    <2>2. st'[k].lastNotified <= tried'[k]
      BY <1>0, <1>2, <2>1, Fields DEF Tried
    <2> QED
      BY <1>0, <1>2, <2>1, <2>2 DEF Tried
  <1>4. CASE Spoken(st[k], st'[k]) /\ ~Silent(st[k], st'[k])
    <2>1. k \in ks
      <3>1. k \notin ks => st'[k] = st[k]
        BY DEF Observe
      <3>2. st'[k] = st[k] => Silent(st[k], st'[k])
        BY DEF Silent, HourKept
      <3> QED
        BY <1>4, <3>1, <3>2
    <2>2. st'[k] = Observed(st[k], k[1] \in r, k[1] = Lag, k \notin failed)
      BY <2>1 DEF Observe
    <2>3. CASE k \in failed
      <3>1. (k \notin failed) = FALSE
        BY <2>3
      <3>2. st'[k] = Observed(st[k], k[1] \in r, k[1] = Lag, FALSE)
        BY <2>2, <3>1, Zenon
      <3>3. st'[k].lastNotified = st[k].lastNotified
        <4>1. Observed(st[k], k[1] \in r, k[1] = Lag, FALSE).lastNotified
                = st[k].lastNotified
          BY ObserveFails, Zenon
        <4> QED
          BY <3>2, <4>1, Zenon
      <3>4. st[k].lastNotified = now
        BY <1>4, <3>3 DEF Spoken
      <3>5. HourKept(st[k], st'[k].hourStart, st'[k].sentThisHour - 1)
        BY <1>4 DEF Spoken
      <3>6. st'[k].hourStart = st[k].hourStart
        BY <1>0, <3>4, <3>5 DEF HourKept
      <3>7. st[k].hourStart <= now /\ tried[k] = now
        BY <1>0, <3>4 DEF Remembers, Tried
      <3> QED
        BY <1>0, <1>2, <3>3, <3>4, <3>6, <3>7 DEF Tried, Zero
    <2>4. CASE k \notin failed
      <3>1. (k \notin failed) = TRUE
        BY <2>4
      <3>2. st'[k] = Observed(st[k], k[1] \in r, k[1] = Lag, TRUE)
        BY <2>2, <3>1, Zenon
      <3>3. tried'[k] = now
        BY <1>0, <1>1, <1>4, <2>1, <3>2, SpokenIsTold
      <3>4. st'[k].lastNotified = now /\ st'[k].hourStart <= now
        BY <1>0, <1>4 DEF Spoken, HourKept, Remembers
      <3> QED
        BY <1>0, <3>3, <3>4 DEF Tried, Zero
    <2> QED
      BY <2>3, <2>4
  <1> QED
    BY <1>0, <1>3, <1>4 DEF Heard, Tells

\* Detector.send: it would send, or the key is suppressed by a recent message.
LEMMA SendOrRecent ==
  ASSUME now \in Nat, now >= 1, MaxPerHour > 0, NEW s \in AnomalyState,
         s.lastNotified < s.hourStart + Hour, s.lastNotified <= now,
         s.sentThisHour > 0 =>
           s.lastNotified # Zero /\ s.lastNotified >= s.hourStart
  PROVE  \/ Spoken(s, Send(s, FALSE, TRUE))
         \/ /\ s.lastNotified # Zero
            /\ \/ now - s.lastNotified < Cooldown
               \/ now - s.lastNotified < Hour
  <1> DEFINE h == RollHour(s)
             u == [h EXCEPT !.lastNotified = now, !.sentThisHour = @ + 1]
  <1>0. /\ Hour \in Nat /\ Hour >= 1 /\ Cooldown \in Nat /\ MaxPerHour \in Nat
        /\ s.lastNotified \in Nat /\ s.hourStart \in Nat /\ s.sentThisHour \in Nat
    BY DetectorAssumption, Fields
  <1>1. /\ h \in AnomalyState /\ h.lastNotified = s.lastNotified
        /\ \/ now - s.hourStart >= Hour /\ h.hourStart = now /\ h.sentThisHour = 0
           \/ /\ now - s.hourStart < Hour /\ h.hourStart = s.hourStart
              /\ h.sentThisHour = s.sentThisHour
    <2>1. CASE now - s.hourStart >= Hour
      <3>1. h = [s EXCEPT !.hourStart = now, !.sentThisHour = 0] /\ 0 \in Nat
        BY <2>1 DEF RollHour
      <3>2. /\ h \in AnomalyState /\ h.lastNotified = s.lastNotified
            /\ h.hourStart = now /\ h.sentThisHour = 0
        BY <3>1, Zenon DEF AnomalyState
      <3> QED
        BY <2>1, <3>2
    <2>2. CASE ~(now - s.hourStart >= Hour)
      <3>1. h = s
        BY <2>2 DEF RollHour
      <3> QED
        BY <1>0, <2>2, <3>1
    <2> QED
      BY <2>1, <2>2
  <1> HIDE DEF h
  <1>2. CASE ~Suppressed(h)
    <2>1. Send(s, FALSE, TRUE) = u
      BY <1>2 DEF Send, h
    <2>2. u.lastNotified = now /\ u.hourStart = h.hourStart
          /\ u.sentThisHour = h.sentThisHour + 1
      BY <1>1, Zenon DEF AnomalyState
    <2> HIDE DEF u
    <2>3. u.sentThisHour - 1 = h.sentThisHour
      BY <1>1, <2>2, Fields
    <2>4. HourKept(s, u.hourStart, u.sentThisHour - 1)
      <3>1. now - s.hourStart >= Hour => s.lastNotified < now
        BY <1>0
      <3> QED
        BY <1>1, <2>2, <2>3, <3>1 DEF HourKept
    <2>5. u.hourStart <= now => now < u.hourStart + Hour
      BY <1>0, <1>1, <2>2
    <2> QED
      BY <2>1, <2>2, <2>4, <2>5 DEF Spoken
  <1>3. CASE Suppressed(h)
    <2>1. CASE h.lastNotified # Zero /\ now - h.lastNotified < Cooldown
      BY <1>1, <2>1
    <2>2. CASE h.sentThisHour >= MaxPerHour
      <3>1. now - s.hourStart < Hour /\ s.sentThisHour > 0
        BY <1>0, <1>1, <2>2
      <3>2. s.lastNotified # Zero /\ s.lastNotified >= s.hourStart
        BY <3>1
      <3>3. now - s.lastNotified < Hour
        BY <1>0, <3>1, <3>2
      <3> QED
        BY <3>2, <3>3
    <2> QED
      BY <1>3, <2>1, <2>2 DEF Suppressed
  <1> QED
    BY <1>2, <1>3

\* Detector.Observe for a key that holds: the breach is young, or an attempt is
\* made now, or the last message is recent.
LEMMA ObserveHushed ==
  ASSUME TypeOK, NEW ks, NEW r, NEW failed, Observe(ks, r, failed),
         UNCHANGED now, NEW k \in Keys, k \in ks, Remembers(k), Tried(k),
         MaxPerHour > 0
  PROVE  Hushed(k)'
  <1>0. /\ st[k] \in AnomalyState /\ now \in Nat /\ now >= 1
        /\ streak[k] \in Nat /\ tried[k] \in Nat
        /\ Hour \in Nat /\ Hour >= 1 /\ Cooldown \in Nat /\ SustainFor \in Nat
    BY ClockType, DetectorAssumption DEF TypeOK
  <1>1. /\ streak'[k] = IF k[1] \notin r THEN Zero
                        ELSE IF streak[k] = Zero THEN now ELSE streak[k]
        /\ tried'[k] = IF Told(st[k], Observed(st[k], k[1] \in r, k[1] = Lag, TRUE))
                       THEN now ELSE tried[k]
    BY DEF Observe
  <1>2. CASE k[1] \notin r
    BY <1>1, <1>2 DEF Hushed
  <1>3. CASE k[1] \in r
    <2> DEFINE s == Known(st[k])
               at == IF s.breachedAt = Zero THEN now ELSE s.breachedAt
               b == [s EXCEPT !.breachedAt = at]
               a == [b EXCEPT !.active = TRUE]
               t == Observed(st[k], k[1] \in r, k[1] = Lag, TRUE)
    <2>1. /\ s \in AnomalyState /\ s.breachedAt = streak[k]
          /\ s.lastNotified = st[k].lastNotified
          /\ HourKept(st[k], s.hourStart, s.sentThisHour)
          /\ s.lastNotified < s.hourStart + Hour
          /\ s.sentThisHour > 0 =>
               s.lastNotified # Zero /\ s.lastNotified >= s.hourStart
      <3>1. CASE st[k] = Unknown
        <4>1. /\ st[k].lastNotified = 0 /\ st[k].sentThisHour = 0
              /\ s = [st[k] EXCEPT !.hourStart = now]
          BY <3>1 DEF Known, Unknown, Zero
        <4>2. /\ s \in AnomalyState /\ s.breachedAt = st[k].breachedAt
              /\ s.lastNotified = st[k].lastNotified
              /\ s.sentThisHour = st[k].sentThisHour /\ s.hourStart = now
          BY <1>0, <4>1, Zenon DEF AnomalyState
        <4> QED
          BY <1>0, <4>1, <4>2 DEF HourKept, Remembers, Zero
      <3>2. CASE st[k] # Unknown
        BY <1>0, <3>2 DEF Known, HourKept, Remembers, Tried
      <3> QED
        BY <3>1, <3>2
    <2>2. t = IF k[1] = Lag /\ now - b.breachedAt < SustainFor THEN b
              ELSE Send(a, FALSE, TRUE)
      BY <1>3 DEF Observed, Breached
    <2> HIDE DEF s, t
    <2>3. at \in Nat /\ at = streak'[k]
      BY <1>0, <1>1, <1>3, <2>1
    <2> HIDE DEF at
    <2>4. /\ b \in AnomalyState /\ b.breachedAt = at
          /\ b.lastNotified = s.lastNotified
          /\ b.sentThisHour = s.sentThisHour /\ b.hourStart = s.hourStart
      BY <2>1, <2>3, Zenon DEF AnomalyState
    <2> HIDE DEF b
    <2>5. /\ a \in AnomalyState /\ a.lastNotified = s.lastNotified
          /\ a.sentThisHour = s.sentThisHour /\ a.hourStart = s.hourStart
      BY <2>4, Zenon DEF AnomalyState
    <2> HIDE DEF a
    <2>6. CASE k[1] = Lag /\ now - b.breachedAt < SustainFor
      BY <2>3, <2>4, <2>6 DEF Hushed
    <2>7. CASE ~(k[1] = Lag /\ now - b.breachedAt < SustainFor)
      <3>1. t = Send(a, FALSE, TRUE)
        BY <2>2, <2>7
      <3>2. /\ a.lastNotified < a.hourStart + Hour /\ a.lastNotified <= now
            /\ a.sentThisHour > 0 =>
                 a.lastNotified # Zero /\ a.lastNotified >= a.hourStart
        BY <2>1, <2>5 DEF Remembers
      <3>3. \/ Spoken(a, t)
            \/ /\ a.lastNotified # Zero
               /\ now - a.lastNotified < Cooldown \/ now - a.lastNotified < Hour
        BY <1>0, <2>5, <3>1, <3>2, SendOrRecent
      <3>4. CASE Spoken(a, t)
        <4>1. Spoken(st[k], t)
          BY <2>1, <2>5, <3>4 DEF Spoken, HourKept
        <4>2. t \in AnomalyState
          BY <1>0, <2>5, <3>1, <3>2, SendOutcome
        <4>3. tried'[k] = now
          BY <1>0, <1>1, <4>1, <4>2, SpokenIsTold DEF t
        <4>4. now # Zero /\ now - now < Hour
          BY <1>0 DEF Zero
        <4> QED
          BY <4>3, <4>4 DEF Hushed
      <3>5. CASE /\ a.lastNotified # Zero
                 /\ now - a.lastNotified < Cooldown \/ now - a.lastNotified < Hour
        <4>1. /\ st[k].lastNotified \in Nat /\ st[k].lastNotified <= tried[k]
              /\ st[k].lastNotified # Zero /\ tried[k] <= now
              /\ \/ now - st[k].lastNotified < Cooldown
                 \/ now - st[k].lastNotified < Hour
          BY <1>0, <2>1, <2>5, <3>5, Fields DEF Tried
        <4>2. /\ tried'[k] \in Nat /\ tried'[k] >= st[k].lastNotified
              /\ tried'[k] <= now
          <5>1. tried'[k] = now \/ tried'[k] = tried[k]
            BY <1>1, Zenon
          <5> QED
            BY <1>0, <4>1, <5>1
        <4>3. /\ tried'[k] # Zero
              /\ now - tried'[k] < Cooldown \/ now - tried'[k] < Hour
          BY <1>0, <4>1, <4>2 DEF Zero
        <4> QED
          BY <4>3 DEF Hushed
      <3> QED
        BY <3>3, <3>4, <3>5
    <2> QED
      BY <2>6, <2>7
  <1> QED
    BY <1>2, <1>3

\* One sample: every key observed in this round stays hushed.
LEMMA SampleAgentSoFar ==
  ASSUME TypeOK, Agreed, Sampled, SoFar, SampleAgent PROVE SoFar'
  <1> DEFINE a == Head(todo)
  <1>1. PICK r \in SUBSET Conditions :
          /\ \E failed : Observe(ObservedKeys(a, r), r, failed)
          /\ snapshot' = With(snapshot, a, HealthOf(r))
          /\ reading' = With(reading, a, r)
    BY DEF SampleAgent
  <1>2. PICK failed : Observe(ObservedKeys(a, r), r, failed)
    BY <1>1
  <1>3. now' = now /\ a \in MonitorAgents
    BY DEF SampleAgent, Sampled
  <1> HIDE DEF a
  <1>4. ASSUME NEW x \in MonitorAgents, NEW q
        PROVE  ObservedKeys(x, q) \subseteq Keys
    BY DEF ObservedKeys, Keys, Types
  <1>5. /\ DOMAIN snapshot' = DOMAIN snapshot \cup {a} /\ reading'[a] = r
        /\ \A x \in DOMAIN snapshot : x # a => reading'[x] = reading[x]
    BY <1>1 DEF With, Sampled
  <1> SUFFICES ASSUME MaxPerHour > 0, NEW x \in DOMAIN snapshot',
                      NEW k \in ObservedKeys(x, reading'[x])
               PROVE  Hushed(k)'
    BY DEF SoFar, ObservedKeys
  <1>6. x \in MonitorAgents /\ k \in Keys
    BY <1>3, <1>4, <1>5 DEF Sampled
  <1>7. CASE k \in ObservedKeys(a, r)
    <2>1. Remembers(k) /\ Tried(k)
      BY <1>6 DEF Agreed
    <2> QED
      BY <1>2, <1>3, <1>6, <1>7, <2>1, ObserveHushed
  <1>8. CASE k \notin ObservedKeys(a, r)
    <2>1. x \in DOMAIN snapshot /\ reading'[x] = reading[x]
      BY <1>5, <1>8
    <2>2. Hushed(k)
      BY <2>1 DEF SoFar
    <2>3. streak'[k] = streak[k] /\ tried'[k] = tried[k]
      BY <1>2, <1>6, <1>8 DEF Observe
    <2> QED
      BY <1>3, <2>2, <2>3 DEF Hushed
  <1> QED
    BY <1>7, <1>8

-----------------------------------------------------------------------------
(***************************************************************************)
(* The steps of the monitor.                                               *)
(***************************************************************************)
IInv ==
  /\ TypeOK /\ Sampled /\ Agreed /\ SoFar
  /\ CooldownHolds /\ CeilingHolds /\ TwiceTheCeiling /\ SustainHolds
  /\ OneResolution

\* The monitor's invariant holds before the first sample.
LEMMA InitIInv == Init => IInv
  <1> SUFFICES ASSUME Init PROVE IInv
    OBVIOUS
  <1>1. /\ now = 1 /\ 1 \in 1 .. MaxTime
        /\ st = [k \in Keys |-> Unknown] /\ notes = [k \in Keys |-> <<>>]
        /\ todo = AgentSeq /\ snapshot = NoHealth /\ latest = NoHealth
        /\ reading = NoHealth /\ streak = [k \in Keys |-> 0]
        /\ tried = [k \in Keys |-> 0]
    BY MonitorAssumption DEF Init, DetectorInit, Zero
  <1>2. Unknown \in AnomalyState
    <2>1. 0 \in Nat /\ FALSE \in BOOLEAN
      OBVIOUS
    <2> QED
      BY <2>1, Zenon DEF Unknown, AnomalyState, Zero
  <1>3. DOMAIN NoHealth = {}
    BY DEF NoHealth
  <1>4. TypeOK
    <2>1. Len(AgentSeq) \in Nat
      BY MonitorAssumption
    <2>2. st \in [Keys -> AnomalyState]
      BY <1>1, <1>2
    <2>3. <<>> \in Seq(Note)
      OBVIOUS
    <2>4. notes \in [Keys -> Seq(Note)]
      BY <1>1, <2>3
    <2> QED
      BY <1>1, <1>3, <2>1, <2>2, <2>4 DEF TypeOK, Note
  <1>5. Sampled
    BY <1>1, <1>3, MonitorAssumption DEF Sampled, MonitorAgents
  <1>6. ASSUME NEW k \in Keys
        PROVE  notes[k] = <<>> /\ DOMAIN notes[k] = {} /\ streak[k] = 0 /\ st[k] = Unknown
    BY <1>1
  <1>7. /\ Unknown.active = FALSE /\ Unknown.breachedAt = 0
        /\ Unknown.lastNotified = 0 /\ Unknown.sentThisHour = 0
        /\ Unknown.hourStart = 0
    BY DEF Unknown, Zero
  <1>8. \A k \in Keys : Onsets(k) = {} /\ Resolutions(k) = {} /\ ThisHour(k) = {}
    BY <1>6 DEF Onsets, Resolutions, ThisHour
  <1>9. ASSUME NEW k \in Keys PROVE Remembers(k) /\ Counted(k) /\ Ended(k)
                                      /\ Tried(k)
    <2>1. Remembers(k)
      BY <1>1, <1>6, <1>7, DetectorAssumption DEF Remembers, Zero
    <2>2. Counted(k)
      <3>1. Cardinality(ThisHour(k)) = 0 /\ st[k].sentThisHour = 0
        BY <1>6, <1>7, <1>8, FS_EmptySet
      <3> QED
        BY <3>1 DEF Counted
    <2>3. Tried(k)
      BY <1>1, <1>6, <1>7 DEF Tried
    <2> QED
      BY <1>8, <2>1, <2>2, <2>3 DEF Ended
  <1>10. CeilingHolds
    <2>1. \A k \in Keys : HourOnsets(k) = {} /\ OlderOnsets(k) = {}
      BY <1>8 DEF HourOnsets, OlderOnsets
    <2>2. Cardinality({}) <= MaxPerHour
      BY FS_EmptySet, DetectorAssumption
    <2> QED
      BY <2>1, <2>2 DEF CeilingHolds
  <1> QED
    BY <1>1, <1>3, <1>4, <1>5, <1>8, <1>9, <1>10
    DEF SoFar, IInv, Agreed, CooldownHolds, TwiceTheCeiling, SustainHolds, OneResolution

\* sample, for one agent: the detector's part.
LEMMA SampleAgentHeard ==
  ASSUME TypeOK, Agreed, SampleAgent PROVE Sample
  <1>1. PICK ks, r, failed : Observe(ks, r, failed)
    BY DEF SampleAgent
  <1> QED
    BY <1>1, ObserveHeard DEF Agreed, Sample, SampleAgent

\* sample, for one agent: every variable keeps its type.
LEMMA SampleAgentType ==
  ASSUME TypeOK, Agreed, Sampled, SampleAgent PROVE TypeOK'
  <1>1. /\ todo \in Seq(MonitorAgents) /\ todo # <<>> /\ todo' = Tail(todo)
        /\ Len(todo) <= Len(AgentSeq) /\ Len(AgentSeq) \in Nat /\ now' = now
    BY MonitorAssumption DEF SampleAgent, Sampled, TypeOK
  <1>2. Len(todo') <= Len(AgentSeq)
    BY <1>1
  <1>3. PICK r \in SUBSET Conditions :
          /\ \E ks, failed : Observe(ks, r, failed)
          /\ snapshot' = With(snapshot, Head(todo), HealthOf(r))
          /\ reading' = With(reading, Head(todo), r)
    BY DEF SampleAgent
  <1>4. ASSUME NEW k \in Keys
        PROVE  /\ st'[k] \in AnomalyState /\ notes'[k] \in Seq(Note)
               /\ streak'[k] \in Nat
    <2>1. Heard(k) /\ notes[k] \in Seq(Note) /\ streak[k] \in Nat /\ now \in Nat
      BY SampleAgentHeard, ClockType DEF Sample, TypeOK, Note
    <2>2. notes'[k] \in Seq(Note)
      BY <2>1, Appended DEF Heard, Tells
    <2> QED
      BY <2>1, <2>2 DEF Heard, Zero
  <1>5. /\ st' \in [Keys -> AnomalyState] /\ notes' \in [Keys -> Seq(Note)]
        /\ streak' \in [Keys -> Nat] /\ tried' \in [Keys -> Nat]
    <2>0. tried' \in [Keys -> Nat]
      <3>1. now \in Nat /\ \A k \in Keys : tried[k] \in Nat
        BY ClockType DEF TypeOK
      <3> QED
        BY <1>3, <3>1 DEF Observe
    <2>1. \E f, g, h : /\ st' = [k \in Keys |-> f[k]]
                       /\ streak' = [k \in Keys |-> g[k]]
                       /\ notes' = [k \in Keys |-> h[k]]
      <3>1. st' = [k \in Keys |-> st'[k]]
        BY <1>3, Zenon DEF Observe
      <3>2. streak' = [k \in Keys |-> streak'[k]]
        BY <1>3, Zenon DEF Observe
      <3>3. notes' = [k \in Keys |-> notes'[k]]
        BY <1>3, Zenon DEF Observe
      <3> QED
        BY <3>1, <3>2, <3>3, Zenon
    <2> QED
      BY <1>4, <2>0, <2>1
  <1>6. HealthOf(r) \subseteq {Lag, Trimmed}
    BY DEF HealthOf
  <1>7. /\ \A x \in DOMAIN snapshot' : snapshot'[x] \subseteq {Lag, Trimmed}
        /\ \A x \in DOMAIN reading' : reading'[x] \subseteq Conditions
    BY <1>3, <1>6 DEF With, TypeOK
  <1>8. \A x \in DOMAIN latest' : latest'[x] \subseteq {Lag, Trimmed}
    BY <1>7 DEF SampleAgent, TypeOK
  <1> QED
    BY <1>1, <1>2, <1>5, <1>7, <1>8 DEF TypeOK, Note

\* sample, for one agent: the snapshot's part.
LEMMA SampleAgentSnapshot ==
  ASSUME Sampled, SampleAgent PROVE Sampled'
  <1> DEFINE a == Head(todo)
  <1>1. PICK r :
          /\ snapshot' = With(snapshot, a, HealthOf(r))
          /\ reading' = With(reading, a, r)
    BY DEF SampleAgent
  <1>2. /\ todo \in Seq(MonitorAgents) /\ todo # <<>> /\ todo' = Tail(todo)
    BY DEF SampleAgent, Sampled
  <1>3. {todo[i] : i \in 1 .. Len(todo)} =
          {a} \cup {todo'[i] : i \in 1 .. Len(todo')}
    <2>1. /\ Len(todo) \in Nat /\ Len(todo) >= 1 /\ a = todo[1]
          /\ Len(todo') = Len(todo) - 1
          /\ \A i \in 1 .. Len(todo) - 1 : todo'[i] = todo[i + 1]
      BY <1>2
    <2>2. \A i \in 1 .. Len(todo) : i = 1 \/ i - 1 \in 1 .. Len(todo) - 1
      BY <2>1
    <2>3. \A i \in 1 .. Len(todo) - 1 : i + 1 \in 1 .. Len(todo)
      BY <2>1
    <2>4. \A i \in 1 .. Len(todo) : i # 1 => todo[i] = todo'[i - 1]
      BY <2>1, <2>2
    <2>5. 1 \in 1 .. Len(todo)
      BY <2>1
    <2> QED
      BY <2>1, <2>2, <2>3, <2>4, <2>5
  <1> HIDE DEF a
  <1>4. /\ DOMAIN snapshot' = DOMAIN snapshot \cup {a}
        /\ snapshot'[a] = HealthOf(r)
        /\ \A x \in DOMAIN snapshot : x # a => snapshot'[x] = snapshot[x]
    BY <1>1 DEF With
  <1>5. /\ DOMAIN reading' = DOMAIN reading \cup {a} /\ reading'[a] = r
        /\ \A x \in DOMAIN reading : x # a => reading'[x] = reading[x]
    BY <1>1 DEF With
  <1>6. todo' \in Seq(MonitorAgents)
    BY <1>2
  <1>7. MonitorAgents = DOMAIN snapshot' \cup {todo'[i] : i \in 1 .. Len(todo')}
    BY <1>3, <1>4 DEF Sampled
  <1>8. DOMAIN snapshot' \subseteq DOMAIN reading'
    BY <1>4, <1>5 DEF Sampled
  <1> QED
    BY <1>6, <1>7, <1>8 DEF Sampled

\* The next tick moves the clock and begins a new round.
LEMMA NextTickIInv == ASSUME IInv, NextTick PROVE IInv'
  <1>1. /\ now' = now + 1 /\ now \in 1 .. MaxTime /\ now' \in 1 .. MaxTime
        /\ todo' = AgentSeq /\ snapshot' = NoHealth
        /\ UNCHANGED <<st, notes, latest, reading, streak, tried>>
    BY MonitorAssumption DEF NextTick, IInv, TypeOK
  <1>2. DOMAIN NoHealth = {}
    BY DEF NoHealth
  <1>3. TypeOK'
    BY <1>1, <1>2, MonitorAssumption DEF IInv, TypeOK
  <1>4. Sampled'
    <2>1. AgentSeq = <<>> => MonitorAgents = {}
      BY MonitorAssumption DEF MonitorAgents
    <2>2. MonitorAgents = {AgentSeq[i] : i \in 1 .. Len(AgentSeq)}
      BY DEF MonitorAgents
    <2> QED
      BY <1>1, <1>2, <2>1, <2>2, MonitorAssumption DEF Sampled
  <1>5. ASSUME NEW k \in Keys PROVE Remembers(k)'
    <2>1. Remembers(k) /\ st[k] \in AnomalyState /\ streak[k] \in Nat
      BY DEF IInv, Agreed, TypeOK
    <2>2. /\ streak[k] <= now + 1 /\ st[k].lastNotified <= now + 1
          /\ st[k].hourStart <= now + 1
      BY <1>1, <2>1, Fields DEF Remembers
    <2> QED
      BY <1>1, <2>1, <2>2 DEF Remembers
  <1>6. ASSUME NEW k \in Keys PROVE Tried(k)'
    <2>1. tried[k] \in Nat /\ Tried(k)
      BY DEF IInv, TypeOK, Agreed
    <2>2. tried[k] <= now + 1
      BY <1>1, <2>1 DEF Tried
    <2> QED
      BY <1>1, <2>1, <2>2 DEF Tried
  <1>8. Agreed' /\ SoFar'
    BY <1>1, <1>2, <1>5, <1>6
    DEF IInv, Agreed, Counted, ThisHour, Ended, Resolutions, SoFar
  <1>7. /\ CooldownHolds' /\ CeilingHolds' /\ TwiceTheCeiling'
        /\ SustainHolds' /\ OneResolution'
    BY <1>1
    DEF IInv, CooldownHolds, CeilingHolds, HourOnsets, OlderOnsets,
      TwiceTheCeiling, HourOf, SustainHolds, OneResolution, Onsets, Resolutions
  <1> QED
    BY <1>3, <1>4, <1>7, <1>8 DEF IInv

\* Every step of the monitor keeps the invariant.
LEMMA NextIInv == IInv /\ [Next]_vars => IInv'
  <1> SUFFICES ASSUME IInv, [Next]_vars PROVE IInv'
    OBVIOUS
  <1>1. CASE SampleAgent
    <2>1. Sample
      BY <1>1, SampleAgentHeard DEF IInv
    <2>2. TypeOK' /\ Sampled'
      BY <1>1, SampleAgentType, SampleAgentSnapshot DEF IInv
    <2>3. ASSUME NEW k \in Keys PROVE Remembers(k)' /\ Counted(k)'
      BY <2>1, HeardRemembers, HeardCounted DEF IInv, Agreed, Sample
    <2>4. CooldownHolds' /\ SustainHolds'
      BY <2>1, SampleCooldown, SampleSustain DEF IInv
    <2>5. OneResolution' /\ \A k \in Keys : Ended(k)'
      BY <2>1, SampleResolution DEF IInv
    <2>6. CeilingHolds'
      BY <2>1, <2>2, <2>3, SampleCeiling, SampleOlder DEF IInv, CeilingHolds
    <2>7. Agreed'
      <3>1. ASSUME NEW k \in Keys PROVE Tried(k)'
        BY <1>1, ObserveTried DEF SampleAgent, IInv, Agreed
      <3> QED
        BY <2>3, <2>5, <3>1 DEF Agreed
    <2>8. TwiceTheCeiling'
      BY <2>1, <2>2, <2>6, <2>7, SampleTwice DEF IInv
    <2>9. SoFar'
      BY <1>1, SampleAgentSoFar DEF IInv
    <2> QED
      BY <2>2, <2>4, <2>5, <2>6, <2>7, <2>8, <2>9 DEF IInv
  <1>2. CASE NextTick
    BY <1>2, NextTickIInv
  <1>3. CASE UNCHANGED vars
    <2>1. UNCHANGED <<now, st, notes, todo, snapshot, latest, reading, streak,
                    tried>>
      BY <1>3 DEF vars, detectorVars
    <2>2. TypeOK'
      BY <2>1 DEF IInv, TypeOK
    <2>3. Sampled'
      BY <2>1 DEF IInv, Sampled
    <2>4. Agreed' /\ SoFar'
      BY <2>1
      DEF IInv, Agreed, Remembers, Counted, ThisHour, Ended, Resolutions, Tried,
        SoFar, Hushed, ObservedKeys
    <2>5. /\ CooldownHolds' /\ CeilingHolds' /\ TwiceTheCeiling'
          /\ SustainHolds' /\ OneResolution'
      BY <2>1
      DEF IInv, CooldownHolds, CeilingHolds, HourOnsets, OlderOnsets,
        TwiceTheCeiling, HourOf, SustainHolds, OneResolution, Onsets, Resolutions
    <2> QED
      BY <2>2, <2>3, <2>4, <2>5 DEF IInv
  <1> QED
    BY <1>1, <1>2, <1>3 DEF Next

\* The inductive invariant of the monitor and the detector.
LEMMA Invariant == Spec => []IInv
  BY InitIInv, NextIInv, PTL DEF Spec

\* Every variable of the monitor and the detector keeps its type.
THEOREM TypeCorrect == Spec => []TypeOK
  BY Invariant, PTL DEF IInv

\* Detector.send: for any cooldown, an onset is at least a cooldown away from
\* the message before it, whatever clears, hours and failed mails come between.
THEOREM CooldownIsKept == Spec => []CooldownHolds
  BY Invariant, PTL DEF IInv

\* Detector.send: for any ceiling and hour, an hour on support's clock that
\* begins at a message about a condition holds at most twice MaxPerHour of them,
\* although the detector counts in an hour of its own.
THEOREM CeilingOnTheClock == Spec => []TwiceTheCeiling
  BY Invariant, PTL DEF IInv

\* Detector.send rolls its hour before it looks at the ceiling: with a ceiling
\* of at least one, a breach that a sample finds is never passed over in silence
\* for longer than the sustain window, a cooldown and an hour allow.
THEOREM SuppressionEnds == Spec => []SilenceIsBounded
  <1>1. IInv => SilenceIsBounded
    <2> SUFFICES ASSUME Sampled, SoFar, todo = <<>>, MaxPerHour > 0,
                        NEW a \in MonitorAgents, NEW k \in ObservedKeys(a, reading[a])
                 PROVE  Hushed(k)
      BY DEF IInv, SilenceIsBounded, Hushed
    <2>1. a \in DOMAIN snapshot
      BY DEF Sampled
    <2> QED
      BY <2>1 DEF SoFar
  <1> QED
    BY <1>1, Invariant, PTL

\* Detector.Observe: support hears of lag only after it held at every
\* observation for the whole sustain window.
THEOREM SustainIsKept == Spec => []SustainHolds
  BY Invariant, PTL DEF IInv

\* Detector.Observe: a breach is reported as resolved once, also for sources
\* that any number of agents observe in one sample.
THEOREM ResolvedOnce == Spec => []OneResolution
  BY Invariant, PTL DEF IInv
=============================================================================
