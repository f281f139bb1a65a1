--------------------------- MODULE LogDrainProofs ---------------------------
(***************************************************************************)
(* Proofs about LogDrain, for any cap of the list, delay and skew of the   *)
(* stamps, losses, number of periods, entries and processes.               *)
(*                                                                         *)
(* The open period of the running process is what its summaries are        *)
(* compared with (OpenIsLast); what it has observed is what the counts of  *)
(* the summaries and of the open period are compared with.                 *)
(***************************************************************************)
EXTENDS LogDrain, TLAPS

-----------------------------------------------------------------------------
(***************************************************************************)
(* The inductive invariant.                                                *)
(***************************************************************************)
\* Whoever runs has been started.
RunnerIsBooted == pc # "off" => boots >= 1

\* Summaries are those of processes that have been started.
HistoryIsBooted == \A i \in DOMAIN sums : sums[i].by <= boots

\* What the latest process emitted is older than the period it has open; before
\* it has one open it emitted nothing.
OpenIsLast ==
  \A i \in DOMAIN sums : sums[i].by = boots => sums[i].period < current

IInv ==
  /\ TypeOK
  /\ RunnerIsBooted
  /\ HistoryIsBooted
  /\ OpenIsLast
  /\ PeriodsAdvance
  /\ EveryEntryIsCounted

-----------------------------------------------------------------------------
(***************************************************************************)
(* Types.                                                                  *)
(***************************************************************************)
\* The numbers of the model are numbers, and there is a period.
LEMMA Numbers ==
  /\ ListCap \in Nat \ {0} /\ MaxPeriod \in Nat \ {0}
  /\ MaxPush \in Nat /\ MaxBoots \in Nat
  /\ Periods \subseteq Nat /\ Zero \in Nat /\ Zero \notin Periods /\ 1 \in Periods
  BY LogDrainAssumption DEF LogDrainAssumption, Periods, Zero

LEMMA NoEntryType == NoEntry \in Entries
  <1>1. Zero \in Periods \cup {Zero} /\ FALSE \in BOOLEAN
    OBVIOUS
  <1> QED
    BY <1>1, Zenon DEF NoEntry, Entries

\* closeLocked returns a summary: a period is closed only when one is open.
LEMMA ClosedType ==
  ASSUME TypeOK, current # Zero PROVE Closed \in Summaries
  <1>1. boots \in Nat
    BY Numbers DEF TypeOK
  <1>2. /\ current \in Periods /\ count \in Nat /\ partial \in BOOLEAN
        /\ observed \in Nat
    BY DEF TypeOK
  <1> QED
    BY <1>1, <1>2, Zenon DEF Closed, Summaries

\* The entry at hand belongs to a period, its own or the one it is handled in.
LEMMA BucketType ==
  ASSUME TypeOK
  PROVE  (IF hand.stamp = Zero THEN now ELSE hand.stamp) \in Periods
  <1>1. hand.stamp \in Periods \cup {Zero}
    BY DEF TypeOK, Entries
  <1> QED
    BY <1>1 DEF TypeOK

\* What Observe and Tick leave has its types.
LEMMA ObserveType ==
  ASSUME TypeOK, NEW bucket \in Periods, Observe(bucket)
  PROVE  /\ current' \in Periods /\ count' \in Nat /\ partial' \in BOOLEAN
         /\ sums' \in Seq(Summaries)
  <1>1. CASE LaterPeriod(bucket)
    <2>1. Closed \in Summaries
      BY <1>1, ClosedType DEF LaterPeriod
    <2>2. /\ sums' = Append(sums, Closed)
          /\ current' = bucket /\ count' = 1 /\ partial' = FALSE
      BY <1>1 DEF Observe
    <2>3. sums' \in Seq(Summaries)
      BY <2>1, <2>2 DEF TypeOK
    <2> QED
      BY <2>2, <2>3
  <1>2. CASE ~LaterPeriod(bucket)
    <2>1. /\ current' = IF current = Zero THEN bucket ELSE current
          /\ count' = count + 1 /\ partial' = partial /\ sums' = sums
      BY <1>2 DEF Observe
    <2>2. current' \in Periods
      BY <2>1 DEF TypeOK
    <2>3. count' \in Nat
      BY <2>1 DEF TypeOK
    <2>4. partial' \in BOOLEAN /\ sums' \in Seq(Summaries)
      BY <2>1, Zenon DEF TypeOK
    <2> QED
      BY <2>2, <2>3, <2>4
  <1> QED
    BY <1>1, <1>2

\* The parts of the type invariant that an action may leave alone.
LEMMA AggStaysTyped ==
  ASSUME TypeOK, UNCHANGED <<aggVars, boots>>
  PROVE  /\ current' \in Periods \cup {Zero} /\ count' \in Nat
         /\ partial' \in BOOLEAN /\ boots' \in 0 .. MaxBoots
         /\ observed' \in Nat /\ sums' \in Seq(Summaries)
  BY Zenon DEF TypeOK, aggVars

\* The aggregator and the history are touched by three actions only.
LEMMA StepKinds ==
  ASSUME [Next]_vars
  PROVE  HandleEntry \/ TickCloses \/ Boot \/ UNCHANGED <<aggVars, boots>>
  BY DEF Next, Loop, ClockTick, Push, Expire, TickerFires, FirstSelect, GoOn,
         SeesDone, ReadNil, HandleUnprocessable, Restart, ReadEntry, ReadError,
         ReadReplyLost, Cancel, ProcessEnds, vars
\* The clock and the list keep their types: only Push adds an entry, below the cap.
LEMMA ListStep ==
  ASSUME TypeOK, [Next]_vars
  PROVE  /\ now' \in Periods
         /\ list' \in Seq(Entries) /\ Len(list') <= ListCap
         /\ pushed' \in 0 .. MaxPush
  <1>1. /\ now \in Periods /\ list \in Seq(Entries) /\ Len(list) <= ListCap
        /\ pushed \in 0 .. MaxPush
    BY DEF TypeOK
  <1>2. CASE ClockTick
    BY <1>1, <1>2, Numbers DEF ClockTick, Periods, listVars
  <1>3. CASE Push
    <2>1. PICK e \in Entries : list' = Append(list, e)
      BY <1>3 DEF Push
    <2> QED
      BY <1>1, <1>3, <2>1, Numbers DEF Push
  <1>4. CASE Expire
    BY <1>1, <1>4, Numbers DEF Expire
  <1>5. CASE ReadEntry \/ ReadReplyLost
    <2>1. list # <<>> /\ list' = Tail(list) /\ now' = now /\ pushed' = pushed
      BY <1>5 DEF ReadEntry, ReadReplyLost
    <2> QED
      BY <1>1, <2>1, Numbers
  <1>6. CASE UNCHANGED <<now, listVars>>
    BY <1>1, <1>6 DEF listVars
  <1> QED
    BY <1>2, <1>3, <1>4, <1>5, <1>6
    DEF Next, Loop, TickerFires, FirstSelect, GoOn, SeesDone, ReadNil,
        HandleUnprocessable, HandleEntry, Restart, TickCloses, ReadError,
        Cancel, Boot, ProcessEnds, vars

\* So do the place in the loop, the context and the entry at hand.
LEMMA LoopStep ==
  ASSUME TypeOK, [Next]_vars
  PROVE  /\ pc' \in InRun \cup {"off", "start", "backoff", "stopped"}
         /\ cancelled' \in BOOLEAN
         /\ hand' \in Entries /\ due' \in BOOLEAN
  <1>1. pc' \in InRun \cup {"off", "start", "backoff", "stopped"}
    <2>1. pc \in InRun \cup {"off", "start", "backoff", "stopped"}
      BY DEF TypeOK
    <2>2. CASE HandleEntry
      <3>1. pc' \in {"top", "backoff"}
        BY <2>2 DEF HandleEntry
      <3> QED
        BY <3>1 DEF InRun
    <2> QED
      BY <2>1, <2>2
      DEF InRun, Next, Loop, ClockTick, Push, Expire, TickerFires, FirstSelect,
          GoOn, SeesDone, ReadNil, HandleUnprocessable, Restart, TickCloses,
          ReadEntry, ReadError, ReadReplyLost, Cancel, Boot, ProcessEnds, vars
  <1>2. cancelled' \in BOOLEAN
    <2>1. cancelled' = cancelled \/ cancelled' = TRUE \/ cancelled' = FALSE
      BY DEF Next, Loop, ClockTick, Push, Expire, TickerFires, FirstSelect,
             GoOn, SeesDone, ReadNil, HandleUnprocessable, HandleEntry, Restart,
             TickCloses, ReadEntry, ReadError, ReadReplyLost, Cancel, Boot,
             ProcessEnds, vars
    <2> QED
      BY <2>1, Zenon DEF TypeOK
  <1>3. hand' \in Entries
    <2>1. CASE ReadEntry
      <3>1. list \in Seq(Entries) /\ list # <<>> /\ hand' = Head(list)
        BY <2>1 DEF TypeOK, ReadEntry
      <3> QED
        BY <3>1
    <2>2. CASE hand' = hand \/ hand' = NoEntry
      BY <2>2, NoEntryType, Zenon DEF TypeOK
    <2> QED
      BY <2>1, <2>2
      DEF Next, Loop, ClockTick, Push, Expire, TickerFires, FirstSelect, GoOn,
          SeesDone, ReadNil, HandleUnprocessable, HandleEntry, Restart,
          TickCloses, ReadError, ReadReplyLost, Cancel, Boot, ProcessEnds, vars
  <1>4. due' \in BOOLEAN
    <2>1. due' = due \/ due' = TRUE \/ due' = FALSE
      BY DEF Next, Loop, ClockTick, Push, Expire, TickerFires, FirstSelect,
             GoOn, SeesDone, ReadNil, HandleUnprocessable, HandleEntry, Restart,
             TickCloses, ReadEntry, ReadError, ReadReplyLost, Cancel, Boot,
             ProcessEnds, vars
    <2> QED
      BY <2>1, Zenon DEF TypeOK
  <1> QED
    BY <1>1, <1>2, <1>3, <1>4

\* And the aggregator with its history.
LEMMA AggregatorStep ==
  ASSUME TypeOK, RunnerIsBooted, [Next]_vars
  PROVE  /\ current' \in Periods \cup {Zero} /\ count' \in Nat
         /\ partial' \in BOOLEAN /\ boots' \in 0 .. MaxBoots
         /\ observed' \in Nat /\ sums' \in Seq(Summaries)
  <1>1. CASE HandleEntry
    <2>1. PICK bucket \in Periods :
            /\ bucket = (IF hand.stamp = Zero THEN now ELSE hand.stamp)
            /\ Observe(bucket)
      BY <1>1, BucketType DEF HandleEntry
    <2>2. boots' = boots
      BY <1>1 DEF HandleEntry
    <2>4. observed' \in Nat
      BY <1>1 DEF HandleEntry, TypeOK
    <2>5. boots' \in 0 .. MaxBoots
      BY <2>2 DEF TypeOK
    <2>6. /\ current' \in Periods /\ count' \in Nat /\ partial' \in BOOLEAN
          /\ sums' \in Seq(Summaries)
      BY <2>1, ObserveType
    <2> QED
      BY <2>4, <2>5, <2>6
  <1>2. CASE TickCloses
    <2>1. /\ current # Zero /\ sums' = Append(sums, Closed) /\ current' = now
          /\ count' = 0 /\ partial' = FALSE
          /\ observed' = observed /\ boots' = boots
      BY <1>2 DEF TickCloses, TickFindsPeriod, Tick, LaterPeriod
    <2>2. sums' \in Seq(Summaries)
      BY <2>1, ClosedType DEF TypeOK
    <2> QED
      BY <2>1, <2>2 DEF TypeOK
  <1>3. CASE Boot
    <2>1. boots' \in 0 .. MaxBoots
      BY <1>3, Numbers DEF Boot, TypeOK
    <2>2. /\ current' = Zero /\ count' = 0 /\ partial' = TRUE /\ observed' = 0
          /\ sums' = sums
      BY <1>3 DEF Boot, NewAggregator
    <2> QED
      BY <2>1, <2>2 DEF TypeOK
  <1>4. CASE UNCHANGED <<aggVars, boots>>
    BY <1>4, AggStaysTyped
  <1> QED
    BY <1>1, <1>2, <1>3, <1>4, StepKinds

LEMMA TypeStep ==
  ASSUME TypeOK, RunnerIsBooted, [Next]_vars PROVE TypeOK'
  <1>1. /\ now' \in Periods
        /\ list' \in Seq(Entries) /\ Len(list') <= ListCap
        /\ pushed' \in 0 .. MaxPush
    BY ListStep
  <1>2. /\ pc' \in InRun \cup {"off", "start", "backoff", "stopped"}
        /\ cancelled' \in BOOLEAN
        /\ hand' \in Entries /\ due' \in BOOLEAN
    BY LoopStep
  <1>3. /\ current' \in Periods \cup {Zero} /\ count' \in Nat
        /\ partial' \in BOOLEAN /\ boots' \in 0 .. MaxBoots
        /\ observed' \in Nat /\ sums' \in Seq(Summaries)
    BY AggregatorStep
  <1> QED
    BY <1>1, <1>2, <1>3, Zenon DEF TypeOK
-----------------------------------------------------------------------------
(***************************************************************************)
(* What a step does to the periods of the process.                         *)
(***************************************************************************)
\* The open period is closed, and a later one opened, without the mark; it counts
\* the entry that is observed, if it is one that closes the period.
Moves ==
  /\ current # Zero /\ current' \in Periods /\ current < current'
  /\ sums' = Append(sums, Closed) /\ ~partial'
  /\ count' = observed' - observed
  /\ boots' = boots

\* The open period goes on, or the first one is opened.
Stays ==
  /\ sums' = sums /\ partial' = partial
  /\ count' = count + (observed' - observed)
  /\ boots' = boots
  /\ \/ current' = current
     \/ current = Zero

\* A new process begins with no period.
Begins ==
  /\ sums' = sums /\ partial' /\ current' = Zero
  /\ count' = 0 /\ observed' = 0
  /\ boots' = boots + 1

\* Nothing else happens to them: the clock moves past the open period before
\* Tick closes it, and an entry of an older period is counted in the open one.
LEMMA PeriodStep ==
  ASSUME TypeOK, [Next]_vars PROVE Moves \/ Stays \/ Begins
  <1>1. CASE HandleEntry
    <2>1. PICK bucket \in Periods :
            Observe(bucket)
      BY <1>1, BucketType DEF HandleEntry
    <2>2. boots' = boots /\ observed' = observed + 1 /\ observed \in Nat
      BY <1>1 DEF HandleEntry, TypeOK
    <2>3. CASE LaterPeriod(bucket)
      <3>1. /\ sums' = Append(sums, Closed) /\ current' = bucket
            /\ count' = 1 /\ partial' = FALSE
        BY <2>1, <2>3 DEF Observe
      <3>2. current # Zero /\ current < bucket
        BY <2>3, Numbers DEF LaterPeriod, TypeOK
      <3>3. count' = observed' - observed
        BY <2>2, <3>1
      <3> QED
        BY <2>1, <2>2, <3>1, <3>2, <3>3 DEF Moves
    <2>4. CASE ~LaterPeriod(bucket)
      <3>1. /\ current' = IF current = Zero THEN bucket ELSE current
            /\ partial' = partial /\ sums' = sums /\ count' = count + 1
        BY <2>1, <2>4 DEF Observe
      <3>2. count' = count + (observed' - observed)
        BY <2>2, <3>1 DEF TypeOK
      <3> QED
        BY <2>1, <2>2, <3>1, <3>2 DEF Stays
    <2> QED
      BY <2>3, <2>4
  <1>2. CASE TickCloses
    <2>1. /\ sums' = Append(sums, Closed) /\ current' = now
          /\ count' = 0 /\ observed' = observed
          /\ partial' = FALSE /\ boots' = boots
      BY <1>2 DEF TickCloses, Tick
    <2>2. current # Zero /\ now \in Periods /\ current < now
      BY <1>2, Numbers DEF TickCloses, TickFindsPeriod, LaterPeriod, TypeOK
    <2>3. count' = observed' - observed
      BY <2>1 DEF TypeOK
    <2> QED
      BY <2>1, <2>2, <2>3 DEF Moves
  <1>3. CASE Boot
    BY <1>3 DEF Boot, NewAggregator, Begins
  <1>4. CASE UNCHANGED <<aggVars, boots>>
    <2>1. count' = count + (observed' - observed)
      BY <1>4 DEF aggVars, TypeOK
    <2> QED
      BY <1>4, <2>1 DEF aggVars, Stays
  <1> QED
    BY <1>1, <1>2, <1>3, <1>4, StepKinds

LEMMA BootedStep ==
  ASSUME TypeOK, RunnerIsBooted, [Next]_vars PROVE RunnerIsBooted'
  <1>1. boots \in Nat
    BY Numbers DEF TypeOK
  <1>2. CASE Boot
    BY <1>1, <1>2 DEF Boot, RunnerIsBooted
  <1>3. CASE boots' = boots /\ (pc' # "off" => pc # "off")
    BY <1>3 DEF RunnerIsBooted
  <1> QED
    BY <1>2, <1>3
    DEF Next, Loop, ClockTick, Push, Expire, TickerFires, FirstSelect, GoOn,
        SeesDone, ReadNil, HandleUnprocessable, HandleEntry, Restart,
        TickCloses, ReadEntry, ReadError, ReadReplyLost, Cancel, ProcessEnds,
        vars

\* The summaries after a close: the old ones, and the one of the open period.
LEMMA ClosedIsLast ==
  ASSUME TypeOK, Moves, NEW i \in DOMAIN sums'
  PROVE  \/ i \in DOMAIN sums /\ sums'[i] = sums[i] /\ i < Len(sums')
         \/ i = Len(sums') /\ sums'[i] = Closed
  <1>1. sums \in Seq(Summaries) /\ Closed \in Summaries
    BY ClosedType DEF TypeOK, Moves
  <1> HIDE DEF Closed
  <1>2. sums' = Append(sums, Closed)
    BY DEF Moves
  <1> QED
    BY <1>1, <1>2

\* The fields of the summary that closes the open period.
LEMMA ClosedFields ==
  /\ Closed.by = boots /\ Closed.period = current /\ Closed.partial = partial
  /\ Closed.count = count /\ Closed.upto = observed
  BY DEF Closed

\* The fields of the summaries that are there are numbers.
LEMMA SummaryFields ==
  ASSUME TypeOK, NEW i \in DOMAIN sums
  PROVE  /\ sums[i].by \in Nat /\ sums[i].period \in Periods
         /\ sums[i].upto \in Nat
  <1>1. sums[i] \in Summaries
    BY DEF TypeOK
  <1> QED
    BY <1>1 DEF Summaries
-----------------------------------------------------------------------------
(***************************************************************************)
(* The periods of a process advance.                                       *)
(***************************************************************************)
LEMMA HistoryStep ==
  ASSUME TypeOK, HistoryIsBooted, [Next]_vars PROVE HistoryIsBooted'
  <1> SUFFICES ASSUME NEW i \in DOMAIN sums' PROVE sums'[i].by <= boots'
    BY DEF HistoryIsBooted
  <1>1. boots \in Nat
    BY Numbers DEF TypeOK
  <1>2. CASE Moves
    <2>1. boots' = boots
      BY <1>2 DEF Moves
    <2>2. CASE i \in DOMAIN sums /\ sums'[i] = sums[i]
      BY <2>1, <2>2 DEF HistoryIsBooted
    <2>3. CASE sums'[i] = Closed
      BY <1>1, <2>1, <2>3, ClosedFields
    <2> QED
      BY <1>2, <2>2, <2>3, ClosedIsLast
  <1>3. CASE Stays \/ Begins
    <2>1. sums' = sums /\ (boots' = boots \/ boots' = boots + 1)
      BY <1>3 DEF Stays, Begins
    <2>2. i \in DOMAIN sums
      BY <2>1
    <2>3. sums[i].by \in Nat /\ sums[i].by <= boots
      BY <2>2, SummaryFields DEF HistoryIsBooted
    <2> QED
      BY <1>1, <2>1, <2>3
  <1> QED
    BY <1>2, <1>3, PeriodStep

LEMMA OpenStep ==
  ASSUME TypeOK, HistoryIsBooted, OpenIsLast, [Next]_vars PROVE OpenIsLast'
  <1> SUFFICES ASSUME NEW i \in DOMAIN sums', sums'[i].by = boots'
               PROVE  sums'[i].period < current'
    BY DEF OpenIsLast
  <1>1. boots \in Nat /\ current \in Nat
    BY Numbers DEF TypeOK
  <1>2. CASE Moves
    <2>1. boots' = boots /\ current < current'
      BY <1>2 DEF Moves
    <2>2. current' \in Nat
      BY <1>2, Numbers DEF Moves
    <2>3. CASE i \in DOMAIN sums /\ sums'[i] = sums[i]
      <3>1. sums[i].period < current /\ sums[i].period \in Nat
        BY <2>1, <2>3, SummaryFields, Numbers DEF OpenIsLast
      <3> QED
        BY <1>1, <2>1, <2>2, <2>3, <3>1
    <2>4. CASE sums'[i] = Closed
      BY <2>1, <2>4, ClosedFields
    <2> QED
      BY <1>2, <2>3, <2>4, ClosedIsLast
  <1>3. CASE Stays
    <2>1. sums' = sums /\ boots' = boots /\ (current' = current \/ current = Zero)
      BY <1>3 DEF Stays
    <2>2. i \in DOMAIN sums /\ sums[i].period < current
      BY <2>1 DEF OpenIsLast
    <2>3. sums[i].period \in Nat
      BY <2>2, SummaryFields, Numbers
    <2>4. current # Zero
      BY <2>2, <2>3 DEF Zero
    <2> QED
      BY <2>1, <2>2, <2>4
  <1>4. CASE Begins
    <2>1. sums' = sums /\ boots' = boots + 1
      BY <1>4 DEF Begins
    <2>2. i \in DOMAIN sums /\ sums[i].by = boots + 1
      BY <2>1
    <2>3. sums[i].by <= boots
      BY <2>2 DEF HistoryIsBooted
    <2> QED
      BY <1>1, <2>2, <2>3
  <1> QED
    BY <1>2, <1>3, <1>4, PeriodStep

LEMMA AdvanceStep ==
  ASSUME TypeOK, OpenIsLast, PeriodsAdvance, [Next]_vars PROVE PeriodsAdvance'
  <1> SUFFICES ASSUME NEW i \in DOMAIN sums', NEW j \in DOMAIN sums',
                      i < j, sums'[i].by = sums'[j].by
               PROVE  sums'[i].period < sums'[j].period
    BY DEF PeriodsAdvance
  <1>1. CASE Moves
    <2>1. i \in DOMAIN sums /\ sums'[i] = sums[i]
      <3>1. Len(sums') \in Nat /\ i \in 1 .. Len(sums') /\ j \in 1 .. Len(sums')
        BY <1>1, ClosedType DEF Moves, TypeOK
      <3>2. i # Len(sums')
        BY <3>1
      <3> QED
        BY <1>1, <3>2, ClosedIsLast
    <2>2. CASE j \in DOMAIN sums /\ sums'[j] = sums[j]
      BY <2>1, <2>2 DEF PeriodsAdvance
    <2>3. CASE sums'[j] = Closed
      BY <2>1, <2>3, ClosedFields DEF OpenIsLast
    <2> QED
      BY <1>1, <2>2, <2>3, ClosedIsLast
  <1>2. CASE Stays \/ Begins
    <2>1. sums' = sums
      BY <1>2 DEF Stays, Begins
    <2> QED
      BY <2>1 DEF PeriodsAdvance
  <1> QED
    BY <1>1, <1>2, PeriodStep
-----------------------------------------------------------------------------
(***************************************************************************)
(* Every entry is counted.                                                 *)
(***************************************************************************)
\* A close leaves the summaries that are there, and what was observed before them.
LEMMA UptoStays ==
  ASSUME TypeOK, Moves, NEW i \in 1 .. Len(sums) + 1, NEW b
  PROVE  UptoBefore(i, b)' = UptoBefore(i, b)
  <1>1. sums \in Seq(Summaries) /\ Closed \in Summaries
    BY ClosedType DEF TypeOK, Moves
  <1>2. sums' = Append(sums, Closed)
    BY DEF Moves
  <1> HIDE DEF Closed
  <1>3. i > 1 => sums'[i - 1] = sums[i - 1]
    BY <1>1, <1>2
  <1> QED
    BY <1>3 DEF UptoBefore

LEMMA CountStep ==
  ASSUME TypeOK, RunnerIsBooted, HistoryIsBooted, EveryEntryIsCounted,
         [Next]_vars
  PROVE  EveryEntryIsCounted'
  <1>1. /\ sums \in Seq(Summaries) /\ Len(sums) \in Nat
        /\ count \in Nat /\ observed \in Nat /\ boots \in Nat
    BY Numbers DEF TypeOK
  <1>2. CASE Moves
    <2>1. /\ sums' = Append(sums, Closed) /\ boots' = boots
          /\ count' = observed' - observed
      BY <1>2 DEF Moves
    <2>2. Closed \in Summaries
      BY <1>2, ClosedType DEF Moves
    <2>3. /\ Len(sums') = Len(sums) + 1 /\ DOMAIN sums' = 1 .. Len(sums) + 1
          /\ sums'[Len(sums) + 1] = Closed
      <3> HIDE DEF Closed
      <3> QED
        BY <1>1, <2>1, <2>2
    <2>4. ASSUME NEW i \in DOMAIN sums'
          PROVE  sums'[i].count = sums'[i].upto - UptoBefore(i, sums[i].by)'
      <3>1. PICK b : b = sums'[i].by
        OBVIOUS
      <3>2. UptoBefore(i, b)' = UptoBefore(i, b)
        BY <1>2, <2>3, UptoStays
      <3>3. CASE i \in DOMAIN sums /\ sums'[i] = sums[i]
        BY <3>1, <3>2, <3>3 DEF EveryEntryIsCounted, UptoBefore
      <3>4. CASE i = Len(sums') /\ sums'[i] = Closed
        <4>1. count = observed - UptoBefore(i, b)
          BY <2>3, <3>1, <3>4, ClosedFields DEF EveryEntryIsCounted
        <4> QED
          BY <3>1, <3>2, <3>4, <4>1, ClosedFields DEF UptoBefore
      <3> QED
        BY <1>2, <3>3, <3>4, ClosedIsLast
    <2>5. UptoBefore(Len(sums) + 1, boots)' = observed
      <3>1. Len(sums') + 1 > 1 /\ sums'[(Len(sums') + 1) - 1] = Closed
        BY <1>1, <2>3
      <3> QED
        BY <2>1, <3>1, ClosedFields DEF UptoBefore
    <2> QED
      BY <2>1, <2>4, <2>5 DEF EveryEntryIsCounted
  <1>3. CASE Stays
    <2>1. /\ sums' = sums /\ boots' = boots
          /\ count' = count + (observed' - observed)
      BY <1>3 DEF Stays
    <2>2. observed' \in Nat
      BY AggregatorStep
    <2>3. UptoBefore(Len(sums) + 1, boots) \in Nat
      BY <1>1, SummaryFields DEF UptoBefore
    <2>4. count' = observed' - UptoBefore(Len(sums) + 1, boots)
      BY <1>1, <2>1, <2>2, <2>3 DEF EveryEntryIsCounted
    <2> QED
      BY <2>1, <2>4 DEF EveryEntryIsCounted, UptoBefore
  <1>4. CASE Begins
    <2>1. sums' = sums /\ boots' = boots + 1 /\ count' = 0 /\ observed' = 0
      BY <1>4 DEF Begins
    <2>2. Len(sums) >= 1 => sums[Len(sums)].by # boots + 1
      BY <1>1, SummaryFields DEF HistoryIsBooted
    <2>3. UptoBefore(Len(sums) + 1, boots)' = 0
      BY <1>1, <2>1, <2>2 DEF UptoBefore
    <2> QED
      BY <2>1, <2>3 DEF EveryEntryIsCounted, UptoBefore
  <1> QED
    BY <1>2, <1>3, <1>4, PeriodStep

-----------------------------------------------------------------------------
LEMMA InitInv == Init => IInv
  <1> SUFFICES ASSUME Init PROVE IInv
    OBVIOUS
  <1>1. sums = <<>> /\ current = Zero /\ partial = TRUE /\ pc = "off"
    BY DEF Init
  <1>2. TypeOK
    <2>1. now \in Periods /\ pushed \in 0 .. MaxPush /\ boots \in 0 .. MaxBoots
          /\ count \in Nat /\ observed \in Nat
      BY Numbers DEF Init
    <2>2. list \in Seq(Entries) /\ Len(list) <= ListCap
      BY Numbers DEF Init
    <2>3. hand \in Entries /\ cancelled \in BOOLEAN /\ due \in BOOLEAN
      BY NoEntryType DEF Init
    <2>4. sums \in Seq(Summaries)
      BY DEF Init
    <2> QED
      BY <1>1, <2>1, <2>2, <2>3, <2>4 DEF TypeOK
  <1>3. RunnerIsBooted
    BY <1>1 DEF RunnerIsBooted
  <1>4. HistoryIsBooted /\ OpenIsLast /\ PeriodsAdvance
    BY <1>1 DEF HistoryIsBooted, OpenIsLast, PeriodsAdvance
  <1>5. EveryEntryIsCounted
    BY <1>1 DEF Init, EveryEntryIsCounted, UptoBefore
  <1> QED
    BY <1>2, <1>3, <1>4, <1>5 DEF IInv

LEMMA Invariant == Spec => []IInv
  <1>1. ASSUME IInv, [Next]_vars PROVE IInv'
    BY <1>1, TypeStep, BootedStep, HistoryStep, OpenStep, AdvanceStep,
       CountStep DEF IInv
  <1> QED
    BY <1>1, InitInv, PTL DEF Spec

\* Every variable keeps its type: the list stays within the cap, and what the
\* aggregator emits is a summary of a real period.
THEOREM TypeCorrect == Spec => []TypeOK
  BY Invariant, PTL DEF IInv

\* Every entry handed to Observe is counted exactly once, in the summary closed
\* next or in the open period (Aggregator.Observe, Tick and closeLocked).
THEOREM NothingIsMiscounted == Spec => []EveryEntryIsCounted
  BY Invariant, PTL DEF IInv

\* The periods a process emits strictly advance (Aggregator.Observe and Tick),
\* whatever stamps the entries carry, whatever is lost and however often the
\* loop is restarted: no period has two summaries of one process.
THEOREM PeriodsAreOnce == Spec => []PeriodsAdvance
  BY Invariant, PTL DEF IInv
=============================================================================
