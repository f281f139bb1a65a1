------------------------------ MODULE LogDrain ------------------------------
(***************************************************************************)
(* The log drain agent: the loop of LogDrainAgent.Run                      *)
(* (internal/agent/logdrain.go) over ListSource.Read                       *)
(* (internal/ingest/redis/list.go) and the Aggregator                      *)
(* (internal/housekeeping/summarize.go), with restarts of the process.     *)
(*                                                                         *)
(* Time is counted in summary periods.  Of an entry only the period it was *)
(* received in and whether it parses are kept, of a summary its period,    *)
(* its count and its partial mark.  A summary counts as emitted when emit  *)
(* has logged it; the dispatch that follows is Dispatch's.                 *)
(***************************************************************************)
EXTENDS Integers, Sequences

CONSTANTS
  ListCap,    \* length at which the gateway's script refuses a log entry
  Delay,      \* periods an entry may take from its receipt to the list
  Skew,       \* periods the gateway's clock may be ahead
  Unstamped,  \* an entry may lack received_at
  Lossy,      \* the key may expire, and a reply with an entry may be lost
  MaxPeriod,  \* bound: periods in a behaviour
  MaxPush,    \* bound: entries pushed
  MaxBoots    \* bound: processes started

ASSUME LogDrainAssumption ==
  /\ ListCap \in Nat \ {0} /\ MaxPeriod \in Nat \ {0}
  /\ Delay \in Nat /\ Skew \in Nat /\ MaxPush \in Nat /\ MaxBoots \in Nat
  /\ Unstamped \in BOOLEAN /\ Lossy \in BOOLEAN

\* The zero time of Go: periods are numbered from 1.
Zero == 0
Periods == 1 .. MaxPeriod

Entries == [stamp : Periods \cup {Zero}, ok : BOOLEAN]
\* The fields by and upto are history: the process that emitted the summary, and
\* how many entries it had observed by then.
Summaries == [by : Nat, period : Periods, count : Nat, partial : BOOLEAN,
              upto : Nat]
NoEntry == [stamp |-> Zero, ok |-> FALSE]

VARIABLES
  now,        \* the current period
  list,       \* the log list
  pushed,     \* entries pushed so far
  pc,         \* where Run is, or supervise around it
  cancelled,  \* the root context is cancelled
  hand,       \* the entry Read has returned
  current,    \* Aggregator.current, the open period
  count,      \* Aggregator.count
  partial,    \* Aggregator.partial
  due,        \* the ticker of this Run has fired and its tick is not taken
  boots,      \* history: processes started
  observed,   \* history: entries this process has observed
  sums        \* history: summaries emitted

listVars == <<list, pushed>>
aggVars == <<current, count, partial, observed, sums>>
vars == <<now, listVars, pc, cancelled, hand, due, aggVars, boots>>

\* Run is past its first select, and not over.
InRun == {"top", "read", "observe"}

\* Types of every variable.
TypeOK ==
  /\ now \in Periods
  /\ list \in Seq(Entries) /\ Len(list) <= ListCap
  /\ pushed \in 0 .. MaxPush
  /\ pc \in InRun \cup {"off", "start", "backoff", "stopped"}
  /\ cancelled \in BOOLEAN
  /\ hand \in Entries
  /\ due \in BOOLEAN
  /\ current \in Periods \cup {Zero}
  /\ count \in Nat
  /\ partial \in BOOLEAN
  /\ boots \in 0 .. MaxBoots
  /\ observed \in Nat
  /\ sums \in Seq(Summaries)

Init ==
  /\ now = 1
  /\ list = <<>> /\ pushed = 0
  /\ pc = "off" /\ cancelled = FALSE /\ hand = NoEntry /\ due = FALSE
  /\ current = Zero /\ count = 0 /\ partial = TRUE
  /\ boots = 0
  /\ observed = 0 /\ sums = <<>>

-----------------------------------------------------------------------------
(***************************************************************************)
(* The environment: the clock, and the gateway and the key of the list.    *)
(***************************************************************************)
ClockTick ==
  /\ now < MaxPeriod
  /\ now' = now + 1
  /\ UNCHANGED <<listVars, pc, cancelled, hand, due, aggVars, boots>>

\* A full list refuses the entry, which changes nothing here.
Push ==
  /\ Len(list) < ListCap
  /\ pushed < MaxPush
  /\ pushed' = pushed + 1
  /\ \E e \in Entries :
       /\ IF e.stamp = Zero THEN Unstamped
          ELSE e.stamp \in (now - Delay) .. (now + Skew)
       /\ list' = Append(list, e)
  /\ UNCHANGED <<now, pc, cancelled, hand, due, aggVars, boots>>

\* The sliding time to live of the key ran out.
Expire ==
  /\ Lossy
  /\ list # <<>>
  /\ list' = <<>>
  /\ UNCHANGED <<now, pushed, pc, cancelled, hand, due, aggVars, boots>>

-----------------------------------------------------------------------------
(***************************************************************************)
(* The Aggregator, in memory.                                              *)
(***************************************************************************)
NewAggregator == current' = Zero /\ count' = 0 /\ partial' = TRUE

\* closeLocked: the summary of the open period.
Closed == [by |-> boots, period |-> current, count |-> count,
           partial |-> partial, upto |-> observed]

LaterPeriod(bucket) == current # Zero /\ bucket > current

\* Mutant: the entry that closes a period is not counted in the next.
ObserveLosesFirst(bucket) ==
  IF LaterPeriod(bucket)
  THEN /\ sums' = Append(sums, Closed)
       /\ current' = bucket /\ count' = 0 /\ partial' = FALSE
  ELSE /\ current' = IF current = Zero THEN bucket ELSE current
       /\ count' = count + 1
       /\ UNCHANGED <<partial, sums>>

Observe(bucket) ==
  IF LaterPeriod(bucket)
  THEN /\ sums' = Append(sums, Closed)
       /\ current' = bucket /\ count' = 1 /\ partial' = FALSE
  ELSE /\ current' = IF current = Zero THEN bucket ELSE current
       /\ count' = count + 1
       /\ UNCHANGED <<partial, sums>>

\* Mutant: the period after the current one is opened.
TickOpensNext ==
  /\ sums' = Append(sums, Closed)
  /\ current' = now + 1 /\ count' = 0 /\ partial' = FALSE

\* Mutant: the open period stays open.
TickKeepsPeriod ==
  /\ sums' = Append(sums, Closed)
  /\ current' = current /\ count' = 0 /\ partial' = FALSE

\* Tick, when the clock has moved past the open period.
Tick ==
  /\ sums' = Append(sums, Closed)
  /\ current' = now /\ count' = 0 /\ partial' = FALSE

-----------------------------------------------------------------------------
(***************************************************************************)
(* Run.  Its ticker is its own and fires every second: not before the      *)
(* first select, which comes at once, and after that at any time.  The     *)
(* channel holds one tick.  An emit that panics ends Run; the aggregator,  *)
(* which is the agent's, outlives it.                                      *)
(***************************************************************************)
FirstSelect ==
  /\ pc = "start"
  /\ ~cancelled
  /\ pc' = "read"
  /\ UNCHANGED <<now, listVars, cancelled, hand, due, aggVars, boots>>

TickerFires ==
  /\ pc \in InRun
  /\ ~due
  /\ due' = TRUE
  /\ UNCHANGED <<now, listVars, pc, cancelled, hand, aggVars, boots>>

\* Mutant: a period that saw no entry is not closed.
TickFindsCount == due /\ LaterPeriod(now) /\ count > 0

\* The tick finds a period to close.
TickFindsPeriod == due /\ LaterPeriod(now)

TickCloses ==
  /\ pc = "top"
  /\ TickFindsPeriod
  /\ Tick
  /\ due' = FALSE
  /\ pc' \in {"read", "backoff"}
  /\ UNCHANGED <<now, listVars, cancelled, hand, observed, boots>>

\* Mutant: the list is read only when the open period is over.
DrainAtPeriodEnd ==
  /\ pc = "top"
  /\ LaterPeriod(now) /\ ~due
  /\ pc' = "read"
  /\ due' = FALSE
  /\ UNCHANGED <<now, listVars, cancelled, hand, aggVars, boots>>

\* No tick is there and the context is not done, or Tick had nothing to close.
GoOn ==
  /\ pc = "top"
  /\ ~TickFindsPeriod
  /\ due \/ ~cancelled
  /\ pc' = "read"
  /\ due' = FALSE
  /\ UNCHANGED <<now, listVars, cancelled, hand, aggVars, boots>>

\* The select or the read saw the context done.
SeesDone ==
  /\ pc \in {"start", "top", "read"}
  /\ cancelled
  /\ pc' = "stopped"
  /\ UNCHANGED <<now, listVars, cancelled, hand, due, aggVars, boots>>

ReadEntry ==
  /\ pc = "read"
  /\ list # <<>>
  /\ hand' = Head(list)
  /\ list' = Tail(list)
  /\ pc' = "observe"
  /\ UNCHANGED <<now, pushed, cancelled, due, aggVars, boots>>

\* BLPOP timed out.
ReadNil ==
  /\ pc = "read"
  /\ list = <<>>
  /\ pc' = "top"
  /\ UNCHANGED <<now, listVars, cancelled, hand, due, aggVars, boots>>

ReadError ==
  /\ pc = "read"
  /\ ~cancelled
  /\ pc' = "backoff"
  /\ UNCHANGED <<now, listVars, cancelled, hand, due, aggVars, boots>>

\* Redis popped an entry and the reply did not arrive: the client asks again,
\* or gives up with an error.
ReadReplyLost ==
  /\ Lossy
  /\ pc = "read"
  /\ list # <<>>
  /\ list' = Tail(list)
  /\ pc' \in {"read", IF cancelled THEN "stopped" ELSE "backoff"}
  /\ UNCHANGED <<now, pushed, cancelled, hand, due, aggVars, boots>>

\* Logged and counted as unprocessable, and gone.
HandleUnprocessable ==
  /\ pc = "observe"
  /\ ~hand.ok
  /\ pc' = "top"
  /\ hand' = NoEntry
  /\ UNCHANGED <<now, listVars, cancelled, due, aggVars, boots>>

HandleEntry ==
  /\ pc = "observe"
  /\ hand.ok
  /\ Observe(IF hand.stamp = Zero THEN now ELSE hand.stamp)
  /\ observed' = observed + 1
  /\ pc' \in {"top"} \cup IF sums' # sums THEN {"backoff"} ELSE {}
  /\ hand' = NoEntry
  /\ UNCHANGED <<now, listVars, cancelled, due, boots>>

-----------------------------------------------------------------------------
(***************************************************************************)
(* supervise and the process.                                              *)
(***************************************************************************)
Restart ==
  /\ pc = "backoff"
  /\ pc' = IF cancelled THEN "stopped" ELSE "start"
  /\ due' = FALSE
  /\ UNCHANGED <<now, listVars, cancelled, hand, aggVars, boots>>

Cancel ==
  /\ pc \notin {"off", "stopped"}
  /\ ~cancelled
  /\ cancelled' = TRUE
  /\ UNCHANGED <<now, listVars, pc, hand, due, aggVars, boots>>

Boot ==
  /\ pc = "off"
  /\ boots < MaxBoots
  /\ boots' = boots + 1
  /\ NewAggregator
  /\ observed' = 0
  /\ pc' = "start"
  /\ due' = FALSE
  /\ UNCHANGED <<now, listVars, cancelled, hand, sums>>

\* After the agent stopped, after the grace expired, or killed.
ProcessEnds ==
  /\ pc # "off"
  /\ pc' = "off"
  /\ cancelled' = FALSE
  /\ hand' = NoEntry
  /\ due' = FALSE
  /\ UNCHANGED <<now, listVars, aggVars, boots>>

Loop ==
  \/ FirstSelect \/ TickCloses \/ GoOn \/ SeesDone
  \/ ReadNil \/ HandleUnprocessable \/ HandleEntry
  \/ Restart

Next ==
  \/ ClockTick \/ Push \/ Expire
  \/ TickerFires \/ Loop \/ ReadEntry \/ ReadError \/ ReadReplyLost
  \/ Cancel \/ Boot \/ ProcessEnds

Spec == Init /\ [][Next]_vars

(***************************************************************************)
(* Fairness: the loop goes on and supervise restarts it; a Redis that is   *)
(* asked again and again answers some time.  The ticker fires if its Run   *)
(* lasts: weak fairness, as the end of a Run takes its ticker with it, so  *)
(* nothing makes it fire in Runs that end one after the other.  Nothing is *)
(* assumed of the clock, the gateway, signals or the process.              *)
(***************************************************************************)
FairSpec ==
  /\ Spec
  /\ WF_vars(Loop)
  /\ WF_vars(TickerFires)
  /\ SF_vars(ReadEntry)

-----------------------------------------------------------------------------
\* Entries that process b had observed when summary i - 1, if its own, was closed.
UptoBefore(i, b) == IF i > 1 /\ sums[i - 1].by = b THEN sums[i - 1].upto ELSE 0

\* Every entry that Run hands to Observe is counted once, in the summary that is
\* closed next or in the open period, whatever order the stamps come in and
\* however often Run fails (Aggregator.Observe, Tick and closeLocked): a summary
\* counts what was observed since the one before it.
EveryEntryIsCounted ==
  /\ \A i \in DOMAIN sums :
       sums[i].count = sums[i].upto - UptoBefore(i, sums[i].by)
  /\ count = observed - UptoBefore(Len(sums) + 1, boots)

\* A process never emits a period twice and never goes back to one (Observe and
\* Tick): "identity is the period", so a second summary would be absorbed.
PeriodsAdvance ==
  \A i, j \in DOMAIN sums :
    (i < j /\ sums[i].by = sums[j].by) => sums[i].period < sums[j].period

Up == pc # "off" /\ ~cancelled

\* "A ticker closes a quiet period even when no entry arrives to trigger it"
\* (LogDrainAgent.Run; Aggregator.Tick): once the clock has left the open period,
\* a Run that goes on closes it, whatever it reads.  A Run that ends first takes
\* its ticker with it, and the next one owes the same.
PeriodCloses ==
  \A p \in Periods :
    (Up /\ current = p /\ now > p) ~> (~Up \/ pc = "backoff" \/ current > p)

\* Draining is continuous (LogDrainAgent.Run; FR-018c): a list at the cap, where
\* the gateway's writes are refused, gets room while the process is up.
FullListIsDrained ==
  (Up /\ Len(list) = ListCap) ~> (~Up \/ Len(list) < ListCap)
=============================================================================
