# A TLA+ model of pulse-conflux

pulse-conflux is one Go process that hosts agents. Stream agents read events
from Redis streams and dispatch them to destinations, a log drain agent turns a
Redis list into summaries, periodic agents do housekeeping, and a monitor watches
lag and tells support. This directory holds TLA+ modules translated from that
code, the TLC configurations that check them on small instances, an abstract
specification that the stream agent is shown to implement, and TLAPS proofs, for
every instance, of that refinement and of every safety property the runs check.

`PROJECT.json` maps every definition to the source lines it stands for, and lists
runs, mutants, findings, hazards and theorems.

## 1. Inventory

| Component (source) | State | Operations | Works with |
|---|---|---|---|
| Stream agent (`internal/agent/stream.go`) | the batch in memory, the position in it | `Run`, `handle` | reads a source, calls the dispatcher, acks the delivery |
| Redis stream source (`internal/ingest/redis/stream.go`, `client.go`) | none of its own: stream, group and pending list are in Redis | `NewStreamSource`, `Read`, `Ack`, `Lag` | all instances of an agent share one group, each under its own consumer name |
| Dispatch (`internal/dispatch`) | attempt number, backoff, recorded outcomes | `Dispatcher.Send`, `Policy.Do` | called by stream and log drain agents, calls destinations |
| Runner (`internal/agent/runner.go`, `agent.go`) | status, restart wait and failure count per agent | `Start`, `supervise`, `runOnce`, `Wait`, `Health` | one goroutine per agent; the root context reaches all |
| Periodic agent (`internal/agent/periodic.go`) | the in-flight flag, the wait group | `Run`, `run` | runs a housekeeping task in a goroutine of its own |
| Log drain agent and list source (`internal/agent/logdrain.go`, `internal/ingest/redis/list.go`) | the entry in hand; the list is in Redis | `Run`, `emit`, `Read`, `Lag` | pops entries, feeds the aggregator, dispatches summaries |
| Aggregator (`internal/housekeeping/summarize.go`) | open period, count, partial mark | `Observe`, `Tick`, `closeLocked` | owned by the log drain agent; in memory only |
| Monitor (`internal/agent/monitor.go`) | the latest snapshot of every agent's health | `Run`, `sample`, `AgentHealth` | reads lag, tells the detector, feeds `readyz` |
| Detector (`internal/observability/anomaly.go`), notifier (`internal/dispatch/stub/email.go`) | per condition: active, start of the breach, last message, messages this hour | `Observe`, `send`, `Notify` | called by the monitor |
| Operational server (`internal/observability/http.go`) | none | `livez`, `readyz`, `metrics` | answers from the monitor's snapshot |
| Pending reclaim (`internal/housekeeping/reclaim.go`, `internal/ingest/redis/pending.go`) | none of its own: the pending list and the group's consumers are in Redis | `Run`, `Pending`, `Reclaim`, `RetireConsumers` | one more consumer of the group it is given |
| Queue report (`internal/housekeeping/report.go`) | none | `Run` | reads every source |
| Configuration, registry, tasks (`internal/config`, `internal/agent/registry.go`, `internal/housekeeping/task.go`) | the configuration; groups in Redis | `Load`, `Validate`, `Build`, `TaskFor`, `sourceRefs` | decide which agent reads what under which names |
| `main` (`cmd/conflux/main.go`), envelope, metrics, logging | the root context | `run`, `Parse` | wiring at start; signals at the end |

What is hard in this system, and hard to test:

- **At-least-once delivery with bounded loss.** An entry may leave the pending
  list only after every destination has an outcome, while signals, panics,
  crashes, failed acks and lost replies come at any point.
- **Several instances on one group**, where what Redis believes an instance
  holds and what it holds in memory can differ.
- **Shutdown**: one context reaches reads, waits, attempts, restart waits and
  tasks, and each has to notice without claiming work it did not finish.
- **State without a store**: the aggregator's counts die with the process and the
  list cannot be read again.
- **Time**: cooldowns, ceilings, sustain windows and periods, each kept per
  condition or per process and each with a boundary to get wrong.
- **Shared keys**: anomalies of several agents under one scope or one gauge.
- **Decisions over several commands**: `Lag` and the reclaim pass look at Redis,
  decide, and act, while gateway and instances go on; a pass can be cut short
  after any command.
- **Names as contracts**: group, consumer and source names are composed in three
  places from what an operator wrote, and outlive the process that composed them.

What makes each component correct: a stream agent acks only what it resolved and
loses track of nothing; `Do` keeps to its budget in attempts and in time; the
runner contains failures, never overlaps a task and drains; the aggregator counts
every entry once and never goes back to a period; the detector neither floods nor
forgets support; a lag reading hides no loss; reclaim clears what was abandoned and
leaves alone what is being worked on; a process that starts runs all it was told to.

## 2. Modules

| Module | Models |
|---|---|
| `Delivery` | entries, known by their rank in the stream, and consumers |
| `RedisStream` | external: the stream, the group and its pending list; one operator per Redis command |
| `Dispatch` | `Dispatcher.Send` and `Policy.Do`, a call in progress per consumer |
| `StreamAgent` | composes the two with `Run`, `handle`, the supervisor's restarts and the process |
| `EventLedger` | abstract: what becomes of an event, from its publication to its ack or its loss |
| `StreamAgentLedger` | the refinement mapping from `StreamAgent` to `EventLedger` |
| `MCStreamAgent` | symmetry for TLC |
| `RedisStreamProofs` | lemmas on the Redis commands, shared by the modules that use them |
| `StreamAgentProofs`, `RunnerProofs`, `MonitorProofs`, `LogDrainProofs`, `LagProofs`, `ReclaimProofs`, `StartupProofs` | the theorems about each component |
| `Runner` | `supervise` for all agents, `PeriodicAgent.Run`, `main`'s shutdown |
| `Detector` | `Observe` and `send` as functions on the state of one condition |
| `Monitor`, `MCMonitor` | `sample` over the agents, on top of `Detector`, and the snapshot it leaves |
| `LogDrain` | `LogDrainAgent.Run`, `ListSource.Read`, `Aggregator`, with restarts |
| `Lag` | `StreamSource.Lag`, command by command, over a stream of its own with tombstones and counters |
| `Reclaim` | `ReclaimTask` with `Client.Reclaim` and `RetireConsumers`, on `RedisStream`, beside the instances of the group |
| `Startup`, `MCStartup` | `Load`, `Validate`, `Build`, `TaskFor`, `sourceRefs`, `ReportTask.Run`, start after start |

**StreamAgent.** Each instance has a program counter: `top` (the context check),
`read` (XREADGROUP in progress), `loop` (between deliveries), `send` (inside
`Dispatcher.Send`, whose own position is `phase`, `dest` and `attempt`), `ack`
(before the command is issued), `acking` (issued), and outside `Run` `backoff`,
`stopped` and `down`. A batch is the interval `cur .. hi`. The split of the ack in
two matters: go-redis refuses a command whose context is already cancelled, but an
issued one may be executed with its reply lost. `result`, `elapsed`, `skipped`
and `start` are history variables; no guard reads them. Of a payload
only whether it parses is kept, of a destination only how an attempt can end.

**EventLedger.** Two variables: whether the agent has come up, and the fate of
each event: `unborn`, `early` (published before the group existed), `waiting`,
`lost` (trimmed unread), `taken`, `resolved`, `cut` (its dispatch was cancelled) or
`acked`. Seven steps say which fates may follow which, and that events are taken
and lost from the oldest. `StreamAgentLedger` reads the fate off the stream, the
group and the outcomes. Everything an instance does in memory, and every failure of
it, is a stutter; so is the ack of an entry that was acked before.

**Runner.** The program counter of `supervise` per agent, the flag of the overlap
guard, and two counts of task goroutines: those inside `run`, and those past
`Store(false)` that have not called `Done`, because deferred calls run in that
order. `Run` of a loop agent is known only by how it ends. `StateDraining` of the
source's lifecycle (`data-model.md`) is never set by the code and so is not a
state here.

**Detector and Monitor.** A key is a pair of anomaly type and scope. The reading
of an agent is the set of conditions that hold for it, chosen freely at every
sample, and which notifications fail is chosen freely when email is enabled. The
sampling interval is the unit of time. `notes` records what support received,
with the start of the unbroken breach it was about, and `tried` when a message was
last attempted. The hour of the ceiling is the detector's, which begins at an
observation and is rolled by a later one; `TwiceTheCeiling` is stated on support's
clock instead, for the hour that begins at any message. `SilenceIsBounded` is the
other side of it: what the cooldown and the ceiling hold back they hold back for no
longer than a cooldown or an hour. `OneResolution` is stated with
these: the breach a resolution ends began no earlier than the resolution before it.
That no two resolutions have the same start would say the same for one agent, but not
for three that observe one source within a sample, which is one tick here: a clear
between two breaches then takes no time.

**LogDrain.** Time is counted in summary periods. Stamps may be late (`Delay`), ahead
(`Skew`) or missing (`Unstamped`), the key may expire and a popped entry may be lost
with its reply (`Lossy`). The aggregator outlives a failed `Run` and dies with the
process. The ticker belongs to a `Run` (`logdrain.go:51`): `due` is the tick in its
channel, `TickerFires` comes only after the first select of that `Run`, which is
reached at once (`start`), and both end with it. A summary carries, as history, how
many entries its process had observed when it was emitted: `EveryEntryIsCounted` says
that each summary counts exactly what was observed since the one before it, and the
open period the rest.

**Lag.** The call is at XINFO GROUPS, at XINFO STREAM, at the decision, at XLEN or
done; between any two the gateway adds and trims, an operator deletes and the agent
reads. What Redis 7.4 and go-redis v9.19.0 (`go.mod:8`) answer is external. The lag is
the number of stored entries after the group's position. Redis tells it from that
position when it is before, at the oldest or beyond all stored entries, or from the
group's entries-read counter, which one created at `$` has not at first (`counted`);
an entry deleted by XDEL at or after the position (`tomb`) defeats both. When neither
serves the lag is NULL, and go-redis hands that on as -1, while an unknown entries-read
arrives as 0. Ids are ranks, so `compareIDs` is the order of numbers.

**Reclaim.** The task is one more member of `Consumers`. It has a program counter:
`claim` (before a page of XAUTOCLAIM), `ack`, `retire`; what it claimed, the cursor
and the consumers it is about to delete are its local variables. Of an instance only
what touches the group is kept. Idle times are counted up to the two limits. A pass
may be cut short before any command, and an executed XAUTOCLAIM or XACK may lose its
reply. `Build` gives the task a group of its own (see the finding
`startup_reclaim`); the module models the task on the group of a stream agent, as in
the integration test `test/integration/housekeeping_test.go`, or as where the
periodic agent's id was a stream agent's before.

**Startup.** An environment holds the list of ids, the settings of each key and the
settings that are no agent's. A setting is absent, malformed or a value, because that
is all `str`, `num`, `dur` and `boolean` tell apart. `phase` follows `run`; `next` and
`built` are the loop of `Build`, which is at the first enabled agent from `next` on;
`sourceRefs` is the set of the indices at which that function appends a source; what
stays between two processes is what each name is in Redis and which groups there are.
A pass of a periodic task is one step that walks `sourceRefs` to its end, to a source
that cannot be visited, or to a failing command.

## 3. Runs

Passing runs:

| Run | Instance | Shows |
|---|---|---|
| `stream_agent` | 2 instances, 2 entries, batches of 2, 2 destinations, 1 attempt | `AckedIsResolved`, `InFlightIsOwned`, `GivenIsAccountedFor`, and `ImplementsLedger`: the refinement of `EventLedger` |
| `stream_agent_live` | 1 instance, 2 entries, 3 attempts, fair, every split of time | `ReadIsResolved`, `BacklogIsRead`, `SignalStops`, `DoIsBounded`, `CutWorkIsNotAcked` |
| `runner` | 2 loop agents, 1 periodic agent, 4 failures each, fair | `NoOverlap`, `DrainedIsQuiet`, `CrashLoopIsSlowed`, `SupervisorsStop` |
| `monitor` | 1 agent, lag and outages, 8 samples | `CooldownHolds`, `TwiceTheCeiling`, `SilenceIsBounded`, `SustainHolds`, `OneResolution` |
| `log_drain` | 2 processes, 3 periods, 3 entries, cap 2, late, early and missing stamps, fair | `EveryEntryIsCounted`, `PeriodsAdvance`, `PeriodCloses`, `FullListIsDrained` |
| `lag` | 5 entries, batches of 2 | `StandingLossIsFlagged`, `ExactCountIsTheBacklog` |
| `reclaim` | 1 instance and the task, 2 entries, batches of 2, pages of 1, fair | `FreshWorkIsNotClaimed`, `LeftWithARecord`, `AbandonedIsCleared` |
| `startup` | about 500 environments of up to 3 agents, 4 names in Redis | `ServesWhatIsEnabled`, `WholeReportIsComplete` |

Each module's `TypeOK` is checked in its first run. The bounds, and why they are
enough:

- Two entries with batches of two give a full batch, a partial one and an entry
  that arrives during a batch; trimming can pass over entries between two reads;
  two instances are the fewest that can disagree about an owner, two destinations
  the fewest that can be left half done. Three attempts, in the run with one
  instance, give a first wait and a capped one, and a cut in either. The two are
  kept apart to keep the runs short; the theorems remove these bounds altogether for
  the safety properties.
- Restart waits 1, 2, 4 with `RestartMax` 4 reach the cap and stay there for one
  more failure, and `DegradedAfter` 3 is passed. `MaxEnding` 2 lets a finished
  run's `Done` be overtaken by the end of the next run. Agents share only the
  context and the process, so one periodic agent beside two others is enough.
- Eight samples with a cooldown of 2, a ceiling of 1, a sustain window of 2 and an
  hour of 6 reach the ceiling, roll the hour, breach again after a resolution and put
  two messages into one hour on the clock.
- Three periods are the fewest with a period that is neither the first nor the
  last; a list of two can hold entries of two periods at once; two processes give
  one restart.
- Five entries give a group created in the middle of the stream, a batch read after
  that, one entry trimmed unread, one deleted and one stored behind the gap; batches of
  two are the fewest in which a read passes over a deleted entry.
- Two entries in pages of one are the fewest for which a pass can fail between two
  pages, and a page can bring nothing while another follows. Idle limits of one tick
  tell fresh from idle; a third entry or a second instance adds no command that could
  come in between and was not there before.
- Any two of fifteen profiles in either order, and three agents where one reports,
  give every pair of neighbours in the walk over the agents; a key is written by the
  gateway before or after the start that makes a group on it.

Deadlock is checked for the stream agent, `Lag`, `Reclaim` and `Startup`, which never
stop. It is off for `Runner`, where the process exits, and for `Monitor` and
`LogDrain`, whose clock ends at a bound.

**Fairness.** A goroutine that can run is scheduled and every command and attempt
ends, because each has a timeout: weak fairness of an instance's own steps and of
a supervisor's. Reading is strongly fair: Redis does not answer every read with an
error for ever. The ticker of the log drain is only weakly fair: it fires in a `Run`
that lasts, and a `Run` that ends takes it along, so `PeriodCloses` promises nothing for
a drain whose every `Run` ends first. A periodic task returns once
started, which its context and the timeouts of its commands give. In `Reclaim` time
passes, and the steps of the task are weakly fair, because the periodic agent starts
it at every interval and each command ends; `AbandonedIsCleared` is promised only for
behaviours in which the task's commands fail no more from some time on, and assumes
nothing about the instances. Nothing is assumed of signals, crashes, panics, the
gateway, the outcome of an attempt, the clock of the other modules or the grace
period.

### Findings

These runs check a sentence of the repository, and TLC finds a behaviour of the
code that contradicts it. Sources and quotes are in `PROJECT.json`.

| Run | Sentence | What happens |
|---|---|---|
| `runner_panic` | a panic stays with its agent | a periodic task panics in a goroutine without recover, and the process ends |
| `lag_false_alarm` | an approximate reading means loss | a group whose next entry is the oldest stored one, or which is new, reads as approximate: the monitor raises `entries_trimmed` and `readyz` fails although nothing was lost |
| `reclaim_unprocessed` | abandoned entries are reclaimed and processed | they are logged and acknowledged; no destination sees them |
| `startup_reclaim` | the reclaim agent reclaims what gone consumers left | it asks for the group of its own id, which is not there, so the pass fails at the first stream |

### Observations without a run

Behaviours of the models that a reader of the code may want to know, for which no
run is kept:

- `Read` asks for `>` only (`ingest/redis/stream.go:68`): an entry left pending by a
  cancelled, panicked or crashed `Run` is never read again, although
  `agent/stream.go:50-51` says it is "redelivered rather than lost" and FR-006, FR-011
  and `quickstart.md:66` expect redelivery across a restart and duplicates. So in the
  model no event is ever dispatched a second time, which is not a merit: no property
  is kept that would present it as one.
- A NULL lag arrives as -1 from go-redis v9.19.0. The test at `stream.go:162` is for 0
  and misses it, so `Lag` returns `Entries` -1 and not approximate, for a group created
  in the middle of a stream and after an XDEL, while the comment at `stream.go:161`,
  `contracts/ingestion-source.md:49` and research D11 have the reading derived from XLEN
  and marked approximate. -1 is below every lag threshold. `ExactCountIsTheBacklog`
  speaks of numbers of entries, which -1 is not. What the library answers is external
  to the repository; the model takes it from go-redis, not from a run.
- The ceiling is kept in the detector's own hour and per scope: an hour on the clock
  holds up to twice `ANOMALY_MAX_PER_HOUR` messages about one condition, and that for
  every scope, while SC-007 has no more than the maximum per hour and
  `contracts/configuration.md:60` a "Hard ceiling per type".
- The ticker of the log drain is made in each `Run` (`logdrain.go:51`) and the first
  select does not wait for it. While every `Read` fails, each `Run` ends before its
  ticker fires and no quiet period is closed, however many restarts there are.
- A RESOLVED message that fails is not tried again (`anomaly.go:94`), while FR-026
  has every notification followed by one when the condition clears; an onset that
  fails is tried again.
- The gauge of active anomalies has one value per type: with two agents, the clear of
  one zeroes it while the other's anomaly is active (`anomaly.go:86`), although
  `metrics.go:95` describes it as the active anomalies by type.
- `Tick` closes a period by the clock while entries of it are still in the list
  (`summarize.go:91`): its summary misses them without a partial mark, and the next
  period counts them.
- After a restart in the middle of a period in which no further entry comes, that
  period has no summary (`summarize.go:91`), against FR-018b.
- One stamp in the future closes the present period at once (`summarize.go:73`), and
  until the clock reaches it every entry is counted under it, although
  `data-model.md:30` says `received_at` is "never used as a correctness input".
- A stream that lost everything, and so is empty, reads as an exact lag of 0; a loss
  no call of `Lag` fell into is not seen after the next read (`stream.go:182`).
- With nothing pending the reclaim pass returns before `RetireConsumers`
  (`reclaim.go:67`), so consumer names accumulate on a healthy stream.
- A batch that takes longer than `PENDING_MIN_IDLE` is taken over while its instance
  works on it: `FreshWorkIsNotClaimed` is stated for younger ones. A consumer that
  reads between XINFO CONSUMERS and its deletion loses the batch from the pending
  list (`pending.go:97`), and what is not acked by then has no owner: `LeftWithARecord`
  counts it as removed by Redis, like pending entries that were trimmed.
- A reclaim pass that fails at a later page acknowledges nothing of the earlier ones
  (`reclaim.go:72`); if it does so every time, nothing is ever cleared.
- `AGENT_<KEY>_SOURCE=report`, which `TaskFor`'s error message recommends, makes a
  stream named `report` one of the sources (`task.go:48`); it does not exist, so the
  report and every reclaim pass that gets there fail. Sources of disabled agents are
  visited too.
- A malformed `ENABLED` enables the agent (`config.go:202`). `SOURCE_KIND` left out
  for the log list makes a stream under its name if the gateway has not written yet,
  and the gateway's writes are then refused (`config.go:205`).
- `ANOMALY_CHECK_INTERVAL` of zero or less passes `Validate` and panics in the
  monitor's goroutine (`monitor.go:71`).
- SMTP without a timeout is called under the detector's lock (`stub/email.go:40`): a
  server that hangs stops the sampling, and readiness goes on from the last snapshot.
- The restart wait and the failure count are reset only by a clean return of
  `Run` (`runner.go:89-93`), which no agent makes: after six faults, however far
  apart, each later one costs 30 seconds and reports the agent degraded.
- Two agents on one source observe its availability under the same scope
  (`monitor.go:111` and `117`). If one can read its lag and the other cannot, the
  anomaly is raised and resolved at every sample, and resolutions pass the
  cooldown and the ceiling.
- The cooldown counts from the last message, a resolution included
  (`anomaly.go:133`): an anomaly that returns soon after is not told for the rest
  of the cooldown, longer than the five minutes of SC-007.
- A lag that cannot be read is reported as zero (`monitor.go:110-116`), and `readyz`
  counts the agent as keeping up, although it may be any distance behind.
- A process that starts with entries of an already summarised period in the list
  emits that period a second time with other counts (`summarize.go:68`).
- The partial mark goes to the first period a process closes. An entry that reaches
  the list late opens an earlier one and uses the mark up, and the period that spanned
  the restart is closed without it (`summarize.go:112`), against FR-018b, SC-008 and the
  comment above that line, "Only the first bucket after a start can be partial".

## 4. Proofs

Every invariant and every safety action property of a passing run is a theorem, for
all values of the constants. No theorem assumes fairness. The assumptions are those
of the modules' `ASSUME`s, which TLC evaluates in the runs.

| Module | Theorem | Property |
|---|---|---|
| `StreamAgentProofs` | `TypeCorrect` | `TypeOK` |
| | `InFlightOwned` | `InFlightIsOwned` |
| | `AccountedFor` | `GivenIsAccountedFor` |
| | `AckedResolved` | `AckedIsResolved` |
| | `CutNotAcked` | `CutWorkIsNotAcked` |
| | `DoBounded` | `DoIsBounded` |
| | `KeepsTheLedger` | `ImplementsLedger`, the refinement of `EventLedger` |
| `RunnerProofs` | `TypeCorrect` | `TypeOK` |
| | `NeverOverlaps` | `NoOverlap` |
| | `DrainCutsNothingOff` | `DrainedIsQuiet` |
| | `CrashLoopSlowsDown` | `CrashLoopIsSlowed` |
| `MonitorProofs` | `TypeCorrect` | `TypeOK` |
| | `CooldownIsKept` | `CooldownHolds` |
| | `CeilingOnTheClock` | `TwiceTheCeiling` |
| | `SuppressionEnds` | `SilenceIsBounded` |
| | `SustainIsKept` | `SustainHolds` |
| | `ResolvedOnce` | `OneResolution` |
| `LogDrainProofs` | `TypeCorrect` | `TypeOK` |
| | `NothingIsMiscounted` | `EveryEntryIsCounted` |
| | `PeriodsAreOnce` | `PeriodsAdvance` |
| `LagProofs` | `TypeCorrect` | `TypeOK` |
| | `LossIsFlagged` | `StandingLossIsFlagged` |
| | `ExactCountIsTrue` | `ExactCountIsTheBacklog` |
| `ReclaimProofs` | `TypeCorrect` | `TypeOK` |
| | `FreshWorkIsSafe` | `FreshWorkIsNotClaimed` |
| | `NothingLeavesUnrecorded` | `LeftWithARecord` |
| `StartupProofs` | `TypeCorrect` | `TypeOK` |
| | `EnabledIsServed` | `ServesWhatIsEnabled` |
| | `ReportIsComplete` | `WholeReportIsComplete` |

Few of the properties are inductive alone. Each proof module defines the inductive
invariant `IInv` (for the stream agent, layers), which TLC checked on the instance of
the run before it was proved, and one lemma per part that a step keeps it.

**Stream agent.** The constants: `None` is not a consumer, the counts and times are
naturals, `MaxAttempts` is positive, which validation enforces, and so is `BatchSize`;
go-redis leaves COUNT out for a batch size of zero, which is a batch size of `MaxId`
here. The invariant is built in layers, each proved from those below it:

1. `Base`: types; `Shape`, which ties the program counter to the call of `Do` and
   to the batch; and `InFlightIsOwned`. Ownership needs `Shape` because a batch
   must lie at or below the group's last delivered entry: only then can no other
   instance's read take an entry that is in memory here, and only then does an ack
   of one instance not touch another's batch.
2. `Account`: the three-way account of every entry the group was given. It needs
   layer 1 to know that an acked entry was pending.
3. `Resolution`: an entry acked, or about to be, has all its outcomes; while a
   `Send` is in progress the destinations behind it have theirs. It needs
   ownership: nobody else works on the entry.
4. `Untouched`: an entry not yet given to the group, or still ahead in a batch, has
   no outcome.
5. `Cut`: while an entry with a cancelled outcome is in hand the instance's
   context is done, and its ack has not been issued. It needs `Untouched` and
   `Account` (what is acked is not in hand).
6. `Timing`: time used plus the worst that is left of a call of `Do` is within the
   bound, attempt by attempt.
7. `Ahead`: an entry nobody was given has no record, and the destinations still ahead
   of a `Send` have no outcome. It is what lets an outcome be the step that resolves
   an event, once.

`KeepsTheLedger` uses all of them. Every Redis command, outcome and record is shown to
give the fates of a set of events one value and to leave the other fates alone
(`OneEffect`, `MappedBecome`); one lemma per command then finds the step of
`EventLedger`. It has the hypothesis `NDests # 0`: with no destination (an agent whose
only destination is `none`) an entry needs no outcome and is resolved by being read,
which the ledger does not allow. TLC shows that case, so the hypothesis is needed.

**Runner.** A task is inside `run` exactly while the flag of the overlap guard is set,
task goroutines exist only while their agent is in `Run` or drains, and `Wait` has
returned only when every supervisor has. For `CrashLoopIsSlowed` the wait is at least
2^n times the first one, or the longest. That 2^(n+1) is twice 2^n is not a fact the
provers have: it is taken from the library's count of the subsets of a set.

**Monitor and Detector.** `MonitorAssumption` allows any list of agents, sources and
scopes shared or not. The invariant ties the state the detector keeps of a condition
to the messages support received: `Remembers` (the last message and the start of the
breach), `Counted` (the messages of this hour, by cardinality), `Ended` (what was
resolved before this breach), `Tried` and `SoFar` (the attempts, and what the current
sample has observed so far). The ceiling holds in the detector's hour and in the one
that ended where it began (`CeilingHolds`); an hour on the clock that ends with the
newest message meets no other, because the detector's last at least an hour, and that
gives `TwiceTheCeiling`. The step is proved once for a condition that is observed
(`SendOutcome`, `ObserveOutcome`, `Heard`), and each property from that.

**LogDrain.** What the latest process emitted is older than the period it has open
(`OpenIsLast`). A step moves on to a later period, stays in the open one or begins a
new process (`PeriodStep`), and each part is proved from these.

**Lag.** Commands of one call see different states. The invariant says what of the
earlier replies still holds: the group has not moved back behind the position that was
told (`PositionIsOld`), a loss that counts as standing was seen by the command that
looks for it (`StandingIsSeen`), and a lag that was told is the backlog of that moment
or NULL (`ToldOrNull`).

**Reclaim.** The clocks of Redis and of an instance are two. `BatchIsGiven` ties them:
what is pending for an instance has not been idle longer than its batch is old, so
XAUTOCLAIM with `MinIdle` cannot take it from a younger batch. The others need that
what the group was not given is pending for nobody.

**Startup.** Whether a configuration is accepted depends on the environment alone,
which a process keeps (`BuildsTheAccepted`); the agents that `Build` has passed have
what it does for them (`BuiltSoFar`), because nobody removes a group; and of the
usable agents of a source the first is always in `sourceRefs`. `StartupAssumption`
says that ids are listed in a sequence, that every usable key has settings and that
sources are names of keys in Redis.

Only model-checked: `ReadIsResolved`, `BacklogIsRead`, `SignalStops`,
`SupervisorsStop`, `PeriodCloses`, `FullListIsDrained` and `AbandonedIsCleared`. They
are liveness properties, which need fairness and `ENABLED`, out of the reach of the
provers used. The properties of the violation runs are false, by a behaviour TLC
shows.

## 5. Plan

What is left is to make more of the proofs, not more of the model:

1. The dispatch of the log drain's summaries is `Dispatch`'s, proved about only inside
   `StreamAgent`. Lemmas on `Dispatch` alone would serve both.
2. Step lemmas towards the liveness properties that need no fairness: that a helpful
   step, once possible, stays possible until it is taken, and that the measure of the
   work left never grows.
3. Action properties that the inductive invariants already give, where a run can
   check them too.

## 6. Not modelled

- Settings that only pass through the configuration to one component, such as
  timeouts and addresses: they are constants there. Trimming and splitting of
  strings, and the regular expression of `NormaliseID`, are data; what they make equal
  or empty is not (`KeyOf`).
- Groups destroyed by an operator: an agent whose group is gone gets NOGROUP from every
  read until it is restarted. XDEL is in `Lag` only; elsewhere a deleted entry is one
  that was trimmed.
- The scan limit of XAUTOCLAIM (ten times COUNT entries looked at): it makes more
  pages without a claim, which entries trimmed while pending already give.
- The values a queue report logs, `livez`, metrics, log
  lines, HTTP and JSON: output and data. A hanging SMTP server: the code has no timeout
  from which anything could be promised.
- The breakdown of a summary by gateway: a second counter beside `count`.
- The anomaly type `dispatch_drop_rate`: no code observes it.
- The document tooling under `.specify`.
