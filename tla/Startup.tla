------------------------------ MODULE Startup -------------------------------
(***************************************************************************)
(* From the environment to a serving process: config.Load and Validate,    *)
(* run in cmd/conflux/main.go, agent.Build with what it creates in Redis,  *)
(* and the sources the periodic tasks then visit                           *)
(* (internal/housekeeping/task.go and report.go).  The process may end at  *)
(* any moment and be started again in another environment; Redis stays.    *)
(*                                                                         *)
(* A setting is Absent, Malformed (its parser refuses it) or a value.  An  *)
(* id or a name is known by its identity; KeyOf is NormaliseID, which maps *)
(* different ids to one key and some to none.                              *)
(***************************************************************************)
EXTENDS Integers, Sequences, Functions

CONSTANTS
  Absent, Malformed,
  AgentIds, KeyOf,  \* ids an operator writes, and their keys
  NoKey,            \* the empty key
  Names,            \* keys in Redis, by name
  GatewayKind,      \* what the gateway writes each of them as, "none" if at all
  Environments      \* the environments a process may find

ASSUME StartupAssumption ==
  /\ Absent # Malformed
  /\ GatewayKind \in [Names -> {"none", "stream", "list"}]
  /\ {"reclaim", "report"} \subseteq Names
  /\ Environments # {}
  /\ \A e \in Environments :
       /\ e.ids \in Seq(AgentIds)
       /\ \A k \in DOMAIN e.agent : e.agent[k].source \in Names \cup {Absent}
  /\ \A id \in AgentIds : KeyOf[id] # NoKey =>
       \A e \in Environments : KeyOf[id] \in DOMAIN e.agent

VARIABLES
  phase,      \* of run: "off", "connect", "build", "serve"
  env,        \* the environment of the process, arbitrary while it is off
  next,       \* index in the list of agents from which Build goes on
  built,      \* agents Build has constructed
  failure,    \* why the latest start ended, "none" if it has not
  kind,       \* what each name is in Redis
  groups,     \* the consumer groups there are, by stream and agent
  pass        \* the latest pass of a periodic task

redisVars == <<kind, groups>>
vars == <<phase, env, next, built, failure, redisVars, pass>>

NoPass == [task |-> "none", end |-> "none", reached |-> {}]
NoEnv == CHOOSE e \in Environments : TRUE
Destinations == {"ltr", "cep", "summary", "none"}

-----------------------------------------------------------------------------
(***************************************************************************)
(* Configuration.  str keeps what it finds; num, dur and boolean take the  *)
(* default for a value they cannot parse.                                  *)
(***************************************************************************)
str(v, def) == IF v = Absent THEN def ELSE v
parsed(v, def) == IF v \in {Absent, Malformed} THEN def ELSE v

Agent(id) ==
  LET s == env.agent[KeyOf[id]]
  IN  [id |-> id,
       enabled |-> parsed(s.enabled, TRUE),
       mode |-> s.mode,
       source |-> s.source,
       kind |-> str(s.kind, "stream"),
       dests |-> s.dests,
       interval |-> parsed(s.interval, 0)]

\* loadAgents refuses an id without a key and two ids with the same key.
LoadFails ==
  \/ \E i \in DOMAIN env.ids : KeyOf[env.ids[i]] = NoKey
  \/ \E i, j \in DOMAIN env.ids :
       i # j /\ KeyOf[env.ids[i]] = KeyOf[env.ids[j]]

Agents == [i \in DOMAIN env.ids |-> Agent(env.ids[i])]
Enabled == {a \in Range(Agents) : a.enabled}

\* Agent.validate reports nothing.
valid(a) ==
  /\ \/ /\ a.mode = "stream"
        /\ a.source # Absent
        /\ a.kind \in {"stream", "list"}
     \/ a.mode = "periodic" /\ a.interval > 0
  /\ a.dests # {}
  /\ "summary" \in a.dests => env.summary # Absent

Validate ==
  /\ parsed(env.email, FALSE) => env.supportTo # Absent
  /\ parsed(env.attempts, 3) >= 1
  /\ \A a \in Enabled : valid(a)

Accepted == ~LoadFails /\ Validate

-----------------------------------------------------------------------------
\* The group an agent owns on a stream: GroupName has the id in it, and the base
\* is one for all.
GroupName(id) == id

ReclaimIds == {"pending_reclaim", "pending-reclaim"}
ReportIds == {"queue_report", "queue-report"}

\* TaskFor: the source names the task, or the id does.
TaskFor(a) ==
  CASE a.source = "reclaim" \/ a.id \in ReclaimIds -> "reclaim"
    [] a.source = "report" \/ a.id \in ReportIds -> "report"
    [] OTHER -> "unknown"

Usable(i) ==
  Agents[i].source # Absent /\ Agents[i].kind \in {"stream", "list"}

\* Mutant: a name counts as seen before its kind is looked at.
seenBeforeKind ==
  {i \in DOMAIN Agents :
     Usable(i) /\ \A j \in 1 .. i - 1 : Agents[j].source # Agents[i].source}

\* What housekeeping visits, in the order of the list and whether enabled or not:
\* the first usable agent of each source, by its index.
sourceRefs ==
  {i \in DOMAIN Agents :
     /\ Usable(i)
     /\ \A j \in 1 .. i - 1 : Usable(j) => Agents[j].source # Agents[i].source}

-----------------------------------------------------------------------------
TypeOK ==
  /\ phase \in {"off", "connect", "build", "serve"}
  /\ env \in Environments
  /\ next \in 1 .. IF phase \in {"build", "serve"} THEN Len(env.ids) + 1 ELSE 1
  /\ built \in SUBSET AgentIds
  /\ failure \in {"none", "config", "redis", "mode", "kind", "destination",
                  "task", "group", "ticker", "ended"}
  /\ kind \in [Names -> {"none", "stream", "list"}]
  /\ groups \subseteq Names \X AgentIds
  /\ pass.task \in {"none", "reclaim", "report"}
  /\ pass.end \in {"none", "whole", "error", "fault"}

Init ==
  /\ phase = "off"
  /\ env = NoEnv
  /\ next = 1
  /\ built = {}
  /\ failure = "none"
  /\ kind = [n \in Names |-> "none"]
  /\ groups = {}
  /\ pass = NoPass

\* Mutant: a new process goes on where the last one stopped.
OffKeepsPlace(why) ==
  /\ phase' = "off"
  /\ env' = NoEnv
  /\ failure' = why
  /\ built' = {}
  /\ next' = next
  /\ pass' = NoPass

\* run returns, or the process dies; a failed Build runs its cleanup, which
\* leaves Redis as it is.
Off(why) ==
  /\ phase' = "off"
  /\ env' = NoEnv
  /\ failure' = why
  /\ built' = {}
  /\ next' = 1
  /\ pass' = NoPass

Load ==
  /\ phase = "off"
  /\ env' \in Environments
  /\ phase' = "connect"
  /\ failure' = "none"
  /\ UNCHANGED <<next, built, redisVars, pass>>

\* Configuration is refused before Redis is spoken to.
Refuse ==
  /\ phase = "connect"
  /\ ~Accepted
  /\ Off("config")
  /\ UNCHANGED redisVars

\* NewClient: PING, or the process gives up.
Connect ==
  /\ phase = "connect"
  /\ Accepted
  /\ \/ phase' = "build" /\ UNCHANGED <<env, next, built, failure, pass>>
     \/ Off("redis")
  /\ UNCHANGED redisVars

-----------------------------------------------------------------------------
(***************************************************************************)
(* Build: one enabled agent after the other, in the order of the list.     *)
(***************************************************************************)
\* The loop over cfg.Enabled() is at agent i.
At(i) ==
  /\ i >= next /\ Agents[i].enabled
  /\ \A j \in next .. i - 1 : ~Agents[j].enabled

\* What keeps buildOne from constructing the agent, "none" if nothing does.
Obstacle(a) ==
  CASE ~(a.dests \subseteq Destinations) -> "destination"
    [] a.mode \notin {"stream", "periodic"} -> "mode"
    [] a.mode = "periodic" ->
         IF TaskFor(a) = "unknown" THEN "task" ELSE "none"
    [] a.kind \notin {"stream", "list"} -> "kind"
    [] a.kind = "stream" /\ kind[a.source] = "list" -> "group"
    [] OTHER -> "none"

\* NewStreamSource: XGROUP CREATE ... MKSTREAM; BUSYGROUP is benign.
NewStreamSource(a) ==
  /\ groups' = groups \cup {<<a.source, GroupName(a.id)>>}
  /\ kind' = [kind EXCEPT ![a.source] = "stream"]

BuildOne ==
  /\ phase = "build"
  /\ \E i \in DOMAIN Agents :
       LET a == Agents[i]
       IN  /\ At(i)
           /\ Obstacle(a) = "none"
           /\ \/ a.mode = "stream" /\ a.kind = "stream" /\ NewStreamSource(a)
              \/ ~(a.mode = "stream" /\ a.kind = "stream") /\ UNCHANGED redisVars
           /\ built' = built \cup {a.id}
           /\ next' = i + 1
  /\ UNCHANGED <<phase, env, failure, pass>>

\* Mutant: an agent that cannot be built is left out.
BuildSkips ==
  /\ phase = "build"
  /\ \E i \in DOMAIN Agents :
       At(i) /\ Obstacle(Agents[i]) # "none" /\ next' = i + 1
  /\ UNCHANGED <<phase, env, built, failure, redisVars, pass>>

BuildFails ==
  /\ phase = "build"
  /\ \E i \in DOMAIN Agents :
       At(i) /\ Obstacle(Agents[i]) # "none" /\ Off(Obstacle(Agents[i]))
  /\ UNCHANGED redisVars

\* XGROUP CREATE fails for another reason than BUSYGROUP, executed or not.
BuildLosesRedis ==
  /\ phase = "build"
  /\ \E i \in DOMAIN Agents :
       LET a == Agents[i]
       IN  /\ At(i)
           /\ Obstacle(a) = "none"
           /\ a.mode = "stream" /\ a.kind = "stream"
           /\ UNCHANGED redisVars \/ NewStreamSource(a)
  /\ Off("group")

Serve ==
  /\ phase = "build"
  /\ \A i \in DOMAIN Agents : ~At(i)
  /\ phase' = "serve"
  /\ UNCHANGED <<env, next, built, failure, redisVars, pass>>

\* The monitor makes a ticker of ANOMALY_CHECK_INTERVAL, which panics, outside
\* any recovery, when that is not positive.
TickerPanics ==
  /\ phase = "serve"
  /\ parsed(env.check, 1) <= 0
  /\ Off("ticker")
  /\ UNCHANGED redisVars

Ends ==
  /\ phase # "off"
  /\ Off("ended")
  /\ UNCHANGED redisVars

-----------------------------------------------------------------------------
(***************************************************************************)
(* Periodic tasks of the serving process.  Both walk sourceRefs and give   *)
(* up at the first error.                                                  *)
(***************************************************************************)
Periodic(task) ==
  {a \in Enabled : a.mode = "periodic" /\ TaskFor(a) = task}

\* The agents whose sources the loop visits before the one at n.
Before(n) == {Agents[i] : i \in {j \in sourceRefs : j < n}}

\* Redis may fail a command, so a pass ends whole, at a source that cannot be
\* visited, or before.
Walk(task, Fails(_), Visited(_)) ==
  \E n \in sourceRefs \cup {Len(env.ids) + 1} :
    /\ \A a \in Before(n) : ~Fails(a)
    /\ pass' = [task |-> task,
                end |-> CASE n \notin sourceRefs -> "whole"
                          [] n \in sourceRefs ->
                               IF Fails(Agents[n]) THEN "error" ELSE "fault",
                reached |-> UNION {Visited(a) : a \in Before(n)}]

\* XPENDING fails for a group that is not there; the group asked for carries the
\* id of the task's own agent.
ReclaimPass ==
  /\ phase = "serve"
  /\ \E own \in Periodic("reclaim") :
       LET Own(a) == <<a.source, GroupName(own.id)>>
           Fails(a) == a.kind = "stream" /\ Own(a) \notin groups
           Visited(a) == IF a.kind = "stream" THEN {Own(a)} ELSE {}
       IN  Walk("reclaim", Fails, Visited)
  /\ UNCHANGED <<phase, env, next, built, failure, redisVars>>

\* XINFO STREAM fails for what is not a stream, LLEN for a stream; a failed
\* XPENDING is passed over.
ReportPass ==
  /\ phase = "serve"
  /\ Periodic("report") # {}
  /\ LET Fails(a) == IF a.kind = "stream" THEN kind[a.source] # "stream"
                     ELSE kind[a.source] = "stream"
         Visited(a) == {<<a.source>>}
     IN  Walk("report", Fails, Visited)
  /\ UNCHANGED <<phase, env, next, built, failure, redisVars>>

\* The gateway's first XADD or RPUSH to a key; later ones leave its kind alone,
\* and Redis refuses one on a key of another kind.
Publish(n) ==
  /\ GatewayKind[n] # "none"
  /\ kind[n] = "none"
  /\ kind' = [kind EXCEPT ![n] = GatewayKind[n]]
  /\ UNCHANGED <<phase, env, next, built, failure, groups, pass>>

Next ==
  \/ Load \/ Refuse \/ Connect
  \/ BuildOne \/ BuildFails \/ BuildLosesRedis \/ Serve
  \/ TickerPanics \/ Ends
  \/ ReclaimPass \/ ReportPass
  \/ \E n \in Names : Publish(n)

Spec == Init /\ [][Next]_vars

-----------------------------------------------------------------------------
\* A process that serves runs what its environment enables, and can (Build,
\* buildOne, Validate): every enabled agent is there, a stream agent has a group
\* on its source, a periodic one has a task and an interval its ticker accepts.
ServesWhatIsEnabled ==
  phase = "serve" =>
    \A a \in Enabled :
      /\ a.id \in built
      /\ a.mode = "stream" /\ a.kind = "stream" =>
           <<a.source, GroupName(a.id)>> \in groups
      /\ a.mode = "periodic" => a.interval > 0 /\ TaskFor(a) # "unknown"

\* A report that ends without an error has visited every source an enabled agent
\* consumes (ReportTask.Run over sourceRefs), in whatever order and with whatever
\* disabled or unusable agents before it in the list.
WholeReportIsComplete ==
  pass.task = "report" /\ pass.end = "whole" =>
    \A a \in Enabled : a.mode = "stream" => <<a.source>> \in pass.reached

\* "A periodic agent MUST reclaim entries left pending by consumers that are no
\* longer active" (spec.md:146): a reclaim pass that no failing command cut short
\* has visited the group of every stream agent of its process.
ReclaimReachesAgents ==
  pass.task = "reclaim" /\ pass.end # "fault" =>
    \A a \in Enabled : a.mode = "stream" /\ a.kind = "stream" =>
      <<a.source, GroupName(a.id)>> \in pass.reached
=============================================================================
