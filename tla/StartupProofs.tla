--------------------------- MODULE StartupProofs ----------------------------
(***************************************************************************)
(* Proofs about Startup, for any set of environments, ids, keys and names. *)
(*                                                                         *)
(* Whether a configuration is accepted is a matter of the environment      *)
(* alone, which a process keeps; what Build did for an agent stays done    *)
(* while the process runs, because no command of anyone removes a group.   *)
(***************************************************************************)
EXTENDS Startup, NaturalsInduction, WellFoundedInduction, TLAPS

-----------------------------------------------------------------------------
(***************************************************************************)
(* The inductive invariant.                                                *)
(***************************************************************************)
Running == phase \in {"build", "serve"}

\* Nothing is built of a configuration that was refused.
BuildsTheAccepted == Running => Accepted

\* What Build leaves behind for an agent.
Done(a) ==
  /\ a.id \in built
  /\ a.mode = "stream" /\ a.kind = "stream" =>
       <<a.source, GroupName(a.id)>> \in groups
  /\ a.mode = "periodic" => TaskFor(a) # "unknown"

\* The agents Build has passed are built, or are not enabled.
BuiltSoFar ==
  Running =>
    \A i \in DOMAIN Agents : i < next /\ Agents[i].enabled => Done(Agents[i])

\* Build has passed all of them when the process serves.
ServesAll ==
  phase = "serve" => \A i \in DOMAIN Agents : Agents[i].enabled => i < next

\* Periodic tasks run in a serving process, and end with it.
PassIsServed == pass.task # "none" => phase = "serve"

IInv ==
  /\ TypeOK
  /\ BuildsTheAccepted
  /\ BuiltSoFar
  /\ ServesAll
  /\ PassIsServed
  /\ WholeReportIsComplete

-----------------------------------------------------------------------------
\* A list is gone through from its start: of the indices of a kind, if there are
\* any, one is the first.
LEMMA HasFirst ==
  ASSUME NEW S, S \subseteq Nat, S # {}
  PROVE  \E x \in S : \A y \in S : x <= y
  <1> DEFINE R == OpToRel(<, Nat)
  <1>1. \A x, y \in Nat : x < y => <<x, y>> \in R
    BY DEF OpToRel
  <1>2. IsWellFoundedOn(R, Nat)
    BY NatLessThanWellFounded
  <1> HIDE DEF R
  <1>3. PICK x \in S : \A y \in S : ~ (<<y, x>> \in R)
    BY <1>2, WFMin
  <1>4. \A y \in S : ~(y < x)
    BY <1>1, <1>3, Zenon
  <1>5. \A y \in S : x <= y
    BY <1>4
  <1> QED
    BY <1>5

-----------------------------------------------------------------------------
(***************************************************************************)
(* The environment and what is read from it.                               *)
(***************************************************************************)
\* The agents are numbered as the ids are, and carry them.
LEMMA AgentsOfIds ==
  ASSUME env \in Environments
  PROVE  /\ Len(env.ids) \in Nat
         /\ DOMAIN Agents = 1 .. Len(env.ids)
         /\ \A i \in DOMAIN Agents :
              /\ Agents[i] = Agent(env.ids[i])
              /\ Agents[i].id = env.ids[i]
              /\ Agents[i].id \in AgentIds
  <1>1. env.ids \in Seq(AgentIds)
    BY StartupAssumption DEF StartupAssumption
  <1>2. Len(env.ids) \in Nat /\ DOMAIN env.ids = 1 .. Len(env.ids)
    BY <1>1
  <1>3. DOMAIN Agents = 1 .. Len(env.ids)
    BY <1>2 DEF Agents
  <1>4. ASSUME NEW i \in DOMAIN Agents
        PROVE  /\ Agents[i] = Agent(env.ids[i]) /\ env.ids[i] \in AgentIds
    BY <1>1, <1>2, <1>3, <1>4 DEF Agents
  <1>5. \A id : Agent(id).id = id
    BY DEF Agent
  <1> QED
    BY <1>2, <1>3, <1>4, <1>5

\* An accepted configuration has a key for every agent, so its source is the name
\* of a key in Redis or absent.
LEMMA SourceIsName ==
  ASSUME env \in Environments, ~LoadFails, NEW i \in DOMAIN Agents
  PROVE  Agents[i].source \in Names \cup {Absent}
  <1>1. i \in DOMAIN env.ids /\ Agents[i] = Agent(env.ids[i])
    BY DEF Agents
  <1>2. env.ids[i] \in AgentIds
    BY AgentsOfIds
  <1>3. KeyOf[env.ids[i]] # NoKey
    BY <1>1 DEF LoadFails
  <1>4. KeyOf[env.ids[i]] \in DOMAIN env.agent
    BY <1>2, <1>3, StartupAssumption DEF StartupAssumption
  <1>5. env.agent[KeyOf[env.ids[i]]].source \in Names \cup {Absent}
    BY <1>4, StartupAssumption DEF StartupAssumption
  <1>6. Agent(env.ids[i]).source = env.agent[KeyOf[env.ids[i]]].source
    BY DEF Agent
  <1> QED
    BY <1>1, <1>5, <1>6

\* Enabled agents are agents of the list.
LEMMA EnabledIsListed ==
  /\ \A a \in Enabled : \E i \in DOMAIN Agents : a = Agents[i] /\ a.enabled
  /\ \A i \in DOMAIN Agents : Agents[i].enabled => Agents[i] \in Enabled
  BY DEF Enabled, Range

\* An enabled agent of an accepted configuration has a source if it needs one,
\* and an interval.
LEMMA EnabledIsValid ==
  ASSUME env \in Environments, Accepted,
         NEW i \in DOMAIN Agents, Agents[i].enabled
  PROVE  /\ Agents[i].source \in Names \cup {Absent}
         /\ Agents[i].id \in AgentIds
         /\ Agents[i].mode = "stream" =>
              Agents[i].source # Absent /\ Agents[i].kind \in {"stream", "list"}
         /\ Agents[i].mode = "periodic" => Agents[i].interval > 0
  <1>1. valid(Agents[i])
    BY EnabledIsListed DEF Accepted, Validate
  <1>2. Agents[i].source \in Names \cup {Absent} /\ Agents[i].id \in AgentIds
    BY SourceIsName, AgentsOfIds DEF Accepted
  <1> QED
    BY <1>1, <1>2 DEF valid

\* Everything read from the environment stays as it is while that does.
LEMMA SameEnv ==
  ASSUME env' = env
  PROVE  /\ Agents' = Agents /\ Enabled' = Enabled
         /\ Accepted' <=> Accepted
  <1>1. Agents' = Agents
    BY DEF Agents, Agent
  <1>2. Enabled' = Enabled
    BY <1>1 DEF Enabled
  <1>3. LoadFails' <=> LoadFails
    BY DEF LoadFails
  <1>4. Validate' <=> Validate
    BY <1>2 DEF Validate, valid
  <1> QED
    BY <1>1, <1>2, <1>3, <1>4 DEF Accepted

\* A process starts with an environment of its own, ends, or keeps it.
LEMMA StepKinds ==
  ASSUME [Next]_vars
  PROVE  Load \/ (\E why : Off(why)) \/ env' = env
  BY DEF Next, Refuse, Connect, BuildOne, BuildFails, BuildLosesRedis, Serve,
         TickerPanics, Ends, ReclaimPass, ReportPass, Publish, vars
-----------------------------------------------------------------------------
(***************************************************************************)
(* Redis.                                                                  *)
(***************************************************************************)
RedisTypeOK ==
  /\ kind \in [Names -> {"none", "stream", "list"}]
  /\ groups \subseteq Names \X AgentIds

\* Build asks for a group of an agent of the list, enabled, or Redis's groups stay
\* as they are.
LEMMA GroupSteps ==
  ASSUME [Next]_vars
  PROVE  \/ /\ phase = "build"
            /\ \E i \in DOMAIN Agents :
                 /\ Agents[i].enabled /\ Agents[i].mode = "stream"
                 /\ NewStreamSource(Agents[i])
         \/ UNCHANGED redisVars
         \/ \E n \in Names : Publish(n)
  BY DEF Next, Load, Refuse, Connect, BuildOne, BuildFails, BuildLosesRedis, At,
         Serve, TickerPanics, Ends, ReclaimPass, ReportPass, vars

\* No command of anyone removes a group.
LEMMA GroupsStay == ASSUME [Next]_vars PROVE groups \subseteq groups'
  BY GroupSteps DEF NewStreamSource, redisVars, Publish

\* A group is made on a name, for the id of an agent, because no configuration
\* without them is accepted.
LEMMA RedisStep ==
  ASSUME RedisTypeOK, env \in Environments, BuildsTheAccepted, [Next]_vars
  PROVE  RedisTypeOK'
  <1>1. ASSUME phase = "build", NEW i \in DOMAIN Agents, Agents[i].enabled,
               Agents[i].mode = "stream", NewStreamSource(Agents[i])
        PROVE  RedisTypeOK'
    <2>1. Agents[i].source \in Names /\ Agents[i].id \in AgentIds
      BY <1>1, EnabledIsValid DEF BuildsTheAccepted, Running
    <2> QED
      BY <1>1, <2>1 DEF NewStreamSource, RedisTypeOK, GroupName
  <1>2. ASSUME NEW n \in Names, Publish(n) PROVE RedisTypeOK'
    <2>1. GatewayKind[n] \in {"none", "stream", "list"}
      BY StartupAssumption DEF StartupAssumption
    <2> QED
      BY <1>2, <2>1 DEF Publish, RedisTypeOK
  <1>3. CASE UNCHANGED redisVars
    BY <1>3 DEF redisVars, RedisTypeOK
  <1> QED
    BY <1>1, <1>2, <1>3, GroupSteps
-----------------------------------------------------------------------------
(***************************************************************************)
(* Types.                                                                  *)
(***************************************************************************)
\* What run returns when it ends, and what a pass can say.
Failures == {"none", "config", "redis", "mode", "kind", "destination",
             "task", "group", "ticker", "ended"}

\* The parts of TypeOK that are not Redis's.
ProcessTypeOK ==
  /\ phase \in {"off", "connect", "build", "serve"}
  /\ env \in Environments
  /\ next \in 1 .. IF phase \in {"build", "serve"} THEN Len(env.ids) + 1 ELSE 1
  /\ built \in SUBSET AgentIds
  /\ failure \in Failures
  /\ pass.task \in {"none", "reclaim", "report"}
  /\ pass.end \in {"none", "whole", "error", "fault"}

LEMMA TypeParts == TypeOK <=> ProcessTypeOK /\ RedisTypeOK
  BY DEF TypeOK, ProcessTypeOK, RedisTypeOK, Failures

\* There is an environment to be off with.
LEMMA OffType ==
  /\ NoEnv \in Environments
  /\ NoPass.task = "none" /\ NoPass.end = "none" /\ NoPass.reached = {}
  <1>1. Environments # {}
    BY StartupAssumption DEF StartupAssumption
  <1> QED
    BY <1>1 DEF NoEnv, NoPass

LEMMA ObstacleType == \A a : Obstacle(a) \in Failures
  BY DEF Obstacle, Failures

\* A process that ends, for whatever reason, is well typed.
LEMMA OffStep ==
  ASSUME NEW why \in Failures, Off(why) PROVE ProcessTypeOK'
  <1>1. /\ phase' = "off" /\ env' = NoEnv /\ failure' = why
        /\ built' = {} /\ next' = 1 /\ pass' = NoPass
    BY DEF Off
  <1> QED
    BY <1>1, OffType DEF ProcessTypeOK

\* A pass of either task has one of three ends.
LEMMA PassType ==
  ASSUME ReclaimPass \/ ReportPass
  PROVE  /\ pass'.task \in {"none", "reclaim", "report"}
         /\ pass'.end \in {"none", "whole", "error", "fault"}
  <1>1. CASE ReclaimPass
    BY <1>1 DEF ReclaimPass, Walk
  <1>2. CASE ReportPass
    BY <1>2 DEF ReportPass, Walk
  <1> QED
    BY <1>1, <1>2

LEMMA ProcessStep ==
  ASSUME ProcessTypeOK, [Next]_vars PROVE ProcessTypeOK'
  <1>1. CASE Load
    BY <1>1 DEF Load, ProcessTypeOK, Failures
  <1>2. CASE \E why \in Failures : Off(why)
    BY <1>2, OffStep
  <1>3. CASE Connect /\ phase' = "build"
    <2>1. next = 1 /\ Len(env.ids) \in Nat
      BY <1>3, AgentsOfIds DEF ProcessTypeOK, Connect
    <2>2. UNCHANGED <<env, next, built, failure, pass>>
      BY <1>3 DEF Connect, Off
    <2> QED
      BY <1>3, <2>1, <2>2 DEF ProcessTypeOK
  <1>4. CASE BuildOne
    <2>1. PICK i \in DOMAIN Agents :
            built' = built \cup {Agents[i].id} /\ next' = i + 1
      BY <1>4 DEF BuildOne
    <2>2. UNCHANGED <<phase, env, failure, pass>> /\ phase = "build"
      BY <1>4 DEF BuildOne
    <2>3. next' \in 1 .. Len(env.ids) + 1
      BY <2>1, AgentsOfIds DEF ProcessTypeOK
    <2>4. built' \in SUBSET AgentIds
      BY <2>1, AgentsOfIds DEF ProcessTypeOK
    <2> QED
      BY <2>2, <2>3, <2>4 DEF ProcessTypeOK
  <1>5. CASE Serve
    BY <1>5 DEF Serve, ProcessTypeOK
  <1>6. CASE ReclaimPass \/ ReportPass
    <2>1. UNCHANGED <<phase, env, next, built, failure>>
      BY <1>6 DEF ReclaimPass, ReportPass
    <2> QED
      BY <1>6, <2>1, PassType DEF ProcessTypeOK
  <1>7. CASE UNCHANGED <<phase, env, next, built, failure, pass>>
    BY <1>7 DEF ProcessTypeOK
  <1>8. CASE Refuse \/ TickerPanics \/ Ends \/ BuildLosesRedis
    BY <1>2, <1>8 DEF Refuse, TickerPanics, Ends, BuildLosesRedis, Failures
  <1>9. CASE BuildFails
    BY <1>2, <1>9, ObstacleType DEF BuildFails
  <1>10. CASE Connect
    <2>1. phase' = "build" \/ Off("redis")
      BY <1>10 DEF Connect
    <2> QED
      BY <1>2, <1>3, <1>10, <2>1 DEF Failures
  <1> QED
    BY <1>1, <1>4, <1>5, <1>6, <1>7, <1>8, <1>9, <1>10
    DEF Next, Publish, vars
-----------------------------------------------------------------------------
(***************************************************************************)
(* What Build does, agent after agent.                                     *)
(***************************************************************************)
\* A process that has just been started or has ended has built nothing and has
\* no pass behind it, so there is nothing to show of it.
LEMMA IdleStep ==
  ASSUME PassIsServed, Load \/ (\E why : Off(why))
  PROVE  /\ phase' \in {"connect", "off"} /\ pass'.task = "none"
         /\ BuildsTheAccepted' /\ BuiltSoFar' /\ ServesAll' /\ PassIsServed'
         /\ WholeReportIsComplete'
  <1>1. phase' \in {"connect", "off"} /\ pass'.task = "none"
    BY OffType DEF Load, Off, PassIsServed
  <1>2. BuildsTheAccepted' /\ BuiltSoFar'
    BY <1>1 DEF BuildsTheAccepted, BuiltSoFar, Running
  <1>3. ServesAll' /\ PassIsServed' /\ WholeReportIsComplete'
    BY <1>1 DEF ServesAll, PassIsServed, WholeReportIsComplete
  <1> QED
    BY <1>1, <1>2, <1>3

LEMMA AcceptedStep ==
  ASSUME BuildsTheAccepted, [Next]_vars, env' = env PROVE BuildsTheAccepted'
  <1> SUFFICES ASSUME Running' PROVE Accepted
    BY SameEnv DEF BuildsTheAccepted
  <1>1. CASE Connect
    BY <1>1 DEF Connect
  <1>2. CASE Running
    BY <1>2 DEF BuildsTheAccepted
  <1> QED
    BY <1>1, <1>2
    DEF Running, Next, Load, Refuse, BuildOne, BuildFails, BuildLosesRedis,
        Serve, TickerPanics, Ends, Off, ReclaimPass, ReportPass, Publish, vars

\* What the loop has done for an agent stays done while the process runs.
LEMMA DoneStays ==
  ASSUME [Next]_vars, built \subseteq built', NEW a, Done(a) PROVE Done(a)'
  BY GroupsStay DEF Done, GroupName, TaskFor

\* buildOne does for the agent it is at what Done asks for.
LEMMA BuildOneDoes ==
  ASSUME NEW a, Obstacle(a) = "none",
         \/ a.mode = "stream" /\ a.kind = "stream" /\ NewStreamSource(a)
         \/ ~(a.mode = "stream" /\ a.kind = "stream"),
         built' = built \cup {a.id}
  PROVE  Done(a)'
  <1>1. a.id \in built'
    OBVIOUS
  <1>2. a.mode = "stream" /\ a.kind = "stream" =>
          <<a.source, GroupName(a.id)>> \in groups'
    BY DEF NewStreamSource
  <1>3. a.mode = "periodic" => TaskFor(a) # "unknown"
    <2> SUFFICES ASSUME a.mode = "periodic", TaskFor(a) = "unknown" PROVE FALSE
      OBVIOUS
    <2>1. Obstacle(a) \in {"destination", "task"}
      BY DEF Obstacle
    <2> QED
      BY <2>1
  <1> QED
    BY <1>1, <1>2, <1>3 DEF Done, GroupName, TaskFor

LEMMA BuiltStep ==
  ASSUME ProcessTypeOK, BuiltSoFar, [Next]_vars, env' = env
  PROVE  BuiltSoFar'
  <1> SUFFICES ASSUME Running', NEW i \in DOMAIN Agents, i < next',
                      Agents[i].enabled
               PROVE  Done(Agents[i])'
    BY SameEnv DEF BuiltSoFar
  <1>1. PICK a : a = Agents[i] /\ a = Agents'[i]
    BY SameEnv
  <1> SUFFICES Done(a)'
    BY <1>1 DEF Done
  <1>2. env \in Environments /\ next \in Nat /\ i \in Nat /\ i >= 1
    <2>1. env \in Environments
      BY DEF ProcessTypeOK
    <2>2. Len(env.ids) \in Nat /\ i \in 1 .. Len(env.ids)
      BY <2>1, AgentsOfIds
    <2> QED
      BY <2>1, <2>2 DEF ProcessTypeOK
  <1>3. CASE Running /\ i < next /\ built \subseteq built'
    <2>1. Done(a)
      BY <1>1, <1>3 DEF BuiltSoFar
    <2> QED
      BY <1>3, <2>1, DoneStays
  <1>4. CASE BuildOne
    <2>1. PICK k \in DOMAIN Agents :
            /\ At(k)
            /\ Obstacle(Agents[k]) = "none"
            /\ \/ /\ Agents[k].mode = "stream" /\ Agents[k].kind = "stream"
                  /\ NewStreamSource(Agents[k])
               \/ ~(Agents[k].mode = "stream" /\ Agents[k].kind = "stream")
            /\ built' = built \cup {Agents[k].id}
            /\ next' = k + 1
      BY <1>4 DEF BuildOne
    <2>2. k \in Nat
      BY <1>2, AgentsOfIds
    <2>3. CASE i < next
      BY <1>3, <1>4, <2>1, <2>3 DEF BuildOne, Running
    <2>4. CASE i >= next /\ i # k
      <3>1. i \in next .. k - 1
        BY <1>2, <2>1, <2>2, <2>4
      <3> QED
        BY <2>1, <3>1 DEF At
    <2>5. CASE i = k
      <3>1. /\ Obstacle(a) = "none"
            /\ \/ a.mode = "stream" /\ a.kind = "stream" /\ NewStreamSource(a)
               \/ ~(a.mode = "stream" /\ a.kind = "stream")
            /\ built' = built \cup {a.id}
        BY <1>1, <2>1, <2>5
      <3> QED
        BY <3>1, BuildOneDoes
    <2> QED
      BY <1>2, <2>3, <2>4, <2>5
  <1>5. CASE Connect
    <2>1. next = 1 /\ next' = next
      BY <1>5 DEF Connect, Off, ProcessTypeOK, Running
    <2> QED
      BY <1>2, <2>1
  <1>6. CASE Running /\ next' = next /\ built' = built
    BY <1>3, <1>6
  <1> QED
    BY <1>4, <1>5, <1>6
    DEF Running, Next, Load, Refuse, BuildFails, BuildLosesRedis, Serve,
        TickerPanics, Ends, Off, ReclaimPass, ReportPass, Publish, vars

LEMMA ServesStep ==
  ASSUME ProcessTypeOK, ServesAll, [Next]_vars, env' = env PROVE ServesAll'
  <1> SUFFICES ASSUME phase' = "serve" PROVE ServesAll'
    BY DEF ServesAll
  <1>1. CASE Serve
    <2> SUFFICES ASSUME NEW i \in DOMAIN Agents, Agents[i].enabled, i >= next
                 PROVE  FALSE
      <3>1. \A i \in DOMAIN Agents : i \in Nat
        BY AgentsOfIds DEF ProcessTypeOK
      <3>2. next \in Nat /\ next' = next
        BY <1>1, AgentsOfIds DEF Serve, ProcessTypeOK
      <3> QED
        BY <3>1, <3>2, SameEnv DEF ServesAll
    <2> DEFINE S == {j \in DOMAIN Agents : Agents[j].enabled /\ j >= next}
    <2>1. S \subseteq Nat /\ S # {}
      BY AgentsOfIds DEF ProcessTypeOK
    <2>2. PICK k \in S : \A j \in S : k <= j
      BY <2>1, HasFirst
    <2>3. At(k)
      <3>1. DOMAIN Agents = 1 .. Len(env.ids) /\ Len(env.ids) \in Nat
            /\ next \in 1 .. Len(env.ids) + 1
        BY <1>1, AgentsOfIds DEF ProcessTypeOK, Serve
      <3>2. \A j \in next .. k - 1 : j \in DOMAIN Agents /\ ~(k <= j) /\ j >= next
        BY <2>2, <3>1
      <3> QED
        BY <2>2, <3>2 DEF At
    <2> QED
      BY <1>1, <2>2, <2>3 DEF Serve
  <1>2. CASE phase = "serve" /\ next' = next
    BY <1>2, SameEnv DEF ServesAll
  <1> QED
    BY <1>1, <1>2
    DEF Next, Load, Refuse, Connect, BuildOne, BuildFails, BuildLosesRedis,
        TickerPanics, Ends, Off, ReclaimPass, ReportPass, Publish, vars
-----------------------------------------------------------------------------
(***************************************************************************)
(* The passes of the periodic tasks.                                       *)
(***************************************************************************)
LEMMA ServedStep ==
  ASSUME PassIsServed, [Next]_vars, env' = env PROVE PassIsServed'
  <1>1. CASE ReclaimPass \/ ReportPass
    BY <1>1 DEF ReclaimPass, ReportPass, PassIsServed
  <1>2. CASE UNCHANGED <<phase, pass>>
    BY <1>2 DEF PassIsServed
  <1>3. CASE \E why : Off(why)
    BY <1>3, IdleStep
  <1>4. CASE phase # "serve" /\ pass' = pass
    BY <1>4 DEF PassIsServed
  <1> QED
    BY <1>1, <1>2, <1>3, <1>4
    DEF Next, Load, Refuse, Connect, BuildOne, BuildFails, BuildLosesRedis,
        Serve, TickerPanics, Ends, Publish, vars

\* Of the usable agents of a source the first one is in sourceRefs.
LEMMA SourceIsVisited ==
  ASSUME env \in Environments, NEW i \in DOMAIN Agents, Usable(i)
  PROVE  \E k \in sourceRefs : Agents[k].source = Agents[i].source
  <1> DEFINE S == {j \in DOMAIN Agents :
                     Usable(j) /\ Agents[j].source = Agents[i].source}
  <1>1. DOMAIN Agents = 1 .. Len(env.ids) /\ Len(env.ids) \in Nat
    BY AgentsOfIds
  <1>2. S \subseteq Nat /\ S # {}
    BY <1>1
  <1>3. PICK k \in S : \A j \in S : k <= j
    BY <1>2, HasFirst
  <1>4. \A j \in 1 .. k - 1 : j \in DOMAIN Agents /\ ~(k <= j)
    BY <1>1, <1>3
  <1>5. \A j \in 1 .. k - 1 : Usable(j) => Agents[j].source # Agents[k].source
    BY <1>3, <1>4
  <1> QED
    BY <1>3, <1>5 DEF sourceRefs

\* A report that came to the end of the list has passed all of sourceRefs.
LEMMA WholeReportVisits ==
  ASSUME env \in Environments, ReportPass, pass'.end = "whole",
         NEW k \in sourceRefs
  PROVE  <<Agents[k].source>> \in pass'.reached
  <1> DEFINE Visited(a) == {<<a.source>>}
  <1>1. PICK n \in sourceRefs \cup {Len(env.ids) + 1} :
          /\ pass'.end = "whole" => n \notin sourceRefs
          /\ pass'.reached = UNION {Visited(a) : a \in Before(n)}
    BY DEF ReportPass, Walk
  <1>2. n = Len(env.ids) + 1
    BY <1>1
  <1>3. k < n
    BY <1>2, AgentsOfIds DEF sourceRefs
  <1>4. Agents[k] \in Before(n)
    BY <1>3 DEF Before
  <1> QED
    BY <1>1, <1>4

LEMMA ReportStep ==
  ASSUME ProcessTypeOK, BuildsTheAccepted, WholeReportIsComplete, PassIsServed,
         [Next]_vars, env' = env
  PROVE  WholeReportIsComplete'
  <1>1. CASE ReportPass
    <2> SUFFICES ASSUME pass'.end = "whole", NEW a \in Enabled, a.mode = "stream"
                 PROVE  <<a.source>> \in pass'.reached
      BY SameEnv DEF WholeReportIsComplete
    <2>1. PICK i \in DOMAIN Agents : a = Agents[i] /\ Agents[i].enabled
      BY EnabledIsListed
    <2>2. env \in Environments /\ Accepted
      BY <1>1 DEF ProcessTypeOK, BuildsTheAccepted, Running, ReportPass
    <2>3. Usable(i)
      BY <2>1, <2>2, EnabledIsValid DEF Usable
    <2>4. PICK k \in sourceRefs : Agents[k].source = Agents[i].source
      BY <2>2, <2>3, SourceIsVisited
    <2>5. <<Agents[k].source>> \in pass'.reached
      BY <1>1, <2>2, WholeReportVisits
    <2> QED
      BY <2>1, <2>4, <2>5
  <1>2. CASE ReclaimPass
    <2>1. pass'.task = "reclaim"
      BY <1>2 DEF ReclaimPass, Walk
    <2> QED
      BY <2>1 DEF WholeReportIsComplete
  <1>3. CASE \E why : Off(why)
    BY <1>3, IdleStep
  <1>4. CASE pass' = pass
    BY <1>4, SameEnv DEF WholeReportIsComplete
  <1> QED
    BY <1>1, <1>2, <1>3, <1>4
    DEF Next, Load, Refuse, Connect, BuildOne, BuildFails, BuildLosesRedis,
        Serve, TickerPanics, Ends, Publish, vars

-----------------------------------------------------------------------------
LEMMA InitInv == Init => IInv
  <1> SUFFICES ASSUME Init PROVE IInv
    OBVIOUS
  <1>1. phase = "off" /\ pass = NoPass /\ pass.task = "none" /\ pass.end = "none"
    BY OffType DEF Init
  <1>2. ProcessTypeOK
    BY <1>1, OffType DEF Init, ProcessTypeOK, Failures
  <1>3. RedisTypeOK
    BY DEF Init, RedisTypeOK
  <1>4. BuildsTheAccepted /\ BuiltSoFar
    BY <1>1 DEF BuildsTheAccepted, BuiltSoFar, Running
  <1>5. ServesAll /\ PassIsServed /\ WholeReportIsComplete
    BY <1>1 DEF ServesAll, PassIsServed, WholeReportIsComplete
  <1> QED
    BY <1>2, <1>3, <1>4, <1>5, TypeParts DEF IInv

LEMMA StepInv == ASSUME IInv, [Next]_vars PROVE IInv'
  <1>1. ProcessTypeOK /\ RedisTypeOK
    BY TypeParts DEF IInv
  <1>2. TypeOK'
    <2>1. ProcessTypeOK' /\ RedisTypeOK'
      BY <1>1, ProcessStep, RedisStep DEF IInv, ProcessTypeOK
    <2> QED
      BY <2>1, TypeParts, PTL
  <1>3. CASE Load \/ \E why : Off(why)
    BY <1>2, <1>3, IdleStep DEF IInv
  <1>4. CASE env' = env
    BY <1>1, <1>2, <1>4, AcceptedStep, BuiltStep, ServesStep, ServedStep,
       ReportStep DEF IInv
  <1> QED
    BY <1>3, <1>4, StepKinds

LEMMA Invariant == Spec => []IInv
  BY InitInv, StepInv, PTL DEF Spec

\* Every variable keeps its type, whatever environments the process is started in
\* and wherever a start ends.
THEOREM TypeCorrect == Spec => []TypeOK
  BY Invariant, PTL DEF IInv

\* A process that serves has built every agent its environment enables, with its
\* group, its task and its interval (Load, Validate, Build and buildOne).
THEOREM EnabledIsServed == Spec => []ServesWhatIsEnabled
  <1>1. ASSUME IInv PROVE ServesWhatIsEnabled
    <2> SUFFICES ASSUME phase = "serve", NEW a \in Enabled
                 PROVE  Done(a) /\ (a.mode = "periodic" => a.interval > 0)
      BY DEF ServesWhatIsEnabled, Done
    <2>1. PICK i \in DOMAIN Agents : a = Agents[i] /\ Agents[i].enabled
      BY EnabledIsListed
    <2>2. Done(Agents[i])
      BY <1>1, <2>1 DEF IInv, ServesAll, BuiltSoFar, Running
    <2>3. env \in Environments /\ Accepted
      BY <1>1 DEF IInv, TypeOK, BuildsTheAccepted, Running
    <2> QED
      BY <2>1, <2>2, <2>3, EnabledIsValid
  <1> QED
    BY <1>1, Invariant, PTL

\* A report that ends without an error has visited the source of every enabled
\* stream agent (sourceRefs and ReportTask.Run).
THEOREM ReportIsComplete == Spec => []WholeReportIsComplete
  BY Invariant, PTL DEF IInv
=============================================================================
