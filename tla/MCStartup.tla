----------------------------- MODULE MCStartup ------------------------------
(***************************************************************************)
(* Model checking of Startup: two agents with any two of the profiles      *)
(* below, three where one reports, lists of ids that repeat, collide or    *)
(* normalise to nothing, and one list under every choice of the settings   *)
(* that are not an agent's.                                                *)
(***************************************************************************)
EXTENDS Startup, SequencesExt

\* "events" and "Events" both have the key EVENTS, "--" has none.
MCAgentIds == {"events", "Events", "pending_reclaim", "queue_report", "--"}
MCKeyOf ==
  [id \in MCAgentIds |->
     CASE id \in {"events", "Events"} -> "EVENTS"
       [] id = "pending_reclaim" -> "PENDING_RECLAIM"
       [] id = "queue_report" -> "QUEUE_REPORT"
       [] OTHER -> NoKey]

MCNames == {"ingestion-events", "ingestion-logs", "reclaim", "report"}
MCGatewayKind ==
  [n \in MCNames |-> CASE n = "ingestion-events" -> "stream"
                      [] n = "ingestion-logs" -> "list"
                      [] OTHER -> "none"]

Events ==
  [enabled |-> Absent, mode |-> "stream", source |-> "ingestion-events",
   kind |-> Absent, dests |-> {"ltr"}, interval |-> Absent]
Logs ==
  [Events EXCEPT !.source = "ingestion-logs", !.kind = "list",
                 !.dests = {"summary"}]
Upkeep ==
  [Events EXCEPT !.mode = "periodic", !.source = "reclaim", !.dests = {"none"},
                 !.interval = 1]

\* A task that is selected by the id of its agent.
ById == [Upkeep EXCEPT !.source = Absent]
Disabled == [Events EXCEPT !.enabled = FALSE]

\* Each of them a plausible set of AGENT_<KEY>_ settings, right or wrong.
Profiles ==
  { Events, Logs, Upkeep,
    [Upkeep EXCEPT !.source = "report"],
    ById,
    [Upkeep EXCEPT !.interval = Malformed],
    Disabled,
    [Disabled EXCEPT !.kind = "queue"],
    [Events EXCEPT !.enabled = Malformed],
    [Events EXCEPT !.kind = "queue"],
    [Events EXCEPT !.source = Absent],
    [Events EXCEPT !.mode = Absent],
    [Events EXCEPT !.dests = {}],
    [Events EXCEPT !.dests = {"ltr", "crm"}],
    [Logs EXCEPT !.kind = Absent] }

Environment(ids, a, b) ==
  [ids |-> ids, agent |-> [EVENTS |-> a, PENDING_RECLAIM |-> b,
                              QUEUE_REPORT |-> ById],
   email |-> Absent, supportTo |-> Absent, attempts |-> Absent,
   check |-> Absent, summary |-> "summary"]

Pair == <<"events", "pending_reclaim">>

MCEnvironments ==
  {Environment(l, a, b) :
     l \in {Pair, Reverse(Pair)}, a \in Profiles, b \in Profiles}
  \cup {Environment(<<"pending_reclaim", "events", "queue_report">>, a, b) :
          a \in {Events, Logs},
          b \in {Events, Disabled, [Disabled EXCEPT !.kind = "queue"],
                 [Disabled EXCEPT !.source = "reclaim"]}}
  \cup {Environment(<<"pending_reclaim">>, Events, b) : b \in Profiles}
  \cup {Environment(l, Events, Upkeep) :
          l \in {<<>>, <<"events", "Events">>, <<"events", "events">>,
                 <<"events", "--">>}}
  \cup {[Environment(Pair, Logs, Upkeep) EXCEPT
           !.email = m, !.supportTo = t, !.attempts = n, !.check = i,
           !.summary = s] :
          m \in {TRUE, Malformed}, t \in {Absent, "support"},
          n \in {0, 2}, i \in {0, 1}, s \in {Absent, "summary"}}
=============================================================================
