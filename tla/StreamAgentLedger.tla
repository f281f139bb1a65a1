------------------------- MODULE StreamAgentLedger --------------------------
(***************************************************************************)
(* The stream agent implements EventLedger.  The fate of an event is read  *)
(* off the group, the stream and the recorded outcomes.                    *)
(***************************************************************************)
EXTENDS StreamAgent

CutShort(e) == \E d \in Dests : result[e][d] = "cancelled"

\* Of an event published since the group was created and read by it.
FateOfRead(e) ==
  CASE e \in acked -> "acked"
    [] e \notin acked /\ pel[e] = None -> "lost"
    [] OTHER -> IF CutShort(e) THEN "cut"
                ELSE IF Resolved(e) THEN "resolved" ELSE "taken"

Fate(e) ==
  IF e > last THEN "unborn"
  ELSE IF ld = NoGroup \/ e <= start THEN "early"
  ELSE IF e <= ld THEN FateOfRead(e)
  ELSE IF e < first THEN "lost" ELSE "waiting"

Ledger ==
  INSTANCE EventLedger
    WITH open <- ld # NoGroup, fate <- [e \in Ids |-> Fate(e)]

\* The whole of the detailed specification - instances, retries, lost replies,
\* signals, panics, crashes and trimming - behaves as EventLedger promises: every
\* step of it takes one event a legal step further, or a batch of the oldest
\* waiting ones, or changes the fate of none (StreamAgent.Run and handle).
ImplementsLedger == Ledger!Spec
=============================================================================
