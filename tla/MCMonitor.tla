----------------------------- MODULE MCMonitor ------------------------------
(***************************************************************************)
(* Model checking of Monitor: one agent, or two on one source.  An agent   *)
(* is a string here, as its id and its source's name are in the code.      *)
(***************************************************************************)
EXTENDS Monitor

OneAgent == <<"drain">>
TwoAgents == <<"orders", "audit">>
SameSource == [a \in {"drain", "orders", "audit"} |-> "events"]
=============================================================================
