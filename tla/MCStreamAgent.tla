--------------------------- MODULE MCStreamAgent ----------------------------
(***************************************************************************)
(* Model checking of StreamAgent.  The instances of a group differ only in *)
(* their names, so the runs that check no liveness use them symmetrically. *)
(***************************************************************************)
EXTENDS StreamAgentLedger, TLC

InstanceSymmetry == Permutations(Consumers)
=============================================================================
