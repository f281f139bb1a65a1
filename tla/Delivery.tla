------------------------------ MODULE Delivery ------------------------------
(***************************************************************************)
(* What the components hand to each other: stream entries, known by their  *)
(* position, and the consumers that read them.                             *)
(*                                                                         *)
(* A Redis entry id is "<ms>-<seq>" and ids grow with every XADD, so an    *)
(* entry is modelled by its rank in the stream: 1 is the oldest entry, and *)
(* 0 stands for the id "0-0".  A payload is abstracted to the one thing    *)
(* the code tells apart, whether envelope.Parse accepts it (`bad` in       *)
(* RedisStream holds the entries it refuses).                              *)
(***************************************************************************)
EXTENDS Integers

CONSTANTS
  Consumers,  \* consumer names of one agent's group, one per running instance
  None,       \* owner of an entry that is not pending
  MaxId       \* bound: entries the gateway adds in a behaviour

ASSUME NoneAssumption == None \notin Consumers
ASSUME MaxIdAssumption == MaxId \in Nat

Ids == 1 .. MaxId

Larger(a, b) == IF a < b THEN b ELSE a
Smaller(a, b) == IF a < b THEN a ELSE b
=============================================================================
