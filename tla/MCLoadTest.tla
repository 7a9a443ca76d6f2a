------------------------------ MODULE MCLoadTest ------------------------------
(***************************************************************************)
(* Instances of LoadTest for TLC: the reads are named after the node that  *)
(* serves them.                                                            *)
(***************************************************************************)
EXTENDS LoadTest

CONSTANTS atLeader, atFollower

MCAt == [g \in Reads |-> IF g = atLeader THEN Leader ELSE 1]
=============================================================================
