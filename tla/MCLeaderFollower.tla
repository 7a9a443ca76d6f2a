-------------------------- MODULE MCLeaderFollower --------------------------
(***************************************************************************)
(* Instances of LeaderFollower for TLC: two followers and up to three      *)
(* writes; the reads are named after the node that serves them.            *)
(***************************************************************************)
EXTENDS LeaderFollower, TLC

CONSTANTS atLeader, atFollower

MCAt == [g \in Reads |-> IF g = atLeader THEN Leader ELSE 1]

\* Writes are interchangeable: none is named anywhere.
WriteSymmetry == Permutations(Writes)
=============================================================================
