---------------------------- MODULE MCLeaderless ----------------------------
(***************************************************************************)
(* Instances of Leaderless for TLC: three nodes and two writes, w1 at node *)
(* 1 and the other at node 2.                                              *)
(***************************************************************************)
EXTENDS Leaderless

CONSTANT w1

\* The first write and the others are sent to different coordinators.
TwoCoordinators == [w \in Writes |-> IF w = w1 THEN 1 ELSE 2]
=============================================================================
