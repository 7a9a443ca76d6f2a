----------------------------- MODULE MCMapReduce -----------------------------
(***************************************************************************)
(* Instances of MapReduce for TLC: a text of four lines, whose last part   *)
(* is empty, and one of five, whose parts are of sizes two, two and one.   *)
(***************************************************************************)
EXTENDS MapReduce

CONSTANTS j1, j2, x, y

MCText == [j \in Jobs |-> IF j = j1 THEN <<x, x, y, x>> ELSE <<y, x, y, y, y>>]
=============================================================================
