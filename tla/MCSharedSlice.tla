---------------------------- MODULE MCSharedSlice ----------------------------
(***************************************************************************)
(* Instances of SharedSlice for TLC.                                       *)
(***************************************************************************)
EXTENDS SharedSlice, TLC

\* Adds are interchangeable.
AddSymmetry == Permutations(Adds)
=============================================================================
