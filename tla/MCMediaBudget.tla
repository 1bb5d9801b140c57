---------------------------- MODULE MCMediaBudget ----------------------------
(***************************************************************************)
(* Instances of MediaBudget for TLC.                                       *)
(***************************************************************************)
EXTENDS MediaBudget, TLC

TaskSymmetry == Permutations(Tasks)
=============================================================================
