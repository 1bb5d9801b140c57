---------------------------- MODULE MCRateLimit ----------------------------
(***************************************************************************)
(* Instances of RateLimit for TLC: a window of a few ticks, on a clock     *)
(* that outlasts it more than once.                                        *)
(***************************************************************************)
EXTENDS RateLimit, TLC

TaskSymmetry == Permutations(Tasks)
=============================================================================
