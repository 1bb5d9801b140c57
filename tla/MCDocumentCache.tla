--------------------------- MODULE MCDocumentCache ---------------------------
(***************************************************************************)
(* Instances of DocumentCache for TLC.                                     *)
(***************************************************************************)
EXTENDS DocumentCache, TLC

Symmetries == Permutations(Callers) \cup Permutations(Urls)
=============================================================================
