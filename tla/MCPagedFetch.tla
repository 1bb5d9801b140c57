---------------------------- MODULE MCPagedFetch ----------------------------
(***************************************************************************)
(* Instances of PagedFetch for TLC: a service whose first document links   *)
(* to the second, which has no <nav>, a <nav> without `next`, or links to  *)
(* the third; in one service a second <nav> comes after.                   *)
(***************************************************************************)
EXTENDS PagedFetch

ForwardServices ==
    {[u \in Urls |-> IF u = 1 THEN <<2>> ELSE << >>],
     [u \in Urls |-> IF u = 1 THEN <<2, 3>> ELSE IF u = 2 THEN <<3>> ELSE <<Absent>>]}
=============================================================================
