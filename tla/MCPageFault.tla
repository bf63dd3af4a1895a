---------------------------- MODULE MCPageFault ----------------------------
(* An instance of PageFault for TLC. *)
EXTENDS PageFault, TLC

CONSTANTS t0, t1, t2, x0, x1, x2, x3

\* Page x0 lies in the page table that is there from the start, x1 and x2 share
\* a page table, and x3 has one of its own.
MCTableOf == x0 :> t0 @@ x1 :> t1 @@ x2 :> t1 @@ x3 :> t2
=============================================================================
