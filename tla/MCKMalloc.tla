----------------------------- MODULE MCKMalloc -----------------------------
(* The heaps of the kernel and of an application, for TLC. *)
EXTENDS CMalloc
=============================================================================
