----------------------------- MODULE MCProcess -----------------------------
(* Instances of Process for TLC. *)
EXTENDS Process, TLC

\* Addresses are interchangeable: no action tells one from another.
Symmetry == Permutations(Procs)
=============================================================================
