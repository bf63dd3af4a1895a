---------------------------- MODULE MCCompositor ----------------------------
(* Instances of Compositor for TLC. *)
EXTENDS Compositor, TLC

\* Sound: no action tells processes or blocks apart.
Symmetry == Permutations(Procs) \cup Permutations(Blocks)
=============================================================================
