------------------------------- MODULE MCVmm -------------------------------
(* Instances of Vmm for TLC. *)
EXTENDS Vmm, TLC

\* Sound for the safety properties: no action tells threads apart.
Symmetry == Permutations(Threads)
=============================================================================
