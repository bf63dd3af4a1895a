------------------------------- MODULE MCPs2 -------------------------------
(* Instances of Ps2 for TLC. *)
EXTENDS Ps2

\* A movement whose packet looks like the answer to a status request, one whose last
\* byte looks like an acknowledgement, and one too large for a packet.
MCMoves == {<<-1, -216>>, <<0, -6>>, <<300, 50>>}
============================================================================
