----------------------------- MODULE MCPtyStream ------------------------------
(* One agent's output and two interchangeable connections. *)
EXTENDS PtyStream, TLC

CONSTANTS c1, c2

Symmetry == Permutations(Clients)
=============================================================================
