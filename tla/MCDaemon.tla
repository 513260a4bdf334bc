------------------------------ MODULE MCDaemon ------------------------------
(* The observed daemon on two names, the first of which is also the first    *)
(* automatic one, so that a name a client chose and a drawn one can collide. *)
EXTENDS DaemonHistory, TLC

CONSTANTS agent1, task

MCAutoId(n) == IF n = 1 THEN agent1 ELSE task

\* Connections are interchangeable.
ClientSymmetry == Permutations(Clients)
=============================================================================
