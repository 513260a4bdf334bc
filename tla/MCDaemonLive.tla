---------------------------- MODULE MCDaemonLive ----------------------------
(* The daemon alone, under fairness, on one name. *)
EXTENDS Daemon

CONSTANT agent1

MCAutoId(n) == agent1
=============================================================================
