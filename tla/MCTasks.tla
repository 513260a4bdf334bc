-------------------------------- MODULE MCTasks --------------------------------
(***************************************************************************)
(* A command line, a terminal interface and a bridge request.  They meet   *)
(* over one name; two names meet only in a directory both tasks are bound  *)
(* to, which is the question of MCTasksOneDir.                             *)
(***************************************************************************)
EXTENDS TaskFlows
===============================================================================
