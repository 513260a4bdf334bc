----------------------------- MODULE MCTaskBranches ----------------------------
(* One command line and one name: nothing races. *)
EXTENDS TaskBranches
===============================================================================
