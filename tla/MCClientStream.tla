---------------------------- MODULE MCClientStream -----------------------------
(* One name, and a channel and a socket that fill up. *)
EXTENDS ClientStream
===============================================================================
