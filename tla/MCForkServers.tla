---------------------------- MODULE MCForkServers -----------------------------
(* Model-checking instances of ForkServers. *)
EXTENDS ForkServers
=============================================================================
