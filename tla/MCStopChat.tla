----------------------------- MODULE MCStopChat -----------------------------
(* Model-checking instances of StopChat. *)
EXTENDS StopChat
=============================================================================
