----------------------------- MODULE MCChatUdp -----------------------------
(* Model-checking instances of ChatUdp. *)
EXTENDS ChatUdp
=============================================================================
