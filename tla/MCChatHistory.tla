----------------------------- MODULE MCChatHistory -----------------------------
(* Model-checking instances of ChatHistory. *)
EXTENDS ChatHistory
=============================================================================
