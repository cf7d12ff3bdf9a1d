----------------------------- MODULE MCDialogue -----------------------------
(* Model-checking instances of Dialogue. *)
EXTENDS Dialogue
=============================================================================
