----------------------------- MODULE MCGoldChat -----------------------------
(* Model-checking instances of GoldChat. *)
EXTENDS GoldChat
=============================================================================
