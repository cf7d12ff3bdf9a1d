----------------------------- MODULE MCTwoWayChat -----------------------------
(* Model-checking instances of TwoWayChat. *)
EXTENDS TwoWayChat
=============================================================================
