----------------------------- MODULE MCSortServer -----------------------------
(* Model-checking instances of SortServer. *)
EXTENDS SortServer
=============================================================================
