------------------------------ MODULE MCLottery ------------------------------
(* Model-checking instances of Lottery. *)
EXTENDS Lottery

CONSTANT Reused     \* the addresses that a second client gets

Runs == [a \in Addrs |-> IF a \in Reused THEN 2 ELSE 1]
=============================================================================
