------------------------------ MODULE LotteryRules ------------------------------
(***************************************************************************)
(* The number-guessing lottery as a player understands it, without tables, *)
(* sockets or datagrams: every player has a count of misses of its own, a  *)
(* right guess wins and clears that count, and the miss that makes         *)
(* MaxAttempts of them loses and clears it too.  Module LotteryServer      *)
(* implements this specification as long as its client table has room.     *)
(***************************************************************************)
EXTENDS Integers

CONSTANTS
    Players,        \* the addresses guesses come from
    Guesses,        \* the numbers a datagram can stand for
    Secrets,        \* the numbers a server may draw
    MaxAttempts     \* the misses that end a game

VARIABLES
    misses,         \* misses[p]: wrong guesses of p in its current game
    number,         \* the number to guess
    announced       \* the last answer: to whom and what

rulesVars == <<misses, number, announced>>

NothingYet == [to |-> "nobody", verdict |-> "none"]

Init ==
    /\ misses = [p \in Players |-> 0]
    /\ number \in Secrets
    /\ announced = NothingYet

(* p guesses the number. *)
Win(p, g) ==
    /\ g = number
    /\ misses' = [misses EXCEPT ![p] = 0]
    /\ announced' = [to |-> p, verdict |-> "win"]
    /\ UNCHANGED number

(* p misses and may try again. *)
Retry(p, g) ==
    /\ g # number
    /\ misses[p] + 1 < MaxAttempts
    /\ misses' = [misses EXCEPT ![p] = @ + 1]
    /\ announced' = [to |-> p, verdict |-> "retry"]
    /\ UNCHANGED number

(* p misses for the last time. *)
Lose(p, g) ==
    /\ g # number
    /\ misses[p] + 1 >= MaxAttempts
    /\ misses' = [misses EXCEPT ![p] = 0]
    /\ announced' = [to |-> p, verdict |-> "lose"]
    /\ UNCHANGED number

(* The house starts over with a number of its own choosing. *)
NewHouse ==
    /\ misses' = [p \in Players |-> 0]
    /\ number' \in Secrets
    /\ announced' = NothingYet

Next ==
    \/ \E p \in Players, g \in Guesses : Win(p, g) \/ Retry(p, g) \/ Lose(p, g)
    \/ NewHouse

Spec == Init /\ [][Next]_rulesVars

=============================================================================
