------------------------------- MODULE ChatRoom -------------------------------
(***************************************************************************)
(* What a chat server promises its users: one order of all messages.  A    *)
(* message gets its place in the order when the server takes it; a user    *)
(* sees messages of others in that order, none twice and none from before  *)
(* the user's own first message.  A user may miss messages: the chat runs  *)
(* over datagrams.  Module ChatUdp implements this specification.          *)
(***************************************************************************)
EXTENDS Naturals, Sequences

CONSTANTS Users, Messages       \* a message is a record with a field "from"

VARIABLES
    log,        \* the messages the server took, in order
    seen        \* seen[u]: the messages on u's screen, in order

roomVars == <<log, seen>>

Init ==
    /\ log = << >>
    /\ seen = [u \in Users |-> << >>]

Post(m) ==
    /\ \A i \in 1..Len(log) : log[i] # m
    /\ log' = Append(log, m)
    /\ UNCHANGED seen

(* u sees the i-th message: it is not u's own, u has spoken before it, and *)
(* everything u has seen comes before it.                                  *)
See(u, i) ==
    /\ log[i].from # u
    /\ \E j \in 1..(i-1) : log[j].from = u
    /\ \A k \in 1..Len(seen[u]) : \E j \in 1..(i-1) : log[j] = seen[u][k]
    /\ seen' = [seen EXCEPT ![u] = Append(@, log[i])]
    /\ UNCHANGED log

Next ==
    \/ \E m \in Messages : Post(m)
    \/ \E u \in Users : \E i \in 1..Len(log) : See(u, i)

Spec == Init /\ [][Next]_roomVars

=============================================================================
