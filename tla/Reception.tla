------------------------------ MODULE Reception -------------------------------
(***************************************************************************)
(* What a forking server promises its clients: they queue at a desk, are   *)
(* called in the order in which they came, one at a time, and are given a  *)
(* helper of their own, once, by the desk and nobody else.  A client that  *)
(* cannot be given one is sent away, and the desk may close at any time.   *)
(***************************************************************************)
EXTENDS Sequences

CONSTANT Clients

VARIABLES
    seen,       \* clients that have come, also those that found it closed
    queue,      \* those who wait
    desk,       \* the client at the desk, if there is one
    given,      \* clients that were given a helper
    helped      \* clients whose helper is busy with them

vars == <<seen, queue, desk, given, helped>>

Init ==
    /\ seen = {} /\ queue = << >> /\ desk = {}
    /\ given = {} /\ helped = {}

Arrive(c) ==
    /\ c \notin seen
    /\ seen' = seen \cup {c}
    /\ queue' \in {queue, Append(queue, c)}
    /\ UNCHANGED <<desk, given, helped>>

Call ==
    /\ queue # << >> /\ desk = {}
    /\ desk' = {Head(queue)}
    /\ queue' = Tail(queue)
    /\ UNCHANGED <<seen, given, helped>>

Assign ==
    /\ \E c \in desk \ given :
          /\ given' = given \cup {c}
          /\ helped' = helped \cup {c}
    /\ UNCHANGED <<seen, queue, desk>>

(* Those who wait go when the desk closes. *)
MayClose == queue' \in {queue, << >>}

(* The client at the desk is left to its helper, or sent away. *)
Dismiss ==
    /\ desk # {} /\ desk' = {}
    /\ MayClose
    /\ UNCHANGED <<seen, given, helped>>

Finish(c) ==
    /\ c \in helped
    /\ helped' = helped \ {c}
    /\ MayClose
    /\ UNCHANGED <<seen, desk, given>>

Close ==
    /\ queue' = << >>
    /\ UNCHANGED <<seen, desk, given, helped>>

Next ==
    \/ \E c \in Clients : Arrive(c) \/ Finish(c)
    \/ Call \/ Assign \/ Dismiss \/ Close

Spec == Init /\ [][Next]_vars

=============================================================================
