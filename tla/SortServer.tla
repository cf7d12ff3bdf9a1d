------------------------------ MODULE SortServer ------------------------------
(***************************************************************************)
(* The server stringarray/sv_strarr.c: it reads numbers, sorts them with   *)
(* qsort() and intcmp(), and sends them back.  An int has Width bits;      *)
(* intcmp() subtracts, and the difference wraps around.                    *)
(***************************************************************************)
EXTENDS Integers, Sequences, SequencesExt

CONSTANTS
    Width,          \* bits of an int
    MaxCount        \* bound: numbers in a request

VARIABLES
    phase,          \* what the loop does next: "accept", "sort" or "send"
    numbers,        \* numbers[]
    request, reply  \* what the client sent last, and what it was sent

vars == <<phase, numbers, request, reply>>

Ints == -(2^(Width - 1)) .. (2^(Width - 1) - 1)

Wrap(x) == ((x + 2^(Width - 1)) % (2^Width)) - 2^(Width - 1)

intcmp(a, b) == Wrap(a - b)

IsOrderOn(S) ==
    /\ \A a, b \in S : intcmp(a, b) > 0 <=> intcmp(b, a) < 0
    /\ \A a, b, c \in S : intcmp(a, b) <= 0 /\ intcmp(b, c) <= 0 => intcmp(a, c) <= 0

(* What qsort() may leave of s.  Where intcmp() is no order of the numbers *)
(* (a difference of -2^(Width-1) is negative both ways, others go round)   *)
(* the result depends on the library: any permutation.                     *)
Qsorted(s) ==
    {t \in {[i \in DOMAIN s |-> s[p[i]]] : p \in Permutations(DOMAIN s)} :
        IsOrderOn(Range(s)) =>
            \A i, j \in DOMAIN s : i < j => intcmp(t[i], t[j]) <= 0}

Init ==
    /\ phase = "accept"
    /\ numbers = << >> /\ request = << >> /\ reply = << >>

(* accept(), recv() and the parsing.  A client that sends no number, or    *)
(* leaves, is closed.                                                      *)
Accept ==
    /\ phase = "accept"
    /\ \E s \in BoundedSeq(Ints, MaxCount) :
          /\ request' = s
          /\ numbers' = s
          /\ phase' = IF s = << >> THEN "accept" ELSE "sort"
    /\ reply' = << >>

Sort ==
    /\ phase = "sort"
    /\ numbers' \in Qsorted(numbers)
    /\ phase' = "send"
    /\ UNCHANGED <<request, reply>>

Send ==
    /\ phase = "send"
    /\ reply' = numbers
    /\ phase' = "accept"
    /\ UNCHANGED <<numbers, request>>

Next == Accept \/ Sort \/ Send

Spec == Init /\ [][Next]_vars

(* Lines 2 to 5: the client receives the same sequence in increasing       *)
(* order.  Requests on which the result is the library's are left out.     *)
SortedReply ==
    IsOrderOn(Range(request)) =>
        \A i, j \in DOMAIN reply : i < j => reply[i] <= reply[j]

=============================================================================
