------------------------------- MODULE Dialogue -------------------------------
(***************************************************************************)
(* Four iterative UDP servers and their clients, which send a line and     *)
(* wait for one datagram:                                                  *)
(*   "time"    server_udp.c: T asks the time, N how often it was asked,    *)
(*             anything else waits for the operator;                       *)
(*   "square"  sqr_udp_server.c: the operator answers every datagram;      *)
(*   "sum"     UDP_server_pow.c: a first number, a question, a second      *)
(*             number, and the operator's answer;                          *)
(*   "guess"   UDP_lotteria.c: every guess is answered, and the one that   *)
(*             is right ends the server.                                   *)
(* "square" and "sum" end on "close".  They differ in what their loop does with  *)
(* a datagram; program says which one runs.                                *)
(***************************************************************************)
EXTENDS Naturals, Sequences, FiniteSets

CONSTANTS
    Programs,       \* those of the four to be considered
    Users, Nobody,  \* client processes, and none
    InboxCap,       \* datagrams the server's socket can hold
    MaxLines        \* bound: lines a user types

ASSUME DialogueAssumption ==
    IsFiniteSet(Users) /\ InboxCap \in Nat /\ MaxLines \in Nat

VARIABLES
    program,        \* which server runs
    pc,             \* the server: "first", "second", "operator" or "closed"
    client,         \* cli_addr, the sender of the datagram read last
    counter,        \* the time server's counter
    inbox,          \* the server's socket
    mail,           \* mail[u]: the socket of u
    waiting,        \* waiting[u]: u is in its recvfrom()
    typed,          \* typed[u]: lines u has sent
    lost,           \* history: users of whom a datagram was lost
    times,          \* history: how many answers to T have been shown
    asOf            \* history: asOf[u], times when u sent its last line

serverVars == <<pc, client, counter>>
historyVars == <<times, asOf>>
vars == <<program, serverVars, inbox, mail, waiting, typed, lost, historyVars>>

(* What a server tells apart; whether a guess is right is left open. *)
Lines == {"T", "N", "close", "other"}

LinesFor == IF program = "guess" THEN {"other"} ELSE Lines

(* The servers when they enter their loops; only the first one counts.     *)
TimeInit == program = "time" /\ counter = 0
SquareInit == program = "square" /\ counter = 0
SumInit == program = "sum" /\ counter = 0
GuessInit == program = "guess" /\ counter = 0

(* The clients when they enter theirs. *)
ClientInit ==
    /\ mail = [u \in Users |-> << >>]
    /\ waiting = [u \in Users |-> FALSE]
    /\ typed = [u \in Users |-> 0]

Init ==
    /\ TimeInit \/ SquareInit \/ SumInit \/ GuessInit
    /\ program \in Programs
    /\ ClientInit
    /\ pc = "first"
    /\ client = Nobody
    /\ inbox = << >>
    /\ lost = {}
    /\ times = 0
    /\ asOf = [u \in Users |-> 0]

-----------------------------------------------------------------------------
(* The clients.  The datagram is lost when the server's socket is full, or *)
(* closed.                                                                 *)

(* Faulty variant: a client does not wait for its answer. *)
MaySendAlways(u) == TRUE

MaySend(u) == ~waiting[u]

Send(u) ==
    /\ MaySend(u)
    /\ typed[u] < MaxLines
    /\ typed' = [typed EXCEPT ![u] = @ + 1]
    /\ waiting' = [waiting EXCEPT ![u] = TRUE]
    /\ asOf' = [asOf EXCEPT ![u] = times]
    /\ IF Len(inbox) < InboxCap /\ pc # "closed"
       THEN /\ \E line \in LinesFor : inbox' = Append(inbox, [from |-> u, line |-> line])
            /\ UNCHANGED lost
       ELSE lost' = lost \cup {u} /\ UNCHANGED inbox
    /\ UNCHANGED <<program, serverVars, mail, times>>

Receive(u) ==
    /\ waiting[u]
    /\ mail[u] # << >>
    /\ mail' = [mail EXCEPT ![u] = Tail(@)]
    /\ waiting' = [waiting EXCEPT ![u] = FALSE]
    /\ times' = times + (IF Head(mail[u]).kind = "time" THEN 1 ELSE 0)
    /\ UNCHANGED <<program, serverVars, inbox, typed, lost, asOf>>

-----------------------------------------------------------------------------
(* The server. *)

Answer(u, kind, number) ==
    mail' = [mail EXCEPT ![u] = Append(@, [kind |-> kind, number |-> number])]

Reply(u, kind) == Answer(u, kind, 0)

(* Faulty variant: a child of fork() counts, as in server_tcp_simple.c.    *)
CountedInChild(line) == counter

Counted(line) == counter + (IF line = "T" THEN 1 ELSE 0)

(* recvfrom() *)
Take ==
    /\ inbox # << >>
    /\ inbox' = Tail(inbox)
    /\ client' = Head(inbox).from
    /\ UNCHANGED <<program, waiting, typed, lost, historyVars>>

(* server_udp.c: T and N are answered at once. *)
TakeQuestion ==
    /\ program = "time" /\ pc = "first"
    /\ Take
    /\ LET line == Head(inbox).line
       IN  /\ counter' = Counted(line)
           /\ \/ line = "T" /\ Reply(client', "time") /\ UNCHANGED pc
              \/ line = "N" /\ Answer(client', "count", counter') /\ UNCHANGED pc
              \/ line \in Lines \ {"T", "N"} /\ pc' = "operator" /\ UNCHANGED mail

(* The other two, their loop's first recvfrom(). *)
TakeFirst ==
    /\ program \in {"square", "sum"} /\ pc = "first"
    /\ Take
    /\ Head(inbox).line # "close"
    /\ IF program = "sum"
       THEN pc' = "second" /\ Reply(client', "insert second number")
       ELSE pc' = "operator" /\ UNCHANGED mail
    /\ UNCHANGED counter

(* "close" ends the server without an answer; what its socket holds is lost *)
Close ==
    /\ program \in {"square", "sum"} /\ pc = "first"
    /\ inbox # << >> /\ Head(inbox).line = "close"
    /\ pc' = "closed"
    /\ client' = Head(inbox).from
    /\ lost' = lost \cup {inbox[i].from : i \in DOMAIN inbox}
    /\ inbox' = << >>
    /\ UNCHANGED <<program, counter, mail, waiting, typed, historyVars>>

(* UDP_server_pow.c, its second recvfrom(): from whom it comes, and what   *)
(* it says, "close" too, makes no difference.                              *)
TakeSecond ==
    /\ program = "sum" /\ pc = "second"
    /\ Take
    /\ pc' = "operator"
    /\ UNCHANGED <<counter, mail>>

(* UDP_lotteria.c: a wrong guess is answered; so is the right one, and the *)
(* server ends, with what others have sent in its socket.                  *)
TakeGuess ==
    /\ program = "guess" /\ pc = "first"
    /\ inbox # << >>
    /\ client' = Head(inbox).from
    /\ \/ /\ inbox' = Tail(inbox)
          /\ Reply(client', "wrong")
          /\ UNCHANGED <<pc, lost>>
       \/ /\ pc' = "closed" /\ inbox' = << >>
          /\ Reply(client', "won")
          /\ lost' = lost \cup {inbox[i].from : i \in 2..Len(inbox)}
    /\ UNCHANGED <<program, counter, waiting, typed, historyVars>>

(* Faulty variant: the answer goes to whoever wrote last. *)
AddresseeLatest(u) == IF inbox # << >> THEN inbox[Len(inbox)].from ELSE u

Addressee(u) == u

(* fgets() on the server's terminal, and the answer to the last sender.    *)
OperatorTypes ==
    /\ pc = "operator"
    /\ Reply(Addressee(client), "answer")
    /\ pc' = "first"
    /\ UNCHANGED <<program, client, counter, inbox, waiting, typed, lost, historyVars>>

Next ==
    \/ \E u \in Users : Send(u) \/ Receive(u)
    \/ TakeQuestion \/ TakeFirst \/ Close \/ TakeSecond \/ TakeGuess \/ OperatorTypes

Spec == Init /\ [][Next]_vars

(* Processes that can go on do; the operator and the users need not.       *)
FairSpec ==
    /\ Spec
    /\ WF_vars(TakeQuestion \/ TakeFirst \/ Close \/ TakeSecond \/ TakeGuess)
    /\ \A u \in Users : WF_vars(Receive(u))

-----------------------------------------------------------------------------
(* Properties. *)

TypeOK ==
    /\ program \in Programs
    /\ pc \in {"first", "second", "operator", "closed"}
    /\ client \in Users \cup {Nobody}
    /\ inbox \in Seq([from : Users, line : Lines]) /\ Len(inbox) <= InboxCap
    /\ \A u \in Users : Len(mail[u]) <= 1
    /\ lost \subseteq Users

Pending(u) ==
    Cardinality({i \in DOMAIN inbox : inbox[i].from = u}) + Len(mail[u])
        + (IF pc = "operator" /\ client = u THEN 1 ELSE 0)

(* However the clients and the operator take turns, a client has one       *)
(* question or one answer under way while it waits and none otherwise, so  *)
(* that it takes no answer for that to another question.  A client of      *)
(* which a datagram was lost, or that closed the server, waits for none.   *)
OneAnswerEach ==
    \A u \in Users : Pending(u) = IF waiting[u] /\ u \notin lost THEN 1 ELSE 0

(* The answer to N counts every T of which anybody had seen the answer     *)
(* when the N was sent, and none that is not answered.                     *)
CountsEveryT ==
    \A u \in Users : \A i \in 1..Len(mail[u]) :
        mail[u][i].kind = "count" =>
            /\ asOf[u] <= mail[u][i].number
            /\ mail[u][i].number <=
                  times + Cardinality({v \in Users : mail[v] # << >>
                                                    /\ Head(mail[v]).kind = "time"})

(* Unless the operator keeps the server for ever, a client waits for ever  *)
(* only when a datagram of its was lost.                                   *)
EverybodyAnswered ==
    ([]<>(pc # "operator")) =>
        \A u \in Users : waiting[u] ~> ~waiting[u] \/ u \in lost

(* Who is asked for the second number gives it: the program's question     *)
(* (secondQuery, line 29) is about the number it takes next.               *)
SecondIsOfTheAsked ==
    [][TakeSecond => client' = client]_vars

=============================================================================
