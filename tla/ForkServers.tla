----------------------------- MODULE ForkServers ------------------------------
(***************************************************************************)
(* Twelve TCP servers that accept clients in a loop, and their clients.    *)
(* Most fork a child for every client.  They differ in whether they check  *)
(* bind() and fork(), in who closes what after a fork(), in whether the    *)
(* child ends, and in what they wait for.  program says which one runs:    *)
(*   "modular"      modular/sv_modular.c                                   *)
(*   "tcpstate"     TCP_state/sv_tcpstate.c                                *)
(*   "capper"       TCP/sv_smallcapper.c                                   *)
(*   "multi"        multiclient/sv_multi.c, cl_multi.c                     *)
(*   "talk"         serverclient_chat.c                                    *)
(*   "username"     _old/chat/chat_server_tcp.c, chat_client_tcp.c         *)
(*   "dice"         mp_dice/mp_dice_ds.c, mp_dice_cl.c                     *)
(*   "time"         Client-Server-TCP/server_tcp_simple.c, client_tcp.c    *)
(*   "serial"       Programmazione Socket/chat/chat_server.c, chat_client.c *)
(*   "E1"           28_11/E1.c, E1_client.c                                *)
(*   "clock"        clock/ds.c, client.c                                   *)
(*   "test01"       _old/test01/test.c, client.c                           *)
(***************************************************************************)
EXTENDS Processes, FiniteSets

CONSTANTS
    Programs,   \* those of the twelve to be considered
    Limit,      \* connections "multi" accepts: 10 in the code
    MaxLines    \* bound: lines a client sends

ASSUME ForkServersAssumption ==
    /\ IsFiniteSet(Clients) /\ Server \notin Clients
    /\ {"listen", "unbound"} \cap Clients = {}
    /\ Backlog \in Nat /\ MaxForkFailures \in Nat /\ MaxLines \in Nat
    /\ Limit \in Nat \ {0}

VARIABLES program, typed    \* typed[c]: lines c has sent

vars == <<program, typed, procVars, counter, clientVars>>

-----------------------------------------------------------------------------
(* The servers when they enter their loops. *)

At(place, descriptors) ==
    /\ pc = [p \in Procs |-> IF p = Server THEN place ELSE "none"]
    /\ fds = [p \in Procs |-> IF p = Server THEN descriptors ELSE {}]

Bound == At("accept", {"listen"})

(* bind() fails, as when another process still listens at the port. *)
BindChecked == Bound \/ At("ended", {})

(* A program that does not look listens where no client asks. *)
BindUnchecked == Bound \/ At("accept", {"unbound"})

CountFrom(S) == \E n \in S : counter = [p \in Procs |-> n]

ModularInit == program = "modular" /\ BindChecked /\ CountFrom({0})
TcpStateInit == program = "tcpstate" /\ BindUnchecked /\ CountFrom({0})
CapperInit == program = "capper" /\ BindChecked /\ CountFrom({0})
MultiInit == program = "multi" /\ BindChecked /\ CountFrom({0})
TalkInit == program = "talk" /\ BindChecked /\ CountFrom({0})
UsernameInit == program = "username" /\ BindChecked /\ CountFrom({0})
DiceInit == program = "dice" /\ BindChecked /\ CountFrom({0})
TimeInit == program = "time" /\ BindChecked /\ CountFrom({0})
SerialInit == program = "serial" /\ BindChecked /\ CountFrom({0})
(* Its counter is the variable loop, which is not initialised: 1 or not. *)
E1Init == program = "E1" /\ BindChecked /\ CountFrom({0, 1})
ClockInit == program = "clock" /\ BindChecked /\ CountFrom({0})
Test01Init == program = "test01" /\ BindUnchecked /\ CountFrom({0})

Init ==
    /\ \/ ModularInit \/ TcpStateInit \/ CapperInit \/ MultiInit
       \/ TalkInit \/ UsernameInit \/ DiceInit \/ TimeInit
       \/ SerialInit \/ E1Init \/ ClockInit \/ Test01Init
    /\ program \in Programs
    /\ conn = [p \in Procs |-> p]
    /\ backlog = << >>
    /\ failures = 0
    /\ client = [c \in Clients |-> "out"]
    /\ stream = [c \in Clients |-> << >>]
    /\ mail = [c \in Clients |-> FALSE]
    /\ typed = [c \in Clients |-> 0]

-----------------------------------------------------------------------------
(* What their loops have in common.  p is the server, or a child that did  *)
(* not end and came back to the loop.                                      *)

AcceptOrDie(p) == (Accept(p) \/ AcceptFails(p)) /\ UNCHANGED counter

(* Faulty variant: the client is counted before accept() is checked.       *)
CountFirst(p) == (Accept(p) \/ AcceptFails(p)) /\ Count(p)

(* The client is counted, or added to a list. *)
CountOrDie(p) == (Accept(p) /\ Count(p)) \/ (AcceptFails(p) /\ UNCHANGED counter)

ForkOrGoOn(p) == Fork(p) \/ (ForkFails(p) /\ UNCHANGED counter)

ForkOrDie(p) == Fork(p) \/ (ForkDies(p) /\ UNCHANGED counter)

(* Faulty variant: the parent keeps its descriptor of the connection.      *)
ParentKeeps(p) == pc[p] = "parent" /\ Goto(p, "accept") /\ UNCHANGED counter

(* Faulty variant: the parent waits for its child first. *)
ParentWaits(p) ==
    /\ pc[p] = "parent" /\ ~Running(conn[p])
    /\ Closes(p, {conn[p]}, "accept")
    /\ UNCHANGED counter

CloseInParent(p) ==
    pc[p] = "parent" /\ Closes(p, {conn[p]}, "accept") /\ UNCHANGED counter

(* The loops.  sv_smallcapper.c asserts pid >= 0 with a function that ends *)
(* the program for a negative argument: 0, for a failure, is none.         *)
ModularLoop(p) ==
    /\ program = "modular"
    /\ CountOrDie(p) \/ ForkOrGoOn(p) \/ CloseInParent(p)
    /\ UNCHANGED <<stream, mail>>

TcpStateLoop(p) ==
    /\ program = "tcpstate"
    /\ (Accept(p) /\ Count(p)) \/ ForkOrGoOn(p) \/ CloseInParent(p)
    /\ UNCHANGED <<stream, mail>>

CapperLoop(p) ==
    /\ program = "capper"
    /\ CountOrDie(p) \/ ForkOrGoOn(p) \/ CloseInParent(p)
    /\ UNCHANGED <<stream, mail>>

(* The parent closes nothing; after Limit connections it waits for one     *)
(* child, if there is any, and ends.                                       *)
MultiLoop(p) ==
    /\ program = "multi"
    /\ \/ AcceptOrDie(p) \/ ForkOrGoOn(p)
       \/ /\ pc[p] = "parent"
          /\ Count(p)
          /\ Goto(p, IF counter'[p] = Limit THEN "wait" ELSE "accept")
       \/ /\ pc[p] = "wait"
          /\ (\E c \in Clients : pc[c] = "ended") \/ \A c \in Clients : pc[c] = "none"
          /\ Exit(p)
          /\ UNCHANGED counter
    /\ UNCHANGED <<stream, mail>>

TalkLoop(p) ==
    /\ program = "talk"
    /\ AcceptOrDie(p) \/ ForkOrDie(p) \/ CloseInParent(p)
    /\ UNCHANGED <<stream, mail>>

(* The parent closes nothing. *)
UsernameLoop(p) ==
    /\ program = "username"
    /\ \/ AcceptOrDie(p) \/ ForkOrDie(p)
       \/ pc[p] = "parent" /\ Goto(p, "accept") /\ UNCHANGED counter
    /\ UNCHANGED <<stream, mail>>

(* connected_clients is incremented at accept() and in the parent; then    *)
(* both processes close both sockets, and their next accept() fails.       *)
DiceLoop(p) ==
    /\ program = "dice"
    /\ \/ CountOrDie(p) \/ ForkOrDie(p)
       \/ /\ pc[p] \in {"parent", "welcomed"}
          /\ Closes(p, {"listen", conn[p]}, "accept")
          /\ IF pc[p] = "parent" THEN Count(p) ELSE UNCHANGED counter
    /\ UNCHANGED <<stream, mail>>

TimeLoop(p) ==
    /\ program = "time"
    /\ AcceptOrDie(p) \/ ForkOrGoOn(p) \/ CloseInParent(p)
    /\ UNCHANGED <<stream, mail>>

Waited(c) == ~Running(c)

(* wait() for the child, the only one there is, and then for the operator. *)
SerialLoop(p) ==
    /\ program = "serial"
    /\ \/ AcceptOrDie(p) \/ ForkOrGoOn(p)
       \/ /\ pc[p] = "parent" /\ Waited(conn[p])
          /\ Goto(p, "operator")
          /\ UNCHANGED counter
    /\ UNCHANGED <<stream, mail>>

SerialOperator(p) ==
    /\ program = "serial" /\ pc[p] = "operator"
    /\ Closes(p, {conn[p]}, "accept") \/ Exit(p)
    /\ UNCHANGED <<counter, stream, mail>>

E1Loop(p) ==
    /\ program = "E1"
    /\ \/ AcceptOrDie(p) \/ ForkOrGoOn(p)
       \/ /\ pc[p] = "parent"
          /\ Closes(p, {conn[p]}, "operator")
          /\ UNCHANGED counter
    /\ UNCHANGED <<stream, mail>>

(* The answer is "yes" only without its newline, at the end of the input.  *)
E1Operator(p) ==
    /\ program = "E1" /\ pc[p] = "operator"
    /\ \E loop \in {counter[p], 0} :
          /\ counter' = [counter EXCEPT ![p] = loop]
          /\ IF loop = 1 THEN Goto(p, "accept") ELSE Exit(p)
    /\ UNCHANGED <<stream, mail>>

(* One client, which is sent something, and the end. *)
SendAndExit(p) ==
    /\ pc[p] = "accepted"
    /\ Sends(conn[p])
    /\ Exit(p)
    /\ UNCHANGED counter

ClockLoop(p) ==
    /\ program = "clock"
    /\ (AcceptOrDie(p) /\ UNCHANGED mail) \/ SendAndExit(p)
    /\ UNCHANGED stream

Test01Loop(p) ==
    /\ program = "test01"
    /\ (AcceptOrDie(p) /\ UNCHANGED mail) \/ SendAndExit(p)
    /\ UNCHANGED stream

-----------------------------------------------------------------------------
(* The children. *)

(* Faulty variant: close() of the listening socket is forgotten. *)
KeepListening(p, place) == pc[p] = "child" /\ Goto(p, place)

CloseListening(p, place) == pc[p] = "child" /\ Closes(p, {"listen"}, place)

(* A loop of read() until the client is gone. *)
ReadUntilEnd(p) ==
    /\ pc[p] = "read"
    /\ ReadsOnce(p)
    /\ IF AtEnd(p) THEN Exit(p) ELSE UNCHANGED procVars

(* SIGPIPE, when a client that is gone is sent something. *)
Killed(p) == client[conn[p]] = "gone" /\ Exit(p)

ModularHandler(p) ==
    /\ program = "modular"
    /\ \/ CloseListening(p, "read") /\ Sends(conn[p]) /\ UNCHANGED stream
       \/ ReadUntilEnd(p) /\ UNCHANGED mail
    /\ UNCHANGED counter

(* What is read is sent back. *)
TcpStateHandler(p) ==
    /\ program = "tcpstate"
    /\ \/ CloseListening(p, "read") /\ UNCHANGED <<stream, mail>>
       \/ ReadUntilEnd(p) /\ IF AtEnd(p) THEN UNCHANGED mail ELSE Sends(conn[p])
       \/ pc[p] = "read" /\ ReadsOnce(p) /\ Killed(p) /\ UNCHANGED mail
    /\ UNCHANGED counter

CapperHandler(p) ==
    /\ program = "capper"
    /\ \/ CloseListening(p, "read") /\ UNCHANGED <<stream, mail>>
       \/ /\ pc[p] = "read"
          /\ ReadsOnce(p)
          /\ IF AtEnd(p) THEN UNCHANGED mail ELSE Sends(conn[p])
          /\ Exit(p)
    /\ UNCHANGED counter

(* The loop ends when the buffer, which is not initialised, begins with an *)
(* E.  What the clients send begins with a bracket.                        *)
MultiHandler(p) ==
    /\ program = "multi"
    /\ \/ pc[p] = "child" /\ (Exit(p) \/ Goto(p, "read")) /\ UNCHANGED stream
       \/ ReadUntilEnd(p)
    /\ UNCHANGED <<counter, mail>>

(* bytes is not initialised and never set: the handler talks for ever, or  *)
(* not at all, and comes back to the loop as if it were the parent.        *)
TalkHandler(p) ==
    /\ program = "talk"
    /\ \/ /\ \E place \in {"read", "parent"} : CloseListening(p, place)
          /\ Sends(conn[p])
          /\ UNCHANGED stream
       \/ pc[p] = "read" /\ ReadsOnce(p) /\ Goto(p, "operator") /\ UNCHANGED mail
    /\ UNCHANGED counter

TalkOperator(p) ==
    /\ program = "talk" /\ pc[p] = "operator"
    /\ (Goto(p, "read") /\ Sends(conn[p])) \/ (Killed(p) /\ UNCHANGED mail)
    /\ UNCHANGED <<counter, stream>>

(* The child reads once and comes back to the loop. *)
UsernameHandler(p) ==
    /\ program = "username"
    /\ \/ CloseListening(p, "read") /\ UNCHANGED stream
       \/ pc[p] = "read" /\ ReadsOnce(p) /\ Goto(p, "accept")
    /\ UNCHANGED <<counter, mail>>

DiceHandler(p) ==
    /\ program = "dice" /\ pc[p] = "child"
    /\ ReadsOnce(p)
    /\ Sends(conn[p])
    /\ Goto(p, "welcomed")
    /\ UNCHANGED counter

(* T and N are answered; T is counted by the child, which ends. *)
TimeHandler(p) ==
    /\ program = "time"
    /\ \/ CloseListening(p, "read") /\ UNCHANGED <<counter, stream, mail>>
       \/ /\ pc[p] = "read"
          /\ ReadsOnce(p)
          /\ IF stream[conn[p]] \in {<<"T">>, <<"N">>}
             THEN /\ Sends(conn[p])
                  /\ Exit(p)
                  /\ IF Head(stream[conn[p]]) = "T" THEN Count(p) ELSE UNCHANGED counter
             ELSE Goto(p, "operator") /\ UNCHANGED <<counter, mail>>

TimeOperator(p) ==
    /\ program = "time" /\ pc[p] = "operator"
    /\ Sends(conn[p])
    /\ Exit(p)
    /\ UNCHANGED <<counter, stream>>

(* Only an END that arrives alone ends the child.  When the client is gone *)
(* read() returns 0 again and again: the child goes on and does nothing.   *)
SerialHandler(p) ==
    /\ program = "serial" /\ pc[p] = "child"
    /\ \E n \in DOMAIN stream[conn[p]] :
          /\ Reads(conn[p], n)
          /\ IF SubSeq(stream[conn[p]], 1, n) = <<"END">> THEN Exit(p) ELSE UNCHANGED procVars
    /\ UNCHANGED <<counter, mail>>

E1Handler(p) ==
    /\ program = "E1" /\ pc[p] = "child"
    /\ ReadsOnce(p)
    /\ Exit(p)
    /\ UNCHANGED <<counter, mail>>

(* sv_modular.c, sig_handler(): the terminal sends SIGINT to all, and the  *)
(* accept() that was interrupted is tried again.                           *)
Interrupt ==
    /\ program = "modular" /\ Running(Server)
    /\ fds' = [p \in Procs |-> fds[p] \ {"listen"}]
    /\ backlog' = << >>
    /\ UNCHANGED <<program, typed, pc, conn, failures, counter, clientVars>>

-----------------------------------------------------------------------------
(* The clients. *)

Connects(c, place) == Connect(c, place) /\ UNCHANGED <<typed, stream>>

Types(c, line, place) ==
    /\ typed[c] < MaxLines
    /\ typed' = [typed EXCEPT ![c] = @ + 1]
    /\ Writes(c, line, place)
    /\ UNCHANGED backlog

(* A client made by hand: these servers have none in the repository. *)
HandClient(c) ==
    /\ program \in {"modular", "tcpstate", "capper", "talk"}
    /\ Connects(c, "in") \/ Types(c, "line", "in")

MultiClient(c) ==
    /\ program = "multi"
    /\ Connects(c, "in") \/ Types(c, "line", "in")

UsernameClient(c) ==
    /\ program = "username"
    /\ Connects(c, "in") \/ Types(c, "line", "gone")

(* A name, and rolls.  The process that types may end; the other one, that *)
(* keeps the connection, does not.                                         *)
DiceClient(c) ==
    /\ program = "dice"
    /\ Connects(c, "in") \/ Types(c, "line", "in")

TimeClient(c) ==
    /\ program = "time"
    /\ \/ Connects(c, "in")
       \/ \E line \in {"T", "N", "other"} : Types(c, line, "waits")

SerialClient(c) ==
    /\ program = "serial"
    /\ Connects(c, "in") \/ Types(c, "line", "in") \/ Types(c, "END", "gone")

E1Client(c) ==
    /\ program = "E1"
    /\ Connects(c, "in") \/ Types(c, "line", "gone")

ClockClient(c) == program = "clock" /\ Connects(c, "waits")

Test01Client(c) == program = "test01" /\ Connects(c, "waits")

(* A user stops a client. *)
Quit(c) ==
    /\ client[c] \in {"in", "waits"}
    /\ client' = [client EXCEPT ![c] = "gone"]
    /\ UNCHANGED <<typed, stream, backlog>>

(* client_tcp.c and the clients of the last two: one read() and the end.   *)
Receive(c) == Receives(c) /\ UNCHANGED <<typed, stream, backlog>>

-----------------------------------------------------------------------------
Loop(p) ==
    \/ ModularLoop(p) \/ TcpStateLoop(p) \/ CapperLoop(p) \/ MultiLoop(p)
    \/ TalkLoop(p) \/ UsernameLoop(p) \/ DiceLoop(p) \/ TimeLoop(p)
    \/ SerialLoop(p) \/ E1Loop(p) \/ ClockLoop(p) \/ Test01Loop(p)

Handler(p) ==
    \/ ModularHandler(p) \/ TcpStateHandler(p) \/ CapperHandler(p) \/ MultiHandler(p)
    \/ TalkHandler(p) \/ UsernameHandler(p) \/ DiceHandler(p) \/ TimeHandler(p)
    \/ SerialHandler(p) \/ E1Handler(p)

Runs(p) == (Loop(p) \/ Handler(p)) /\ UNCHANGED <<program, typed, client>>

Operator(p) ==
    /\ TalkOperator(p) \/ TimeOperator(p) \/ SerialOperator(p) \/ E1Operator(p)
    /\ UNCHANGED <<program, typed, client>>

Client(c) ==
    /\ \/ HandClient(c) \/ MultiClient(c) \/ UsernameClient(c) \/ DiceClient(c)
       \/ TimeClient(c) \/ SerialClient(c) \/ E1Client(c) \/ ClockClient(c)
       \/ Test01Client(c) \/ Quit(c)
    /\ UNCHANGED <<program, pc, fds, conn, failures, counter, mail>>

Answered(c) == Receive(c) /\ UNCHANGED <<program, pc, fds, conn, failures, counter, mail>>

Next ==
    \/ \E p \in Procs : Runs(p) \/ Operator(p)
    \/ \E c \in Clients : Client(c) \/ Answered(c)
    \/ Interrupt

Spec == Init /\ [][Next]_vars

(* Processes that can go on do; users and operators need not. *)
FairSpec ==
    /\ Spec
    /\ \A p \in Procs : WF_vars(Runs(p))
    /\ \A c \in Clients : WF_vars(Answered(c))

-----------------------------------------------------------------------------
(* Properties. *)

TypeOK ==
    /\ program \in Programs
    /\ \A p \in Procs :
          /\ fds[p] \subseteq Clients \cup {"listen", "unbound"}
          /\ ~Running(p) => fds[p] = {}
          /\ conn[p] \in Procs
          /\ counter[p] \in 0..Cardinality(Clients) + 1
    /\ Len(backlog) <= Backlog /\ \A i \in DOMAIN backlog : backlog[i] \in Clients
    /\ failures \in 0..MaxForkFailures
    /\ \A c \in Clients : Len(stream[c]) <= typed[c] /\ typed[c] <= MaxLines

(* These count the connections they accept, "multi" after its fork().      *)
Tellers == {"modular", "tcpstate", "capper", "multi"}

Forked == {c \in Clients : pc[c] # "none"}

(* Accepted and not yet forked for; accepted and not yet counted.          *)
InHand == IF pc[Server] = "accepted" THEN 1 ELSE 0
Owed == IF program = "multi" /\ pc[Server] \in {"accepted", "parent"} THEN 1 ELSE 0

(* counter in a server process is what its loop means by it, whatever its  *)
(* children do with their copies and whichever fork() fails: the clients   *)
(* that have a child, those whose fork() failed, and the one just accepted.*)
(* sv_multi.c stops at its limit exactly.  The time server's T, counted in *)
(* the child, never reaches the server: what N is answered stays 0.        *)
CountsWhoCame ==
    /\ program \in Tellers =>
          counter[Server] + Owed = Cardinality(Forked) + failures + InHand
    /\ program = "multi" => counter[Server] <= Limit
    /\ program = "time" => counter[Server] = 0

(* The parents of these two do not close the connections they accepted. *)
Keepers == {"multi", "username"}

(* However accept(), fork() and close() of several processes interleave,   *)
(* and whichever fork() fails, a connection is held by its own child and   *)
(* by the server that is about to hand it over, never by the child of      *)
(* another client, which would keep it from ending.  It does not hold for  *)
(* the two programs whose parent does not close.                           *)
NoStrangers ==
    program \notin Keepers =>
        \A p \in Procs : \A c \in Clients \cap fds[p] :
            conn[p] = c /\ (p = Server => pc[p] # "accept")

(* A child that comes back to the accept loop takes nobody's connection:   *)
(* there is one server, although two programs let their children fall      *)
(* through and a third does not mean to serve more than one client.        *)
OnlyServerAccepts == \A c \in Clients : pc[c] # "accepted"

Desk == INSTANCE Reception WITH
    seen <- {c \in Clients : client[c] # "out"},
    queue <- backlog,
    desk <- Clients \cap fds[Server],
    given <- {c \in Clients : pc[c] # "none"},
    helped <- {c \in Clients : c \in fds[c]}

(* The server and its children keep the promise of Reception: clients are  *)
(* accepted in the order of their connections and one after the other, and *)
(* each gets one process, forked by the server itself, whatever fails.     *)
ServesInTurn ==
    /\ Desk!Init
    /\ [][program \notin Keepers => Desk!Next]_(Desk!vars)

(* Whoever the server must see to before it accepts again. *)
Busy ==
    \/ program \in {"serial", "E1"} /\ pc[Server] \in {"parent", "operator"}
    \/ program \in {"multi", "dice", "E1"} /\ pc[Server] \in {"wait", "ended"}

(* Nobody stays in the backlog: one is accepted, or reset when the server  *)
(* ends, as long as the operator (and the client) of a serial server let   *)
(* it go on, and unless a child listens for a server that has ended.       *)
AcceptedInTurn ==
    ([]<>~Busy) => \A c \in Clients : InBacklog(c) ~> ~InBacklog(c)

(* A client that reads gets an answer or the end of its connection, also   *)
(* when fork() failed for it or the server ended before its turn; only the *)
(* operator of the time server may keep it.                                *)
NobodyWaitsInVain ==
    \A c \in Clients :
        client[c] = "waits" ~> client[c] # "waits" \/ pc[c] = "operator"

(* A server that has ended, by SIGINT, by an error or at its operator's    *)
(* wish, leaves nobody behind who listens: new clients are refused, and    *)
(* the port is free for the next server.  Three programs are excepted:     *)
(* their children wait for a client before they close, or never close.     *)
PortFreed ==
    program \notin {"multi", "dice", "E1"} =>
        (pc[Server] = "ended" ~> ~Listens)

=============================================================================
