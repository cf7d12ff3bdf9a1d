------------------------------ MODULE Processes -------------------------------
(***************************************************************************)
(* What the operating system does for the TCP servers of ForkServers: a    *)
(* listening socket with its backlog, connections, and processes that      *)
(* hold descriptors of them.  fork() copies descriptors; what they stand   *)
(* for ends when the last process that holds one closes it.  A client has  *)
(* one connection, and a process forked for it has the client's name.      *)
(***************************************************************************)
EXTENDS Naturals, Sequences

CONSTANTS
    Clients, Server,    \* client processes, and the process that is started
    Backlog,            \* connections that wait for accept()
    MaxForkFailures     \* bound: times fork() returns -1

VARIABLES
    pc,         \* pc[p]: where p is, "none" before and "ended" after its life
    fds,        \* fds[p]: what p has open: "listen" or "unbound", and clients
    conn,       \* conn[p]: the client p accepted last, or was forked for
    counter,    \* counter[p]: p's copy of the program's counter (or of the
                \*   length of its list)
    backlog,    \* connections that nobody has accepted
    failures,   \* history: how often fork() has failed
    client,     \* client[c]: "out", "in", "waits" (in a read) or "gone"
    stream,     \* stream[c]: what c has sent and nobody has read
    mail        \* mail[c]: something was sent to c

procVars == <<pc, fds, conn, backlog, failures>>
clientVars == <<client, stream, mail>>

Procs == Clients \cup {Server}

Running(p) == pc[p] \notin {"none", "ended"}

Listens == \E p \in Procs : "listen" \in fds[p]

InBacklog(c) == \E i \in DOMAIN backlog : backlog[i] = c

(* The server's end of c's connection exists. *)
Open(c) == InBacklog(c) \/ \E p \in Procs : c \in fds[p]

(* p's client has closed, and all it sent has been read. *)
AtEnd(p) == client[conn[p]] = "gone" /\ stream[conn[p]] = << >>

-----------------------------------------------------------------------------
(* Steps of a process.  Each goes from one place to another. *)

(* close() of what is in S.  When nobody listens any more the backlog is   *)
(* reset.                                                                  *)
Closes(p, S, place) ==
    /\ pc' = [pc EXCEPT ![p] = place]
    /\ fds' = [fds EXCEPT ![p] = @ \ S]
    /\ backlog' = IF Listens' THEN backlog ELSE << >>
    /\ UNCHANGED <<conn, failures>>

Goto(p, place) == Closes(p, {}, place)

Exit(p) == Closes(p, fds[p], "ended")

Accept(p) ==
    /\ pc[p] = "accept" /\ "listen" \in fds[p] /\ backlog # << >>
    /\ pc' = [pc EXCEPT ![p] = "accepted"]
    /\ conn' = [conn EXCEPT ![p] = Head(backlog)]
    /\ fds' = [fds EXCEPT ![p] = @ \cup {Head(backlog)}]
    /\ backlog' = Tail(backlog)
    /\ UNCHANGED failures

(* Faulty variant: the result of accept() is not checked, and the          *)
(* connection accepted before is taken for the new one.                    *)
AcceptUnchecked(p) ==
    /\ pc[p] = "accept" /\ conn[p] \in Clients /\ fds[p] \cap {"listen", "unbound"} = {}
    /\ Goto(p, "accepted")

(* accept() of a closed descriptor returns -1, and the program ends. *)
AcceptFails(p) ==
    /\ pc[p] = "accept" /\ fds[p] \cap {"listen", "unbound"} = {}
    /\ Exit(p)

(* The child gets a copy of everything. *)
Fork(p) ==
    /\ pc[p] = "accepted"
    /\ pc' = [pc EXCEPT ![p] = "parent", ![conn[p]] = "child"]
    /\ fds' = [fds EXCEPT ![conn[p]] = fds[p]]
    /\ conn' = [conn EXCEPT ![conn[p]] = conn[p]]
    /\ counter' = [counter EXCEPT ![conn[p]] = counter[p]]
    /\ UNCHANGED <<backlog, failures>>

(* Faulty variant: the loop goes on without closing the connection. *)
ForkFailsContinue(p) ==
    /\ pc[p] = "accepted" /\ failures < MaxForkFailures
    /\ pc' = [pc EXCEPT ![p] = "accept"]
    /\ failures' = failures + 1
    /\ UNCHANGED <<fds, conn, backlog>>

(* fork() returns -1, which is not 0: a program that does not ask goes on  *)
(* as the parent.                                                          *)
ForkFails(p) ==
    /\ pc[p] = "accepted" /\ failures < MaxForkFailures
    /\ pc' = [pc EXCEPT ![p] = "parent"]
    /\ failures' = failures + 1
    /\ UNCHANGED <<fds, conn, backlog>>

(* A program that asks ends. *)
ForkDies(p) ==
    /\ pc[p] = "accepted" /\ failures < MaxForkFailures
    /\ Exit(p)

(* Faulty variant: a client is counted twice. *)
CountTwice(p) == counter' = [counter EXCEPT ![p] = @ + 2]

Count(p) == counter' = [counter EXCEPT ![p] = @ + 1]

(* read() returns what has arrived: any part of it from the start.  Lines  *)
(* sent one after the other may arrive together.                           *)
Reads(c, n) ==
    /\ n \in DOMAIN stream[c]
    /\ stream' = [stream EXCEPT ![c] = SubSeq(@, n + 1, Len(@))]

(* One read(), whatever it returns. *)
ReadsOnce(p) ==
    \/ \E n \in DOMAIN stream[conn[p]] : Reads(conn[p], n)
    \/ AtEnd(p) /\ UNCHANGED stream

Sends(c) == mail' = [mail EXCEPT ![c] = TRUE]

-----------------------------------------------------------------------------
(* Steps of a client. *)

(* connect() is refused when nobody listens, and waits when the backlog is *)
(* full.                                                                   *)
Connect(c, place) ==
    /\ client[c] = "out"
    /\ IF Listens
       THEN /\ Len(backlog) < Backlog
            /\ backlog' = Append(backlog, c)
            /\ client' = [client EXCEPT ![c] = place]
       ELSE client' = [client EXCEPT ![c] = "gone"] /\ UNCHANGED backlog

(* A line is written.  When the server has closed the connection the first *)
(* write draws a reset and the next one ends the client.                   *)
Writes(c, line, place) ==
    /\ client[c] = "in"
    /\ IF Open(c)
       THEN /\ stream' = [stream EXCEPT ![c] = Append(@, line)]
            /\ client' = [client EXCEPT ![c] = place]
       ELSE client' \in {[client EXCEPT ![c] = place], [client EXCEPT ![c] = "gone"]}
            /\ UNCHANGED stream

(* A read returns an answer, or nothing as the server has closed. *)
Receives(c) ==
    /\ client[c] = "waits"
    /\ mail[c] \/ ~Open(c)
    /\ client' = [client EXCEPT ![c] = "gone"]

=============================================================================
