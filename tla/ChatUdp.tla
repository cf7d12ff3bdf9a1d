-------------------------------- MODULE ChatUdp --------------------------------
(***************************************************************************)
(* The UDP chat of Socket Programming/chat_udp: the server sv_chat.c and   *)
(* its clients cl_chat.c.  A client is two processes on one socket, a      *)
(* child that prints what arrives and a parent that sends what is typed.   *)
(* The server learns of a client from its first message, and hands every   *)
(* message on with one sendto() per client, during which everybody else    *)
(* goes on.  Datagrams travel on one host: in order and once, but a full   *)
(* socket drops what arrives.                                              *)
(***************************************************************************)
EXTENDS Naturals, Sequences, FiniteSets

CONSTANTS
    Users,          \* client sockets, one per user
    MaxClients,     \* MAX_CLIENTS
    InboxCap,       \* datagrams the server's socket can hold
    MailCap,        \* datagrams a client's socket can hold
    MaxMsgs         \* bound: messages a user types

ASSUME ChatUdpAssumption ==
    /\ MaxClients \in Nat /\ MaxMsgs \in Nat
    /\ InboxCap \in Nat \ {0} /\ MailCap \in Nat \ {0}

VARIABLES
    inbox,          \* the server's socket, oldest datagram first
    clients,        \* clients[0 .. num_clients-1]
    current,        \* the message in MSGbuffer
    cursor,         \* the i of the sending loop, counted from 1
    mail,           \* mail[u]: the socket of u
    seen,           \* seen[u]: what the child of u has printed
    typed,          \* typed[u]: messages the parent of u has sent
    screen,         \* what the server has printed: the messages it took
    missed          \* history: users whose full socket dropped a message

chatVars == <<inbox, clients, current, cursor, mail, seen, typed, screen, missed>>

Message == [from : Users, n : 1..MaxMsgs]
NoMessage == [from |-> "nobody", n |-> 0]

(* The clients when they have forked. *)
ClientInit ==
    /\ mail = [u \in Users |-> << >>]
    /\ seen = [u \in Users |-> << >>]
    /\ typed = [u \in Users |-> 0]

Init ==
    /\ ClientInit
    /\ inbox = << >>
    /\ clients = << >>
    /\ current = NoMessage
    /\ cursor = 1
    /\ screen = << >>
    /\ missed = {}

-----------------------------------------------------------------------------
(* The client. *)

(* The parent sends a line; the datagram is lost if the server's socket is *)
(* full, and the parent goes on to the next line either way.               *)
Type(u) ==
    /\ typed[u] < MaxMsgs
    /\ typed' = [typed EXCEPT ![u] = @ + 1]
    /\ inbox' = IF Len(inbox) < InboxCap
                THEN Append(inbox, [from |-> u, n |-> typed[u] + 1]) ELSE inbox
    /\ UNCHANGED <<clients, current, cursor, mail, seen, screen, missed>>

(* The child prints a message. *)
Show(u) ==
    /\ mail[u] # << >>
    /\ seen' = [seen EXCEPT ![u] = Append(@, Head(mail[u]))]
    /\ mail' = [mail EXCEPT ![u] = Tail(@)]
    /\ UNCHANGED <<inbox, clients, current, cursor, typed, screen, missed>>

-----------------------------------------------------------------------------
(* The server. *)

Known(u) == \E i \in 1..Len(clients) : clients[i] = u

Broadcasting == cursor <= Len(clients)

(* Faulty variants: the sender is registered once per message, or without  *)
(* a look at MAX_CLIENTS.                                                  *)
EnrolledAgain(u) == IF Len(clients) < MaxClients THEN Append(clients, u) ELSE clients
EnrolledAnyway(u) == IF ~Known(u) THEN Append(clients, u) ELSE clients

(* clients[] with a new sender in it, if there is room. *)
Enrolled(u) ==
    IF ~Known(u) /\ Len(clients) < MaxClients THEN Append(clients, u) ELSE clients

(* recvfrom(): if there is no room for the sender, its message is handed   *)
(* on all the same.                                                        *)
Take ==
    /\ ~Broadcasting
    /\ inbox # << >>
    /\ inbox' = Tail(inbox)
    /\ current' = Head(inbox)
    /\ clients' = Enrolled(Head(inbox).from)
    /\ screen' = Append(screen, Head(inbox))
    /\ cursor' = 1
    /\ UNCHANGED <<mail, seen, typed, missed>>

(* Faulty variant: the sender's own entry ends the loop ("break").         *)
NextCursorBreak(i) == IF clients[i] = current.from THEN Len(clients) + 1 ELSE i + 1

(* The sender's own entry is passed over ("continue"). *)
NextCursor(i) == i + 1

(* One round of the sending loop: the sender is skipped, and so is a       *)
(* client whose socket is full.                                            *)
HandOn ==
    /\ Broadcasting
    /\ LET u == clients[cursor]
           fits == Len(mail[u]) < MailCap
       IN  IF u = current.from
           THEN UNCHANGED <<mail, missed>>
           ELSE /\ mail' = IF fits THEN [mail EXCEPT ![u] = Append(@, current)] ELSE mail
                /\ missed' = IF fits THEN missed ELSE missed \cup {u}
    /\ cursor' = NextCursor(cursor)
    /\ UNCHANGED <<inbox, clients, current, seen, typed, screen>>

Next ==
    \/ \E u \in Users : Type(u) \/ Show(u)
    \/ Take
    \/ HandOn

Spec == Init /\ [][Next]_chatVars

(* The server and the children are never held up; users type as they like. *)
FairSpec ==
    /\ Spec
    /\ WF_chatVars(Take \/ HandOn)
    /\ \A u \in Users : WF_chatVars(Show(u))

-----------------------------------------------------------------------------
(* Properties. *)

TypeOK ==
    /\ inbox \in Seq(Message) /\ Len(inbox) <= InboxCap
    /\ clients \in Seq(Users) /\ Len(clients) <= MaxClients
    /\ current \in Message \cup {NoMessage}
    /\ cursor \in 1..(MaxClients + 1)
    /\ mail \in [Users -> Seq(Message)]
    /\ \A u \in Users : Len(mail[u]) <= MailCap
    /\ seen \in [Users -> Seq(Message)]
    /\ typed \in [Users -> 0..MaxMsgs]
    /\ screen \in Seq(Message)
    /\ missed \subseteq Users

(* The chat is a room with one order of messages, however the broadcasts   *)
(* interleave with the clients, and whatever full sockets or a full client *)
(* table make the users miss.                                              *)
Room == INSTANCE ChatRoom WITH Messages <- Message, log <- screen

OneOrder == Room!Spec

(* What u should get: everything of the others that the server took after  *)
(* it registered u, which it did at the first message of u it took.        *)
Meant(u) ==
    {screen[i] : i \in {k \in 1..Len(screen) :
        Known(u) /\ screen[k].from # u /\ \E j \in 1..(k-1) : screen[j].from = u}}

(* The message the broadcast in progress has not yet handed to u. *)
Due(u) ==
    IF u # current.from /\ \E i \in cursor..Len(clients) : clients[i] = u
    THEN <<current>> ELSE << >>

(* What u has printed, what waits in its socket and what is due. *)
Way(u) == seen[u] \o mail[u] \o Due(u)

TakenBefore(m1, m2) ==
    \E j \in 1..Len(screen) : screen[j] = m2 /\ \E i \in 1..(j-1) : screen[i] = m1

(* Nothing is missing, nothing is there twice and nothing is out of place  *)
(* on the way to a registered user whose socket was never full.            *)
NothingMissing ==
    \A u \in Users \ missed :
        /\ {Way(u)[k] : k \in 1..Len(Way(u))} = Meant(u)
        /\ \A l \in 1..Len(Way(u)) : \A k \in 1..(l-1) : TakenBefore(Way(u)[k], Way(u)[l])

(* Every message the server took for u gets to u's screen, unless u's      *)
(* socket was full.                                                        *)
EverybodySees ==
    \A u \in Users : \A m \in Message :
        m \in Meant(u) ~> u \in missed \/ \E k \in 1..Len(seen[u]) : seen[u][k] = m

=============================================================================
