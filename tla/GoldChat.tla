-------------------------------- MODULE GoldChat --------------------------------
(***************************************************************************)
(* The TCP chat of Socket Programming/chat_TCP_gold: the server ds.c forks *)
(* a handler per client; its clients client.c send in one thread and print *)
(* in another.  A handler works with the copy of clients[] it was forked   *)
(* with, so it sends to the clients accepted before its own and to its     *)
(* own; and the parent keeps every client's socket open and every slot     *)
(* taken for ever, so a client that left is still sent to.                 *)
(*                                                                         *)
(* TCP: what is sent to a socket is read in order.  A client that closes   *)
(* its socket (FIN) can be sent to once; that draws a reset, as does       *)
(* closing a socket that holds unread data; a send() after the reset       *)
(* raises SIGPIPE, which kills the handler.  Socket buffers do not fill.   *)
(***************************************************************************)
EXTENDS Naturals, Sequences, FiniteSets, Functions

CONSTANTS
    Clients,            \* connections, one per client process
    Free,               \* the 0 of a free slot
    MaxClients,         \* MAX_CLIENTS
    MaxMsgs,            \* bound: messages the clients send
    MaxLeaves,          \* bound: clients that leave
    MaxForkFailures     \* bound: fork() calls that fail

ASSUME GoldChatAssumption ==
    /\ Free \notin Clients
    /\ MaxClients \in Nat \ {0}
    /\ MaxForkFailures \in Nat

VARIABLES
    client,     \* client[c]: "off", "in" or "left"
    conn,       \* conn[c]: the state of c's connection, "open", "fin" or "reset"
    backlog,    \* connections waiting for accept()
    clients,    \* the parent's clients[]
    sentBy,     \* sentBy[c]: messages c has sent
    up,         \* up[c]: messages c sent that no handler has read
    down,       \* down[c]: messages sent to c that it has not printed
    seen,       \* seen[c]: messages c has printed
    handler,    \* handler[c]: "none", "recv", "send", "gone" or "killed"
    view,       \* view[c]: the handler's copy of clients[]
    msg,        \* msg[c]: the handler's msg
    slot,       \* slot[c]: the i of its sending loop, from 1
    forkFailures

clientVars == <<client, sentBy, seen>>
handlerVars == <<handler, view, msg, slot>>
goldVars == <<client, conn, backlog, clients, sentBy, up, down, seen, handler, view, msg,
              slot, forkFailures>>

Slots == 1..MaxClients
Message == [from : Clients, n : Nat]
NoMessage == [from |-> Free, n |-> 0]

Init ==
    /\ client = [c \in Clients |-> "off"]
    /\ conn = [c \in Clients |-> "open"]
    /\ backlog = << >>
    /\ clients = [i \in Slots |-> Free]
    /\ sentBy = [c \in Clients |-> 0]
    /\ up = [c \in Clients |-> << >>]
    /\ down = [c \in Clients |-> << >>]
    /\ seen = [c \in Clients |-> << >>]
    /\ handler = [c \in Clients |-> "none"]
    /\ view = [c \in Clients |-> [i \in Slots |-> Free]]
    /\ msg = [c \in Clients |-> NoMessage]
    /\ slot = [c \in Clients |-> 1]
    /\ forkFailures = 0

-----------------------------------------------------------------------------
(* The client. *)

(* connect() returns before the server accepts; listen() was called with   *)
(* MAX_CLIENTS, and one connection more than that can wait.                *)
Connect(c) ==
    /\ client[c] = "off"
    /\ Len(backlog) <= MaxClients
    /\ client' = [client EXCEPT ![c] = "in"]
    /\ backlog' = Append(backlog, c)
    /\ UNCHANGED <<conn, clients, sentBy, up, down, seen, handlerVars, forkFailures>>

Send(c) ==
    /\ client[c] = "in"
    /\ SumFunction(sentBy) < MaxMsgs
    /\ sentBy' = [sentBy EXCEPT ![c] = @ + 1]
    /\ up' = [up EXCEPT ![c] = Append(@, [from |-> c, n |-> sentBy[c] + 1])]
    /\ UNCHANGED <<client, conn, backlog, clients, down, seen, handlerVars, forkFailures>>

(* The thread receive_messages() prints a message. *)
Show(c) ==
    /\ client[c] = "in"
    /\ down[c] # << >>
    /\ seen' = [seen EXCEPT ![c] = Append(@, Head(down[c]))]
    /\ down' = [down EXCEPT ![c] = Tail(@)]
    /\ UNCHANGED <<client, conn, backlog, clients, sentBy, up, handlerVars, forkFailures>>

(* "exit", or the process is stopped. *)
Leave(c) ==
    /\ client[c] = "in"
    /\ Cardinality({d \in Clients : client[d] = "left"}) < MaxLeaves
    /\ client' = [client EXCEPT ![c] = "left"]
    /\ conn' = [conn EXCEPT ![c] = IF down[c] = << >> THEN "fin" ELSE "reset"]
    /\ down' = [down EXCEPT ![c] = << >>]
    /\ UNCHANGED <<backlog, clients, sentBy, up, seen, handlerVars, forkFailures>>

-----------------------------------------------------------------------------
(* The parent: accept(), the first free slot if there is one, fork(). *)

TableWith(c) ==
    IF \E i \in Slots : clients[i] = Free
    THEN LET first == CHOOSE i \in Slots :
                         clients[i] = Free /\ \A j \in 1..(i-1) : clients[j] # Free
         IN  [clients EXCEPT ![first] = c]
    ELSE clients

(* A client whose fork() fails keeps its slot and has no handler. *)
Accept ==
    /\ backlog # << >>
    /\ LET c == Head(backlog)
       IN  /\ clients' = TableWith(c)
           /\ \/ /\ handler' = [handler EXCEPT ![c] = "recv"]
                 /\ view' = [view EXCEPT ![c] = TableWith(c)]
                 /\ UNCHANGED forkFailures
              \/ /\ forkFailures < MaxForkFailures
                 /\ forkFailures' = forkFailures + 1
                 /\ UNCHANGED <<handler, view>>
    /\ backlog' = Tail(backlog)
    /\ UNCHANGED <<clientVars, conn, up, down, msg, slot>>

-----------------------------------------------------------------------------
(* A handler. *)

(* Faulty variant: the socket is read again in the sending loop. *)
ReadsAlways(c) == handler[c] \in {"recv", "send"}

Reads(c) == handler[c] = "recv"

(* recv() of a message. *)
Receive(c) ==
    /\ Reads(c)
    /\ up[c] # << >>
    /\ msg' = [msg EXCEPT ![c] = Head(up[c])]
    /\ up' = [up EXCEPT ![c] = Tail(@)]
    /\ handler' = [handler EXCEPT ![c] = "send"]
    /\ slot' = [slot EXCEPT ![c] = 1]
    /\ UNCHANGED <<clientVars, conn, backlog, clients, down, view, forkFailures>>

(* recv() <= 0: the handler frees a slot of its own copy and ends. *)
Disconnect(c) ==
    /\ handler[c] = "recv"
    /\ up[c] = << >>
    /\ conn[c] # "open"
    /\ handler' = [handler EXCEPT ![c] = "gone"]
    /\ view' = [view EXCEPT ![c] = [i \in Slots |-> IF @[i] = c THEN Free ELSE @[i]]]
    /\ UNCHANGED <<clientVars, conn, backlog, clients, up, down, msg, slot, forkFailures>>

(* The socket s after a send() of m to it. *)
Deliver(s, m) ==
    /\ down' = IF conn[s] = "open" THEN [down EXCEPT ![s] = Append(@, m)] ELSE down
    /\ conn' = IF conn[s] = "fin" THEN [conn EXCEPT ![s] = "reset"] ELSE conn

(* Faulty variants: the loop runs one slot too far, stops one too early,   *)
(* or runs from the last slot to the first.                                *)
EndsLate(i) == i > MaxClients
EndsEarly(i) == i >= MaxClients - 1
BackwardsSlot(i) == MaxClients + 1 - i

(* Round i is the last one, and is for slot LoopSlot(i). *)
Ends(i) == i = MaxClients
LoopSlot(i) == i

(* One round of broadcast_message(). *)
Broadcast(c) ==
    /\ handler[c] = "send"
    /\ LET s == view[c][LoopSlot(slot[c])]
       IN  IF s # Free /\ conn[s] = "reset"
           THEN /\ handler' = [handler EXCEPT ![c] = "killed"]
                /\ UNCHANGED <<slot, conn, down>>
           ELSE /\ handler' = [handler EXCEPT ![c] = IF Ends(slot[c]) THEN "recv" ELSE "send"]
                /\ slot' = [slot EXCEPT ![c] = @ + 1]
                /\ IF s = Free THEN UNCHANGED <<conn, down>> ELSE Deliver(s, msg[c])
    /\ UNCHANGED <<clientVars, backlog, clients, up, view, msg, forkFailures>>

Next ==
    \/ \E c \in Clients : Connect(c) \/ Send(c) \/ Show(c) \/ Leave(c)
    \/ Accept
    \/ \E c \in Clients : Receive(c) \/ Disconnect(c) \/ Broadcast(c)

Spec == Init /\ [][Next]_goldVars

(* No process is held up; what users type and when they leave is theirs. *)
FairSpec ==
    /\ Spec
    /\ WF_goldVars(Accept)
    /\ \A c \in Clients : /\ WF_goldVars(Show(c))
                          /\ WF_goldVars(Receive(c) \/ Disconnect(c) \/ Broadcast(c))

-----------------------------------------------------------------------------
(* Properties. *)

TypeOK ==
    /\ client \in [Clients -> {"off", "in", "left"}]
    /\ conn \in [Clients -> {"open", "fin", "reset"}]
    /\ clients \in [Slots -> Clients \cup {Free}]
    /\ view \in [Clients -> [Slots -> Clients \cup {Free}]]
    /\ handler \in [Clients -> {"none", "recv", "send", "gone", "killed"}]
    /\ msg \in [Clients -> Message \cup {NoMessage}]
    /\ \A c \in Clients : slot[c] \in Slots \/ handler[c] # "send"
    /\ \A c \in Clients : up[c] \in Seq(Message) /\ down[c] \in Seq(Message)

Got(c) == seen[c] \o down[c]
From(s, c) == Cardinality({i \in DOMAIN s : s[i].from = c})
Heard(d, c) == From(Got(d), c)
Targets(c) == {view[c][i] : i \in Slots} \ {Free}

(* Whoever hears a client hears it from its first message on, in order,    *)
(* without gap or repetition, although each message is sent by a loop that *)
(* other handlers' loops run through, and a handler may be killed in it.   *)
InOrderWithoutGaps ==
    \A d \in Clients : \A i \in 1..Len(Got(d)) :
        Got(d)[i].n = Cardinality({j \in 1..i : Got(d)[j].from = Got(d)[i].from})

(* A client's own message comes back to it last: once it is on its screen  *)
(* everybody the handler serves has it, unless they have left.             *)
EchoIsReceipt ==
    \A c \in Clients : \A d \in Targets(c) :
        client[d] = "in" => Heard(d, c) >= Heard(c, c)

(* While nobody leaves, what a handler has read gets to all it serves. *)
EldersHear ==
    \A c, d \in Clients : \A k \in 1..MaxMsgs :
        handler[c] # "none" /\ sentBy[c] >= k /\ d \in Targets(c)
            ~> \/ From(seen[d], c) >= k
               \/ \E e \in Clients : client[e] = "left"

=============================================================================
