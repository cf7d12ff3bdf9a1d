------------------------------- MODULE TwoWayChat -------------------------------
(***************************************************************************)
(* The TCP chat server TCP/sv_2waychat.c: a handler process per client     *)
(* copies what the client sends into a pipe; one broadcaster, forked when  *)
(* the first client is accepted, reads the pipe and sends to the clients   *)
(* of the array it was forked with.  The pipe has no message boundaries: a *)
(* message is one or more units, and a read takes what units there are up  *)
(* to its buffer's length.  snprintf() then prints "MESSAGE: " and the     *)
(* buffer into the buffer itself, and loses what it writes over.           *)
(***************************************************************************)
EXTENDS Naturals, Sequences, FiniteSets

CONSTANTS
    Clients,            \* connections
    Empty, Stdin,       \* the elements -1 and 0 of sockfd_arr[]
    MaxClients,         \* MAX_CLIENTS, the length of sockfd_arr[]
    PipeCap, ReadCap,   \* units the pipe holds, and one read() takes at most
    Prefix, Lost,       \* units that "MESSAGE: " writes over; a lost unit
    SockCap,            \* records of the broadcaster that a socket holds
    Sizes,              \* units a message may have
    MaxMsgs, MaxLeaves, MaxForkFailures     \* bounds

ASSUME TwoWayChatAssumption ==
    /\ {Empty, Stdin} \cap Clients = {}
    /\ MaxClients \in Nat \ {0} /\ PipeCap \in Nat /\ ReadCap \in Nat \ {0}
    /\ Prefix \in Nat /\ SockCap \in Nat /\ Sizes \subseteq Nat

VARIABLES
    client,         \* client[c]: "off", "in" or "left"
    conn,           \* conn[c]: "open"; after c left "fin", "error" (reset, no
                    \* call has returned it), "reset" or "gone" (recv() has)
    sent,           \* sent[c]: messages of c its handler has received
    arr,            \* sockfd_arr[]
    handler,        \* handler[c]: "none", "recv", "write", "exit" or "done"
    msg,            \* msg[c]: the units its handler has to write
    pipe, written,  \* the units in the pipe, and all ever written to it
    cast, castArr,  \* the broadcaster: "none", "up" or "dead"; its copy of arr
    chunk,          \* what it has read and not sent
    heard, unread,  \* the units sent to c, and the records it has not read
    forkFailures

clientVars == <<client, conn, sent>>
handlerVars == <<handler, msg>>
pipeVars == <<pipe, written>>
castVars == <<cast, castArr, chunk, heard, unread>>
vars == <<clientVars, arr, handlerVars, pipeVars, castVars, forkFailures>>

Slots == 1..MaxClients

(* int sockfd_arr[100] = {-1} gives -1 to its first element only. *)
InitialArr == [i \in Slots |-> IF i = 1 THEN Empty ELSE Stdin]

Init ==
    /\ client = [c \in Clients |-> "off"]
    /\ conn = [c \in Clients |-> "open"]
    /\ sent = [c \in Clients |-> 0]
    /\ arr = InitialArr
    /\ handler = [c \in Clients |-> "none"]
    /\ msg = [c \in Clients |-> << >>]
    /\ pipe = << >> /\ written = << >>
    /\ cast = "none" /\ castArr = InitialArr /\ chunk = << >>
    /\ heard = [c \in Clients |-> << >>]
    /\ unread = [c \in Clients |-> 0]
    /\ forkFailures = 0

(* A client leaves: with data it has not read the socket sends RST, not FIN *)
Leave(c) ==
    /\ client[c] = "in"
    /\ Cardinality({d \in Clients : client[d] = "left"}) < MaxLeaves
    /\ client' = [client EXCEPT ![c] = "left"]
    /\ conn' = [conn EXCEPT ![c] = IF unread[c] > 0 THEN "error" ELSE "fin"]
    /\ UNCHANGED <<sent, arr, handlerVars, pipeVars, castVars, forkFailures>>

ClientReads(c) ==
    /\ client[c] = "in" /\ unread[c] > 0
    /\ unread' = [unread EXCEPT ![c] = @ - 1]
    /\ UNCHANGED <<clientVars, arr, handlerVars, pipeVars, cast, castArr, chunk, heard, forkFailures>>

-----------------------------------------------------------------------------
(* The parent: accept(), the array, the forks.  A broadcaster whose fork   *)
(* fails is not forked again; check(pid == -1) lets the failure of a       *)
(* handler's fork pass, and the client has nobody.                         *)

Serves(a, c) == \E i \in Slots : a[i] = c

ArrWith(c) ==
    IF Serves(arr, Empty)
    THEN [arr EXCEPT ![CHOOSE i \in Slots : arr[i] = Empty /\
                           \A j \in 1..(i-1) : arr[j] # Empty] = c]
    ELSE arr

Accept(c) ==
    /\ client[c] = "off"
    /\ client' = [client EXCEPT ![c] = "in"]
    /\ arr' = ArrWith(c)
    /\ \E castForked, forked \in BOOLEAN :
          /\ handler' = [handler EXCEPT ![c] = IF forked THEN "recv" ELSE "none"]
          /\ IF \A d \in Clients : client[d] = "off"
             THEN /\ cast' = IF castForked THEN "up" ELSE "dead"
                  /\ castArr' = ArrWith(c)
             ELSE castForked /\ UNCHANGED <<cast, castArr>>
          /\ forkFailures' = forkFailures + (IF forked THEN 0 ELSE 1)
                                          + (IF castForked THEN 0 ELSE 1)
    /\ forkFailures' <= MaxForkFailures
    /\ UNCHANGED <<conn, sent, msg, pipeVars, chunk, heard, unread>>

-----------------------------------------------------------------------------
(* The handlers. *)

(* A message of some size, or "exit"; it may have been sent before c left. *)
Receive(c) ==
    /\ handler[c] = "recv" /\ conn[c] # "gone"
    /\ sent[c] < MaxMsgs
    /\ sent' = [sent EXCEPT ![c] = @ + 1]
    /\ \E s \in Sizes : msg' = [msg EXCEPT ![c] =
          [k \in 1..s |-> [from |-> c, n |-> sent[c] + 1, part |-> k]]]
    /\ \E next \in {"write", "exit"} : handler' = [handler EXCEPT ![c] = next]
    /\ UNCHANGED <<client, conn, arr, pipeVars, castVars, forkFailures>>

(* recv() = -1 is not seen: bytes_read is unsigned.  The buffer is empty,  *)
(* and nothing is written before recv() is called again.                   *)
ReceiveError(c) ==
    /\ handler[c] = "recv" /\ conn[c] = "error"
    /\ conn' = [conn EXCEPT ![c] = "gone"]
    /\ msg' = [msg EXCEPT ![c] = << >>]
    /\ handler' = [handler EXCEPT ![c] = "write"]
    /\ UNCHANGED <<client, sent, arr, pipeVars, castVars, forkFailures>>

Disconnect(c) ==
    /\ handler[c] = "recv" /\ conn[c] \in {"fin", "reset", "gone"}
    /\ handler' = [handler EXCEPT ![c] = "done"]
    /\ UNCHANGED <<clientVars, arr, msg, pipeVars, castVars, forkFailures>>

(* write() waits until the pipe has room for all of the message. *)
Write(c) ==
    /\ handler[c] \in {"write", "exit"}
    /\ Len(pipe) + Len(msg[c]) <= PipeCap
    /\ pipe' = pipe \o msg[c]
    /\ written' = written \o msg[c]
    /\ msg' = [msg EXCEPT ![c] = << >>]
    /\ handler' = [handler EXCEPT ![c] = IF @ = "exit" THEN "done" ELSE "recv"]
    /\ UNCHANGED <<clientVars, arr, castVars, forkFailures>>

-----------------------------------------------------------------------------
(* The broadcaster.  The others keep the pipe open: read() waits for data. *)

(* Faulty variants of Taken: read() fills its buffer, or takes it all.     *)
TakenFull(p) == IF Len(p) < ReadCap THEN 0 ELSE ReadCap
TakenAll(p) == Len(p)
RestNone(p) == << >>

(* How many units a read() takes, and what it leaves. *)
Taken(p) == IF Len(p) < ReadCap THEN Len(p) ELSE ReadCap
Rest(p) == SubSeq(p, Taken(p) + 1, Len(p))

CastRead ==
    /\ cast = "up" /\ chunk = << >>
    /\ Taken(pipe) > 0
    /\ chunk' = SubSeq(pipe, 1, Taken(pipe))
    /\ pipe' = Rest(pipe)
    /\ UNCHANGED <<clientVars, arr, handlerVars, written, cast, castArr, heard, unread, forkFailures>>

(* What snprintf() leaves of a read: "MESSAGE: " is written over its first *)
(* units, its last fall off the end, and as source and destination overlap *)
(* each of the others may be lost too (which are, depends on the library). *)
Garbled(read, kept) == [i \in 1..Len(read) |-> IF i \in kept THEN read[i] ELSE Lost]

(* The loop over castArr.  Only its first element is ever a client; sends  *)
(* to descriptor 0 fail.  send() waits for room in the socket of a client  *)
(* that is there.  To one that has closed it succeeds and draws a reset, a *)
(* pending error it returns; the next send raises SIGPIPE, which kills.    *)
CastSend ==
    /\ cast = "up" /\ chunk # << >>
    /\ LET to == {c \in Clients : Serves(castArr, c)}
           open == {c \in to : conn[c] = "open"}
       IN  /\ \A c \in open : unread[c] < SockCap
           /\ cast' = IF \E c \in to : conn[c] \in {"reset", "gone"} THEN "dead" ELSE "up"
           /\ conn' = [c \in Clients |->
                  IF c \in to /\ conn[c] \in {"fin", "error"} THEN "reset" ELSE conn[c]]
           /\ unread' = [c \in Clients |-> IF c \in open THEN unread[c] + 1 ELSE unread[c]]
           /\ \E kept \in SUBSET ((Prefix + 1)..(ReadCap - Prefix)) :
                  heard' = [c \in Clients |-> IF c \in open
                                THEN heard[c] \o Garbled(chunk, kept) ELSE heard[c]]
    /\ chunk' = << >>
    /\ UNCHANGED <<client, sent, arr, handlerVars, pipeVars, castArr, forkFailures>>

Next ==
    \/ \E c \in Clients :
          \/ Leave(c) \/ ClientReads(c) \/ Accept(c)
          \/ Receive(c) \/ ReceiveError(c) \/ Disconnect(c) \/ Write(c)
    \/ CastRead \/ CastSend

Spec == Init /\ [][Next]_vars

(* The processes run when nothing blocks them; the pipe serves its writers *)
(* in turn.  A client need never read what it is sent.                     *)
FairSpec ==
    /\ Spec
    /\ WF_vars(CastRead \/ CastSend)
    /\ \A c \in Clients : SF_vars(Write(c))

-----------------------------------------------------------------------------
(* Properties. *)

TypeOK ==
    /\ arr \in [Slots -> Clients \cup {Empty, Stdin}]
    /\ castArr \in [Slots -> Clients \cup {Empty, Stdin}]
    /\ cast \in {"none", "up", "dead"}
    /\ handler \in [Clients -> {"none", "recv", "write", "exit", "done"}]
    /\ conn \in [Clients -> {"open", "fin", "error", "reset", "gone"}]
    /\ unread \in [Clients -> 0..SockCap]
    /\ Len(pipe) <= PipeCap /\ Len(chunk) <= ReadCap

(* Line 57, "add the dude to the client array": when the array is longer   *)
(* than the list of clients, every accepted client is in it.               *)
AddedToArray ==
    Cardinality(Clients) <= MaxClients =>
        \A c \in Clients : client[c] = "in" => Serves(arr, c)

(* s is t, but for what snprintf() has lost. *)
InPlace(s, t) == Len(s) = Len(t) /\ \A i \in 1..Len(t) : s[i] \in {t[i], Lost}

(* Wherever the reads cut the stream of all handlers' messages, whatever   *)
(* snprintf() leaves of it reaches the client served at its place: in the  *)
(* order of the writes, once, and with nothing missing but what it lost.   *)
StreamInPlace ==
    \A c \in Clients :
        client[c] = "in" /\ cast = "up" /\ Serves(castArr, c) =>
            InPlace(heard[c] \o chunk \o pipe, written)

(* send() is blocked: the client served stays and has a full socket.       *)
HeldUp ==
    \E c \in Clients : Serves(castArr, c) /\ conn[c] = "open" /\ unread[c] = SockCap

(* Two things leave a handler stuck in write(): that the client served     *)
(* stays and stops reading for good, and the death of the broadcaster, by  *)
(* SIGPIPE or a failed fork.  However full the pipe is, nothing else does. *)
NoHandlerStuck ==
    []<>~HeldUp =>
        \A c \in Clients : handler[c] \in {"write", "exit"}
                               ~> handler[c] \in {"recv", "done"} \/ cast = "dead"

=============================================================================
