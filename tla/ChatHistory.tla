------------------------------ MODULE ChatHistory ------------------------------
(***************************************************************************)
(* The UDP chat server with a log, UDP/chatUDP_server.c: a message is      *)
(* appended to chat.log and then handed to every other client; a datagram  *)
(* that begins with "/history" is answered with the log, one datagram per  *)
(* line.  The process may be killed at any point and started again: the    *)
(* log stays, the client table and the socket go.  The repository has no   *)
(* client for this server; any UDP program that sends lines is one, and    *)
(* the "\n" its lines end in makes the server log an empty line after each *)
(* (log_message adds a "\n" of its own).                                   *)
(***************************************************************************)
EXTENDS Naturals, Sequences, Functions

CONSTANTS
    Users,          \* client sockets
    MaxClients,     \* MAX_CLIENTS
    InboxCap,       \* datagrams the server's socket can hold
    MailCap,        \* datagrams a client's socket can hold
    MaxMsgs,        \* bound: messages the users send
    MaxRequests,    \* bound: "/history" requests the users send
    MaxCrashes,     \* bound: kills of the server
    MaxLogFailures  \* bound: fopen(chat.log, "a") that fail

ASSUME ChatHistoryAssumption ==
    MaxClients \in Nat /\ InboxCap \in Nat /\ MailCap \in Nat

VARIABLES
    inbox,          \* the server's socket
    clients,        \* clients[0 .. client_count-1]
    phase,          \* where main() is: "recv", "log", "send" or "replay"
    current,        \* the datagram in buffer
    cursor,         \* the next client to send to, or the next line to read
    file,           \* the lines of chat.log
    mail,           \* mail[u]: the socket of u
    seen,           \* seen[u]: what u has read
    sent, asked,    \* sent[u], asked[u]: messages and requests u has sent
    missed,         \* history: users whose full socket dropped a datagram
    crashes, logFailures

serverVars == <<clients, phase, current, cursor, file>>
userVars == <<seen, sent, asked>>
bounds == <<crashes, logFailures>>
historyVars == <<inbox, serverVars, mail, userVars, missed, bounds>>

Datagram == [from : Users, n : Nat]     \* n = 0 is "/history"
Nothing == [from |-> "nobody", n |-> 0]
EmptyLine == [from |-> "nobody", n |-> 1]

(* What a client's socket holds: a message as it was said, or a log line.  *)
Live(m) == [kind |-> "live", line |-> m]
Old(m) == [kind |-> "old", line |-> m]

Init ==
    /\ inbox = << >>
    /\ clients = << >>
    /\ phase = "recv"
    /\ current = Nothing
    /\ cursor = 1
    /\ file = << >>
    /\ mail = [u \in Users |-> << >>]
    /\ seen = [u \in Users |-> << >>]
    /\ sent = [u \in Users |-> 0]
    /\ asked = [u \in Users |-> 0]
    /\ missed = {}
    /\ crashes = 0
    /\ logFailures = 0

-----------------------------------------------------------------------------
(* The users. *)

SendTo(box, cap, d) == IF Len(box) < cap THEN Append(box, d) ELSE box

Say(u) ==
    /\ SumFunction(sent) < MaxMsgs
    /\ sent' = [sent EXCEPT ![u] = @ + 1]
    /\ inbox' = SendTo(inbox, InboxCap, [from |-> u, n |-> sent[u] + 1])
    /\ UNCHANGED <<serverVars, mail, seen, asked, missed, bounds>>

Ask(u) ==
    /\ SumFunction(asked) < MaxRequests
    /\ asked' = [asked EXCEPT ![u] = @ + 1]
    /\ inbox' = SendTo(inbox, InboxCap, [from |-> u, n |-> 0])
    /\ UNCHANGED <<serverVars, mail, seen, sent, missed, bounds>>

Read(u) ==
    /\ mail[u] # << >>
    /\ seen' = [seen EXCEPT ![u] = Append(@, Head(mail[u]))]
    /\ mail' = [mail EXCEPT ![u] = Tail(@)]
    /\ UNCHANGED <<serverVars, inbox, sent, asked, missed, bounds>>

-----------------------------------------------------------------------------
(* The server. *)

IsKnown(u) == \E i \in 1..Len(clients) : clients[i] = u

(* Faulty variants: a message is not logged first, the first line is read  *)
(* before the loop, the sender's own entry is not passed.                  *)
NextPhaseUnlogged(d) == IF d.n = 0 THEN "replay" ELSE "send"
FirstRoundLate(d) == IF d.n = 0 THEN 2 ELSE 1
NextClientStuck(i) == IF clients[i] = current.from THEN i ELSE i + 1

(* add_client() *)
Enrolled(u) ==
    IF ~IsKnown(u) /\ Len(clients) < MaxClients THEN Append(clients, u) ELSE clients

NextPhase(d) == IF d.n = 0 THEN "replay" ELSE "log"
FirstRound(d) == 1
NextClient(i) == i + 1

(* recvfrom() and add_client(); send_history() opens the log to read it,   *)
(* and finds none before the first message was logged.                     *)
Take ==
    /\ phase = "recv"
    /\ inbox # << >>
    /\ inbox' = Tail(inbox)
    /\ LET d == Head(inbox)
       IN  /\ current' = d
           /\ clients' = Enrolled(d.from)
           /\ phase' = NextPhase(d)
           /\ cursor' = FirstRound(d)
    /\ UNCHANGED <<file, userVars, mail, missed, bounds>>

(* log_message(): the lines reach the file when it is closed; when it      *)
(* cannot be opened the message is handed on without being logged.         *)
Log ==
    /\ phase = "log"
    /\ \/ /\ file' = file \o <<current, EmptyLine>>
          /\ UNCHANGED logFailures
       \/ /\ logFailures < MaxLogFailures
          /\ logFailures' = logFailures + 1
          /\ UNCHANGED file
    /\ phase' = "send"
    /\ UNCHANGED <<inbox, clients, current, cursor, mail, userVars, missed, crashes>>

(* sendto() to a client. *)
HandTo(u, d) ==
    /\ mail' = [mail EXCEPT ![u] = SendTo(@, MailCap, d)]
    /\ missed' = IF Len(mail[u]) < MailCap THEN missed ELSE missed \cup {u}

(* One round of broadcast_message(), or its end. *)
HandOn ==
    /\ phase = "send"
    /\ IF cursor > Len(clients)
       THEN phase' = "recv" /\ UNCHANGED <<cursor, mail, missed>>
       ELSE /\ cursor' = NextClient(cursor)
            /\ IF clients[cursor] = current.from THEN UNCHANGED <<mail, missed>>
               ELSE HandTo(clients[cursor], Live(current))
            /\ UNCHANGED phase
    /\ UNCHANGED <<inbox, clients, current, file, userVars, bounds>>

(* One round of the loop of send_history() (which then sleeps), or its end *)
Replay ==
    /\ phase = "replay"
    /\ IF cursor > Len(file)
       THEN phase' = "recv" /\ UNCHANGED <<cursor, mail, missed>>
       ELSE /\ cursor' = cursor + 1
            /\ HandTo(current.from, Old(file[cursor]))
            /\ UNCHANGED phase
    /\ UNCHANGED <<inbox, clients, current, file, userVars, bounds>>

(* The process is killed, in whatever phase, and started again. *)
Crash ==
    /\ crashes < MaxCrashes
    /\ crashes' = crashes + 1
    /\ inbox' = << >>
    /\ clients' = << >>
    /\ phase' = "recv"
    /\ current' = Nothing
    /\ cursor' = 1
    /\ UNCHANGED <<file, mail, userVars, missed, logFailures>>

Next ==
    \/ \E u \in Users : Say(u) \/ Ask(u) \/ Read(u)
    \/ Take \/ Log \/ HandOn \/ Replay
    \/ Crash

Spec == Init /\ [][Next]_historyVars

(* The server and the readers are never held up. *)
FairSpec ==
    /\ Spec
    /\ WF_historyVars(Take \/ Log \/ HandOn \/ Replay)
    /\ \A u \in Users : WF_historyVars(Read(u))

-----------------------------------------------------------------------------
(* Properties. *)

TypeOK ==
    /\ inbox \in Seq(Datagram) /\ Len(inbox) <= InboxCap
    /\ clients \in Seq(Users) /\ Len(clients) <= MaxClients
    /\ phase \in {"recv", "log", "send", "replay"}
    /\ current \in Datagram \cup {Nothing}
    /\ phase = "send" => cursor \in 1..(Len(clients) + 1)
    /\ phase = "replay" => cursor \in 1..(Len(file) + 1)
    /\ file \in Seq(Datagram \cup {EmptyLine})
    /\ \A u \in Users : Len(mail[u]) <= MailCap

Got(u) == seen[u] \o mail[u]
Told(u) == {i \in 1..Len(Got(u)) : Got(u)[i].kind = "live"}

(* Where in the log u's messages are. *)
InLog(u, pos) ==
    /\ \A i \in Told(u) : file[pos[i]] = Got(u)[i].line
    /\ \A i, j \in Told(u) : i < j => pos[i] < pos[j]

(* chat.log is the memory of the chat: whatever a user was told as it was  *)
(* said is in the log, in the order it was told in and once, although the  *)
(* server may be killed between the log and the sending, or during it.     *)
(* (As long as chat.log can be opened.)                                    *)
ToldIsLogged ==
    logFailures = 0 =>
        \A u \in Users : \E pos \in [Told(u) -> 1..Len(file)] : InLog(u, pos)

(* A replay is the log and nothing but the log: its lines reach the user   *)
(* one after the other with no message between them, from the first on,    *)
(* unless its socket was full once.  The server takes no message during a  *)
(* replay, and so misses those its own socket cannot hold.                 *)
ReplayIsTheLog ==
    phase = "replay" /\ current.from \notin missed =>
        LET got == Got(current.from)
        IN  /\ Len(got) >= cursor - 1
            /\ \A i \in 1..(cursor - 1) :
                   got[Len(got) - (cursor - 1) + i] = Old(file[i])

(* A broadcast and a replay come to their end: the server always comes     *)
(* back to its socket.                                                     *)
ServerReturns == []<>(phase = "recv")

=============================================================================
