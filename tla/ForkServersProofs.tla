-------------------------- MODULE ForkServersProofs ---------------------------
(***************************************************************************)
(* Theorems about module ForkServers, for every number of clients, every   *)
(* length of the backlog and every number of fork() that fail.             *)
(***************************************************************************)
EXTENDS ForkServers, FiniteSetTheorems, SequenceTheorems, TLAPS

(* Where the server and where its children can be. *)
ServerPlaces == {"accept", "accepted", "parent", "operator", "wait", "ended"}
ChildPlaces == {"none", "child", "read", "operator", "parent", "accept", "welcomed", "ended"}

Things == Clients \cup {"listen", "unbound"}

-----------------------------------------------------------------------------
(* The inductive invariant, in parts. *)

Shapes ==
    /\ program \in Programs
    /\ pc \in [Procs -> ServerPlaces \cup ChildPlaces]
    /\ fds \in [Procs -> SUBSET Things]
    /\ conn \in [Procs -> Procs]
    /\ backlog \in Seq(Clients) /\ Len(backlog) <= Backlog
    /\ failures \in 0..MaxForkFailures
    /\ client \in [Clients -> {"out", "in", "waits", "gone"}]

(* The server, and the client it has accepted and not yet forked for. *)
ServerAt ==
    /\ pc[Server] \in ServerPlaces
    /\ pc[Server] = "accepted" =>
          conn[Server] \in Clients \cap fds[Server] /\ pc[conn[Server]] = "none"
    /\ pc[Server] = "parent" => conn[Server] \in Clients
    /\ pc[Server] = "operator" => program \in {"serial", "E1"}

(* A child is its client's, and a child that can come to accept() has      *)
(* closed the listening socket.                                            *)
ChildrenAt ==
    \A c \in Clients :
        /\ pc[c] \in ChildPlaces
        /\ pc[c] # "none" => conn[c] = c
        /\ pc[c] = "parent" => program = "talk"
        /\ pc[c] = "operator" => program \in {"talk", "time"}
        /\ "listen" \in fds[c] =>
              \/ pc[c] = "child"
              \/ pc[c] = "read" /\ program = "multi"
              \/ pc[c] = "welcomed" /\ program = "dice"

NothingLeftOpen == \A p \in Procs : ~Running(p) => fds[p] = {}

(* A client that has not been accepted has no process, and its connection  *)
(* is nobody's; it is in the backlog once, and only if it has come.        *)
Untouched(c) == pc[c] = "none" /\ \A p \in Procs : c \notin fds[p]

BacklogIsNew ==
    /\ \A c \in Clients : client[c] = "out" => Untouched(c)
    /\ \A i \in 1..Len(backlog) : Untouched(backlog[i]) /\ client[backlog[i]] # "out"
    /\ \A i, j \in 1..Len(backlog) : backlog[i] = backlog[j] => i = j

(* A process holds no connection but that of the client it is about, and   *)
(* the server none when it accepts.                                        *)
OwnOnly ==
    program \notin Keepers =>
        /\ \A p \in Procs : Clients \cap fds[p] \subseteq {conn[p]}
        /\ pc[Server] = "accept" \/ (program = "E1" /\ pc[Server] = "operator")
              => Clients \cap fds[Server] = {}

(* chat_server.c waits for its child and accepts nobody while one runs.    *)
OneConversation ==
    program = "serial" =>
        \A c \in Clients : Running(c) => pc[Server] = "parent" /\ conn[Server] = c

ProcInv ==
    /\ Shapes /\ ServerAt /\ ChildrenAt /\ NothingLeftOpen
    /\ BacklogIsNew /\ OwnOnly /\ OneConversation

-----------------------------------------------------------------------------
(* What the twelve programs do to their processes comes to few kinds of    *)
(* steps.                                                                  *)

(* close() of some descriptors on the way from one place to another. *)
Moves(p) ==
    \/ /\ program \in {"modular", "tcpstate", "capper", "talk", "time"}
       /\ pc[p] = "parent" /\ Closes(p, {conn[p]}, "accept")
    \/ program = "multi" /\ pc[p] = "parent" /\ (Goto(p, "accept") \/ Goto(p, "wait"))
    \/ program = "username" /\ pc[p] = "parent" /\ Goto(p, "accept")
    \/ /\ program = "dice"
       /\ pc[p] \in {"parent", "welcomed"} /\ Closes(p, {"listen", conn[p]}, "accept")
    \/ /\ program = "serial" /\ ~Running(conn[p])
       /\ pc[p] = "parent" /\ Goto(p, "operator")
    \/ program = "serial" /\ pc[p] = "operator" /\ Closes(p, {conn[p]}, "accept")
    \/ program = "E1" /\ pc[p] = "parent" /\ Closes(p, {conn[p]}, "operator")
    \/ program = "E1" /\ pc[p] = "operator" /\ Goto(p, "accept")
    \/ /\ program \in {"modular", "tcpstate", "capper", "talk", "username", "time"}
       /\ pc[p] = "child" /\ Closes(p, {"listen"}, "read")
    \/ program = "talk" /\ pc[p] = "child" /\ Closes(p, {"listen"}, "parent")
    \/ program = "multi" /\ pc[p] = "child" /\ Goto(p, "read")
    \/ program = "dice" /\ pc[p] = "child" /\ Goto(p, "welcomed")
    \/ program = "talk" /\ pc[p] = "read" /\ Goto(p, "operator")
    \/ program = "talk" /\ pc[p] = "operator" /\ Goto(p, "read")
    \/ program = "time" /\ pc[p] = "read" /\ Goto(p, "operator")
    \/ program = "username" /\ pc[p] = "read" /\ Goto(p, "accept")

Ends(p) == pc[p] \notin {"none", "ended", "parent"} /\ Exit(p)

ProcessStep(p) ==
    \/ Accept(p) \/ Fork(p) \/ ForkFails(p)
    \/ Moves(p) \/ Ends(p)
    \/ UNCHANGED procVars

LEMMA LoopStep ==
    ASSUME NEW p \in Procs, Loop(p)
    PROVE  ProcessStep(p)
<1>1. \A q \in Procs : AcceptFails(q) => Ends(q)
  BY DEF AcceptFails, Ends
<1>2. \A q \in Procs : ForkDies(q) => Ends(q)
  BY DEF ForkDies, Ends
<1> USE DEF ProcessStep, AcceptOrDie, CountOrDie, ForkOrGoOn, ForkOrDie, CloseInParent
<1>3. CASE ModularLoop(p) \/ TcpStateLoop(p) \/ CapperLoop(p)
  BY <1>1, <1>3 DEF ModularLoop, TcpStateLoop, CapperLoop, Moves
<1>4. CASE MultiLoop(p)
  BY <1>1, <1>4 DEF MultiLoop, Moves, Ends
<1>5. CASE TalkLoop(p) \/ UsernameLoop(p)
  BY <1>1, <1>2, <1>5 DEF TalkLoop, UsernameLoop, Moves
<1>6. CASE DiceLoop(p)
  BY <1>1, <1>2, <1>6 DEF DiceLoop, Moves
<1>7. CASE TimeLoop(p)
  BY <1>1, <1>7 DEF TimeLoop, Moves
<1>8. CASE SerialLoop(p)
  BY <1>1, <1>8 DEF SerialLoop, Moves, Waited
<1>9. CASE E1Loop(p)
  BY <1>1, <1>9 DEF E1Loop, Moves
<1>10. CASE ClockLoop(p) \/ Test01Loop(p)
  BY <1>1, <1>10 DEF ClockLoop, Test01Loop, SendAndExit, Ends
<1> QED
  BY <1>3, <1>4, <1>5, <1>6, <1>7, <1>8, <1>9, <1>10 DEF Loop

LEMMA HandlerStep ==
    ASSUME NEW p \in Procs, Handler(p)
    PROVE  ProcessStep(p)
<1>1. ReadUntilEnd(p) => Ends(p) \/ UNCHANGED procVars
  BY DEF ReadUntilEnd, Ends
<1> USE DEF ProcessStep, CloseListening
<1>2. CASE ModularHandler(p)
  BY <1>1, <1>2 DEF ModularHandler, Moves
<1>3. CASE TcpStateHandler(p)
  BY <1>1, <1>3 DEF TcpStateHandler, Moves, Killed, Ends
<1>4. CASE CapperHandler(p)
  BY <1>4 DEF CapperHandler, Moves, Ends
<1>5. CASE MultiHandler(p)
  BY <1>1, <1>5 DEF MultiHandler, Moves, Ends
<1>6. CASE TalkHandler(p)
  BY <1>6 DEF TalkHandler, Moves
<1>7. CASE UsernameHandler(p) \/ DiceHandler(p)
  BY <1>7 DEF UsernameHandler, DiceHandler, Moves
<1>8. CASE TimeHandler(p)
  BY <1>8 DEF TimeHandler, Moves, Ends
<1>9. CASE SerialHandler(p) \/ E1Handler(p)
  BY <1>9 DEF SerialHandler, E1Handler, Ends
<1> QED
  BY <1>2, <1>3, <1>4, <1>5, <1>6, <1>7, <1>8, <1>9 DEF Handler

LEMMA OperatorStep ==
    ASSUME NEW p \in Procs, Operator(p)
    PROVE  ProcessStep(p)
  BY DEF Operator, TalkOperator, TimeOperator, SerialOperator, E1Operator, Killed,
         ProcessStep, Moves, Ends

-----------------------------------------------------------------------------
(* Each kind of step preserves the invariant. *)

(* Only the server accepts and forks: a child that listens is elsewhere.   *)
LEMMA AcceptorIsServer ==
    ASSUME ProcInv, NEW p \in Procs,
           pc[p] = "accepted" \/ (pc[p] = "accept" /\ "listen" \in fds[p])
    PROVE  p = Server
  BY DEF ProcInv, ChildrenAt, ChildPlaces, Procs

LEMMA AcceptKeepsInv ==
    ASSUME ProcInv, NEW p \in Procs, Accept(p), UNCHANGED <<program, client>>
    PROVE  ProcInv'
<1> DEFINE c == Head(backlog)
<1>1. p = Server
  BY AcceptorIsServer DEF Accept
<1>2. /\ backlog \in Seq(Clients) /\ Len(backlog) \in Nat /\ backlog # << >>
      /\ backlog' = Tail(backlog)
      /\ Len(backlog) > 0
  BY LenProperties, EmptySeq DEF ProcInv, Shapes, Accept
<1>3. /\ c = backlog[1] /\ c \in Clients
      /\ Tail(backlog) \in Seq(Clients) /\ Len(Tail(backlog)) = Len(backlog) - 1
      /\ \A i \in 1..Len(Tail(backlog)) : Tail(backlog)[i] = backlog[i+1]
  BY <1>2, HeadTailProperties
<1>4. Untouched(c) /\ client[c] # "out"
  BY <1>2, <1>3 DEF ProcInv, BacklogIsNew
<1>5. c # Server /\ "listen" # c /\ Server \in Procs /\ Clients \subseteq Procs
  BY <1>3, ForkServersAssumption DEF Procs
<1> HIDE DEF c
<1>6. /\ pc' = [pc EXCEPT ![Server] = "accepted"]
      /\ conn' = [conn EXCEPT ![Server] = c]
      /\ fds' = [fds EXCEPT ![Server] = @ \cup {c}]
      /\ UNCHANGED failures /\ pc[Server] = "accept"
      /\ UNCHANGED <<program, client>>
  BY <1>1 DEF Accept, c
<1>7. /\ pc \in [Procs -> ServerPlaces \cup ChildPlaces]
      /\ fds \in [Procs -> SUBSET Things]
      /\ conn \in [Procs -> Procs]
  BY DEF ProcInv, Shapes
<1>8. Shapes'
  <2>1. backlog' \in Seq(Clients) /\ Len(backlog') <= Backlog
    BY <1>2, <1>3, ForkServersAssumption DEF ProcInv, Shapes
  <2>2. pc' \in [Procs -> ServerPlaces \cup ChildPlaces]
    BY <1>6, <1>7 DEF ServerPlaces
  <2>3. fds' \in [Procs -> SUBSET Things] /\ conn' \in [Procs -> Procs]
    BY <1>3, <1>5, <1>6, <1>7 DEF Things
  <2> QED BY <1>6, <2>1, <2>2, <2>3 DEF ProcInv, Shapes
<1>9. ServerAt'
  BY <1>3, <1>4, <1>5, <1>6, <1>7 DEF ServerAt, ServerPlaces, Untouched
<1>10. ChildrenAt'
  BY <1>5, <1>6, <1>7, ForkServersAssumption DEF ProcInv, ChildrenAt
<1>11. NothingLeftOpen'
  BY <1>5, <1>6, <1>7 DEF ProcInv, NothingLeftOpen, Running
<1>12. BacklogIsNew'
  <2>1. \A d \in Clients : Untouched(d) /\ d # c => Untouched(d)'
    BY <1>5, <1>6, <1>7, ForkServersAssumption DEF Untouched
  <2>2. \A i \in 1..Len(backlog) : i # 1 => backlog[i] # c
    BY <1>2, <1>3 DEF ProcInv, BacklogIsNew
  <2>3. \A d \in Clients : (client[d] = "out")' => Untouched(d)'
    BY <1>4, <1>6, <2>1 DEF ProcInv, BacklogIsNew
  <2>4. ASSUME NEW i \in 1..Len(backlog') PROVE (Untouched(backlog[i]) /\ client[backlog[i]] # "out")'
    <3>1. PICK d \in Clients : d = backlog[i+1] /\ d = backlog'[i]
      BY <1>2, <1>3
    <3>2. Untouched(d) /\ client[d] # "out" /\ d # c
      BY <1>2, <1>3, <2>2, <3>1 DEF ProcInv, BacklogIsNew
    <3>3. Untouched(d)'
      BY <2>1, <3>2
    <3>4. client'[d] # "out"
      BY <1>6, <3>2
    <3> QED BY <3>1, <3>3, <3>4 DEF Untouched
  <2>5. \A i, j \in 1..Len(backlog') : backlog'[i] = backlog'[j] => i = j
    BY <1>2, <1>3 DEF ProcInv, BacklogIsNew
  <2> QED BY <2>3, <2>4, <2>5 DEF BacklogIsNew
<1>13. OwnOnly'
  BY <1>3, <1>5, <1>6, <1>7 DEF ProcInv, OwnOnly
<1>14. OneConversation'
  BY <1>5, <1>6, <1>7 DEF ProcInv, OneConversation, Running
<1> QED
  BY <1>8, <1>9, <1>10, <1>11, <1>12, <1>13, <1>14 DEF ProcInv

LEMMA ForkKeepsInv ==
    ASSUME ProcInv, NEW p \in Procs, Fork(p), UNCHANGED <<program, client>>
    PROVE  ProcInv'
<1> DEFINE c == conn[Server]
<1>1. p = Server /\ pc[Server] = "accepted"
  BY AcceptorIsServer DEF Fork
<1>2. /\ c \in Clients /\ c \in fds[Server] /\ pc[c] = "none"
      /\ c # Server /\ Server \in Procs /\ Clients \subseteq Procs
  BY <1>1, ForkServersAssumption DEF ProcInv, ServerAt, Procs
<1>3. /\ pc' = [pc EXCEPT ![Server] = "parent", ![c] = "child"]
      /\ fds' = [fds EXCEPT ![c] = fds[Server]]
      /\ conn' = [conn EXCEPT ![c] = c]
      /\ UNCHANGED <<backlog, failures, program, client>>
  BY <1>1 DEF Fork
<1>4. /\ pc \in [Procs -> ServerPlaces \cup ChildPlaces]
      /\ fds \in [Procs -> SUBSET Things]
      /\ conn \in [Procs -> Procs]
      /\ backlog \in Seq(Clients)
  BY DEF ProcInv, Shapes
<1> HIDE DEF c
<1>5. /\ pc'[Server] = "parent" /\ pc'[c] = "child"
      /\ fds'[c] = fds[Server] /\ conn'[c] = c
      /\ \A q \in Procs : q # c => fds'[q] = fds[q] /\ conn'[q] = conn[q]
      /\ \A q \in Procs : q # c /\ q # Server => pc'[q] = pc[q]
  BY <1>2, <1>3, <1>4
<1>6. Shapes'
  <2>1. pc' \in [Procs -> ServerPlaces \cup ChildPlaces]
    BY <1>3, <1>4 DEF ServerPlaces, ChildPlaces
  <2>2. fds' \in [Procs -> SUBSET Things] /\ conn' \in [Procs -> Procs]
    BY <1>2, <1>3, <1>4
  <2> QED BY <1>3, <2>1, <2>2 DEF ProcInv, Shapes
<1>7. ServerAt'
  BY <1>2, <1>5 DEF ServerAt, ServerPlaces, c
<1>8. ChildrenAt'
  <2>1. \A d \in Clients : d # Server /\ d \in Procs
    BY ForkServersAssumption DEF Procs
  <2>2. \A d \in Clients : d # c =>
            pc'[d] = pc[d] /\ fds'[d] = fds[d] /\ conn'[d] = conn[d] /\ program' = program
    BY <1>3, <1>5, <2>1
  <2> QED BY <1>5, <2>2 DEF ProcInv, ChildrenAt, ChildPlaces
<1>9. NothingLeftOpen'
  BY <1>2, <1>5 DEF ProcInv, NothingLeftOpen, Running
<1>10. \A d \in Clients : Untouched(d) => Untouched(d)'
  <2> SUFFICES ASSUME NEW d \in Clients, Untouched(d) PROVE Untouched(d)'
    OBVIOUS
  <2>1. d # c /\ d # Server /\ \A q \in Procs : d \notin fds[q]
    BY <1>2, ForkServersAssumption DEF Untouched
  <2> QED BY <1>2, <1>5, <2>1 DEF Untouched
<1>11. BacklogIsNew'
  BY <1>3, <1>4, <1>10, ElementOfSeq DEF ProcInv, BacklogIsNew
<1>12. OwnOnly'
  BY <1>2, <1>3, <1>5 DEF ProcInv, OwnOnly, c
<1>13. OneConversation'
  <2>1. program = "serial" => \A d \in Clients : ~Running(d)
    BY <1>1 DEF ProcInv, OneConversation, Fork
  <2>2. \A d \in Clients : d # c => pc'[d] = pc[d]
    BY <1>5, ForkServersAssumption DEF Procs
  <2>3. pc'[Server] = "parent" /\ conn'[Server] = c /\ program' = program
    BY <1>2, <1>3, <1>5 DEF c
  <2> QED BY <2>1, <2>2, <2>3 DEF OneConversation, Running
<1> QED
  BY <1>6, <1>7, <1>8, <1>9, <1>11, <1>12, <1>13 DEF ProcInv

LEMMA ForkFailsKeepsInv ==
    ASSUME ProcInv, NEW p \in Procs, ForkFails(p), UNCHANGED <<program, client>>
    PROVE  ProcInv'
<1>1. p = Server /\ pc[Server] = "accepted"
  BY AcceptorIsServer DEF ForkFails
<1>2. Server \in Procs /\ Server \notin Clients /\ Clients \subseteq Procs
  BY ForkServersAssumption DEF Procs
<1>3. /\ pc' = [pc EXCEPT ![Server] = "parent"]
      /\ failures < MaxForkFailures /\ failures' = failures + 1
      /\ UNCHANGED <<fds, conn, backlog, program, client>>
  BY <1>1 DEF ForkFails
<1>4. pc \in [Procs -> ServerPlaces \cup ChildPlaces] /\ backlog \in Seq(Clients)
  BY DEF ProcInv, Shapes
<1>5. pc'[Server] = "parent" /\ \A c \in Clients : pc'[c] = pc[c]
  BY <1>2, <1>3, <1>4
<1>6. Shapes'
  <2>1. pc' \in [Procs -> ServerPlaces \cup ChildPlaces]
    BY <1>3, <1>4 DEF ServerPlaces
  <2>2. failures' \in 0..MaxForkFailures
    BY <1>3, ForkServersAssumption DEF ProcInv, Shapes
  <2> QED BY <1>3, <2>1, <2>2 DEF ProcInv, Shapes
<1>7. ServerAt' /\ ChildrenAt'
  BY <1>1, <1>2, <1>3, <1>5 DEF ProcInv, ServerAt, ChildrenAt, ServerPlaces
<1>8. NothingLeftOpen'
  BY <1>1, <1>3, <1>5 DEF ProcInv, NothingLeftOpen, Running, Procs
<1>9. \A d \in Clients : Untouched(d) => Untouched(d)'
  BY <1>3, <1>5 DEF Untouched
<1>10. BacklogIsNew'
  BY <1>3, <1>4, <1>9, ElementOfSeq DEF ProcInv, BacklogIsNew
<1>11. OwnOnly' /\ OneConversation'
  BY <1>1, <1>3, <1>5 DEF ProcInv, OwnOnly, OneConversation, Running
<1> QED
  BY <1>6, <1>7, <1>8, <1>10, <1>11 DEF ProcInv

(* Steps that only close descriptors and that may reset the backlog.       *)
LEMMA ClosingKeepsNew ==
    ASSUME ProcInv, backlog' \in {backlog, << >>}, UNCHANGED client,
           \A q \in Procs : fds'[q] \subseteq fds[q],
           \A c \in Clients : pc[c] = "none" => pc'[c] = "none"
    PROVE  /\ backlog' \in Seq(Clients) /\ Len(backlog') <= Backlog
           /\ BacklogIsNew'
<1>1. backlog \in Seq(Clients) /\ Len(backlog) <= Backlog /\ Backlog \in Nat
  BY ForkServersAssumption DEF ProcInv, Shapes
<1>2. \A d \in Clients : Untouched(d) => Untouched(d)'
  BY DEF Untouched
<1>3. CASE backlog' = backlog
  BY <1>1, <1>2, <1>3, ElementOfSeq DEF ProcInv, BacklogIsNew
<1>4. CASE backlog' = << >>
  <2>1. backlog' \in Seq(Clients) /\ Len(backlog') = 0
    BY <1>4, EmptySeq
  <2> QED BY <1>1, <1>2, <2>1 DEF ProcInv, BacklogIsNew
<1> QED BY <1>3, <1>4

LEMMA ClosesResult ==
    ASSUME Shapes, NEW p \in Procs, NEW S, NEW place \in ServerPlaces \cup ChildPlaces,
           Closes(p, S, place)
    PROVE  /\ pc' \in [Procs -> ServerPlaces \cup ChildPlaces]
           /\ fds' \in [Procs -> SUBSET Things]
           /\ pc'[p] = place /\ fds'[p] = fds[p] \ S
           /\ \A q \in Procs \ {p} : pc'[q] = pc[q] /\ fds'[q] = fds[q]
           /\ conn' = conn /\ failures' = failures
           /\ backlog' \in {backlog, << >>}
  BY DEF Shapes, Closes

(* What such a step of the server, or of a child, may be. *)
ServerMay(S, place) ==
    /\ place \in {"accept", "wait", "operator", "ended"} /\ pc[Server] # "ended"
    /\ place = "ended" => S = fds[Server]
    /\ place = "operator" => program \in {"serial", "E1"}
    /\ place = "accept" \/ (place = "operator" /\ program = "E1") =>
          \/ program \in Keepers \/ conn[Server] \in S
          \/ program = "E1" /\ pc[Server] = "operator"
    /\ program = "serial" /\ pc[Server] = "parent" => ~Running(conn[Server])

ChildMay(c, S, place) ==
    /\ place \in {"accept", "operator", "read", "parent", "welcomed", "ended"}
    /\ pc[c] \notin {"none", "ended"}
    /\ place = "ended" => S = fds[c]
    /\ place = "parent" => program = "talk"
    /\ place = "operator" => program \in {"talk", "time"}
    /\ "listen" \in fds[c] \ S =>
          (place = "read" /\ program = "multi") \/ (place = "welcomed" /\ program = "dice")
    /\ program = "serial" => place = "ended"

LEMMA ServerCloses ==
    ASSUME ProcInv, Moves(Server) \/ Ends(Server)
    PROVE  \E S, place : Closes(Server, S, place) /\ ServerMay(S, place)
<1>1. /\ pc[Server] \in ServerPlaces
      /\ pc[Server] = "operator" => program \in {"serial", "E1"}
  BY DEF ProcInv, ServerAt
<1>2. CASE Ends(Server)
  BY <1>1, <1>2 DEF Ends, Exit, ServerMay
<1>3. CASE Moves(Server)
  BY <1>1, <1>3 DEF Moves, Goto, ServerMay, ServerPlaces, Keepers
<1> QED BY <1>2, <1>3

LEMMA ChildCloses ==
    ASSUME ProcInv, NEW c \in Clients, Moves(c) \/ Ends(c)
    PROVE  \E S, place : Closes(c, S, place) /\ ChildMay(c, S, place)
<1>1. /\ pc[c] \in ChildPlaces
      /\ pc[c] = "parent" => program = "talk"
      /\ pc[c] = "operator" => program \in {"talk", "time"}
      /\ "listen" \in fds[c] => \/ pc[c] = "child"
                                \/ pc[c] = "read" /\ program = "multi"
                                \/ pc[c] = "welcomed" /\ program = "dice"
  BY DEF ProcInv, ChildrenAt
<1>2. CASE Ends(c)
  BY <1>1, <1>2 DEF Ends, Exit, ChildMay
<1>3. CASE Moves(c)
  BY <1>1, <1>3 DEF Moves, Goto, ChildMay, ChildPlaces
<1> QED BY <1>2, <1>3

LEMMA ServerClosesKeepsInv ==
    ASSUME ProcInv, NEW S, NEW place, Closes(Server, S, place), ServerMay(S, place),
           UNCHANGED <<program, client>>
    PROVE  ProcInv'
<1>1. Server \in Procs /\ Clients \subseteq Procs /\ Server \notin Clients
  BY ForkServersAssumption DEF Procs
<1>2. place \in ServerPlaces
  BY DEF ServerMay, ServerPlaces
<1>3. /\ pc' \in [Procs -> ServerPlaces \cup ChildPlaces]
      /\ fds' \in [Procs -> SUBSET Things]
      /\ pc'[Server] = place /\ fds'[Server] = fds[Server] \ S
      /\ \A q \in Clients : pc'[q] = pc[q] /\ fds'[q] = fds[q]
      /\ conn' = conn /\ failures' = failures
      /\ backlog' \in {backlog, << >>}
      /\ program' = program /\ client' = client
  BY <1>1, <1>2, ClosesResult DEF ProcInv
<1>4. \A q \in Procs : q = Server \/ q \in Clients
  BY DEF Procs
<1>5. BacklogIsNew' /\ backlog' \in Seq(Clients) /\ Len(backlog') <= Backlog
  BY <1>3, <1>4, ClosingKeepsNew
<1>6. Shapes'
  BY <1>3, <1>5 DEF ProcInv, Shapes
<1>7. ServerAt'
  BY <1>2, <1>3 DEF ServerMay, ServerAt
<1>8. ChildrenAt'
  BY <1>3 DEF ProcInv, ChildrenAt
<1>9. NothingLeftOpen'
  BY <1>1, <1>3, <1>4 DEF ProcInv, NothingLeftOpen, Running, ServerMay
<1>10. ASSUME program \notin Keepers PROVE OwnOnly'
  <2>1. \A q \in Procs : fds'[q] \subseteq fds[q] /\ conn'[q] = conn[q]
    BY <1>3, <1>4
  <2>2. /\ \A q \in Procs : Clients \cap fds[q] \subseteq {conn[q]}
        /\ program = "E1" /\ pc[Server] = "operator" => Clients \cap fds[Server] = {}
    BY <1>10 DEF ProcInv, OwnOnly
  <2>3. \A q \in Procs : Clients \cap fds'[q] \subseteq {conn'[q]}
    BY <2>1, <2>2
  <2>4. place = "accept" \/ (program = "E1" /\ place = "operator")
            => Clients \cap fds'[Server] = {}
    BY <1>1, <1>3, <1>10, <2>2 DEF ServerMay
  <2> QED BY <1>3, <2>3, <2>4 DEF OwnOnly
<1>11. OneConversation'
  BY <1>1, <1>3 DEF ProcInv, OneConversation, Running, ServerMay
<1> QED
  BY <1>3, <1>5, <1>6, <1>7, <1>8, <1>9, <1>10, <1>11 DEF ProcInv, OwnOnly

LEMMA ChildClosesKeepsInv ==
    ASSUME ProcInv, NEW c \in Clients, NEW S, NEW place,
           Closes(c, S, place), ChildMay(c, S, place), UNCHANGED <<program, client>>
    PROVE  ProcInv'
<1>1. Server \in Procs /\ Clients \subseteq Procs /\ Server # c /\ c \in Procs
  BY ForkServersAssumption DEF Procs
<1>2. place \in ChildPlaces /\ place # "none"
  BY DEF ChildMay, ChildPlaces
<1>3. /\ pc' \in [Procs -> ServerPlaces \cup ChildPlaces]
      /\ fds' \in [Procs -> SUBSET Things]
      /\ pc'[c] = place /\ fds'[c] = fds[c] \ S
      /\ \A q \in Procs \ {c} : pc'[q] = pc[q] /\ fds'[q] = fds[q]
      /\ conn' = conn /\ failures' = failures
      /\ backlog' \in {backlog, << >>}
      /\ program' = program /\ client' = client
  BY <1>1, <1>2, ClosesResult DEF ProcInv
<1>4. \A q \in Procs : fds'[q] \subseteq fds[q]
  BY <1>3
<1>5. BacklogIsNew' /\ backlog' \in Seq(Clients) /\ Len(backlog') <= Backlog
  BY <1>1, <1>3, <1>4, ClosingKeepsNew DEF ChildMay
<1>6. Shapes'
  BY <1>3, <1>5 DEF ProcInv, Shapes
<1>7. ServerAt'
  BY <1>1, <1>3 DEF ProcInv, ServerAt, ChildMay
<1>8. ChildrenAt'
  BY <1>1, <1>2, <1>3 DEF ProcInv, ChildrenAt, ChildMay
<1>9. NothingLeftOpen'
  BY <1>3 DEF ProcInv, NothingLeftOpen, Running, ChildMay
<1>10. OwnOnly'
  <2>1. pc'[Server] = pc[Server] /\ fds'[Server] = fds[Server] /\ program' = program
    BY <1>1, <1>3
  <2>2. \A q \in Procs : conn'[q] = conn[q]
    BY <1>3
  <2> QED BY <1>4, <2>1, <2>2 DEF ProcInv, OwnOnly
<1>11. OneConversation'
  BY <1>1, <1>3 DEF ProcInv, OneConversation, Running, ChildMay
<1> QED
  BY <1>5, <1>6, <1>7, <1>8, <1>9, <1>10, <1>11 DEF ProcInv

LEMMA ProcessStepKeepsInv ==
    ASSUME ProcInv, NEW p \in Procs, ProcessStep(p), UNCHANGED <<program, client>>
    PROVE  ProcInv'
<1>1. CASE Accept(p)
  BY <1>1, AcceptKeepsInv
<1>2. CASE Fork(p)
  BY <1>2, ForkKeepsInv
<1>3. CASE ForkFails(p)
  BY <1>3, ForkFailsKeepsInv
<1>4. CASE p = Server /\ (Moves(p) \/ Ends(p))
  BY <1>4, ServerCloses, ServerClosesKeepsInv
<1>5. CASE p \in Clients /\ (Moves(p) \/ Ends(p))
  BY <1>5, ChildCloses, ChildClosesKeepsInv
<1>6. CASE UNCHANGED procVars
  BY <1>6 DEF procVars, ProcInv, Shapes, ServerAt, ChildrenAt, NothingLeftOpen,
              BacklogIsNew, OwnOnly, OneConversation, Untouched, Running
<1> QED
  BY <1>1, <1>2, <1>3, <1>4, <1>5, <1>6 DEF ProcessStep, Procs

-----------------------------------------------------------------------------
(* A client connects, or does something that the processes do not see.     *)
Arrives(c) ==
    /\ client[c] = "out" /\ Len(backlog) < Backlog
    /\ backlog' = Append(backlog, c)
    /\ \E place \in {"in", "waits"} : client' = [client EXCEPT ![c] = place]

Turns(c) ==
    /\ UNCHANGED backlog
    /\ \E place \in {"in", "waits", "gone"} : client' = [client EXCEPT ![c] = place]

ClientStep(c) ==
    /\ Arrives(c) \/ Turns(c)
    /\ UNCHANGED <<program, pc, fds, conn, failures>>

LEMMA ClientTakesStep ==
    ASSUME NEW c \in Clients, Client(c) \/ Answered(c)
    PROVE  ClientStep(c)
<1>1. ASSUME NEW place \in {"in", "waits"}, Connects(c, place)
      PROVE  Arrives(c) \/ Turns(c)
  BY <1>1 DEF Connects, Connect, Arrives, Turns
<1>2. ASSUME NEW line, NEW place \in {"in", "waits", "gone"}, Types(c, line, place)
      PROVE  Turns(c)
  BY <1>2 DEF Types, Writes, Turns
<1>3. CASE HandClient(c) \/ MultiClient(c) \/ UsernameClient(c) \/ DiceClient(c)
  BY <1>1, <1>2, <1>3 DEF HandClient, MultiClient, UsernameClient, DiceClient,
     ClientStep, Client, Answered
<1>4. CASE TimeClient(c) \/ SerialClient(c) \/ E1Client(c) \/ ClockClient(c) \/ Test01Client(c)
  BY <1>1, <1>2, <1>4 DEF TimeClient, SerialClient, E1Client, ClockClient, Test01Client,
     ClientStep, Client, Answered
<1>5. CASE Quit(c) \/ Receive(c)
  BY <1>5 DEF Quit, Receive, Receives, Turns, ClientStep, Client, Answered
<1> QED
  BY <1>3, <1>4, <1>5 DEF Client, Answered

LEMMA ClientStepKeepsInv ==
    ASSUME ProcInv, NEW c \in Clients, ClientStep(c)
    PROVE  ProcInv'
<1>1. /\ backlog \in Seq(Clients) /\ Len(backlog) \in Nat /\ Len(backlog) <= Backlog
      /\ client \in [Clients -> {"out", "in", "waits", "gone"}]
      /\ Backlog \in Nat
  BY LenProperties, ForkServersAssumption DEF ProcInv, Shapes
<1>2. UNCHANGED <<program, pc, fds, conn, failures>>
  BY DEF ClientStep
<1>3. \A d : Untouched(d)' <=> Untouched(d)
  BY <1>2 DEF Untouched
<1>4. ServerAt' /\ ChildrenAt' /\ NothingLeftOpen' /\ OwnOnly' /\ OneConversation'
  BY <1>2 DEF ProcInv, ServerAt, ChildrenAt, NothingLeftOpen, OwnOnly, OneConversation,
              Running
<1>5. CASE Turns(c)
  <2>1. PICK place \in {"in", "waits", "gone"} : client' = [client EXCEPT ![c] = place]
    BY <1>5 DEF Turns
  <2>2. client' \in [Clients -> {"out", "in", "waits", "gone"}]
    BY <1>1, <2>1
  <2>3. \A d \in Clients : client'[d] = "out" => client[d] = "out"
    BY <1>1, <2>1
  <2>4. backlog' = backlog /\ \A i \in 1..Len(backlog) : backlog[i] \in Clients
    BY <1>1, <1>5, ElementOfSeq DEF Turns
  <2>5. BacklogIsNew'
    BY <1>3, <2>3, <2>4 DEF ProcInv, BacklogIsNew
  <2> QED BY <1>2, <1>4, <2>2, <2>4, <2>5 DEF ProcInv, Shapes
<1>6. CASE Arrives(c)
  <2>1. /\ client[c] = "out" /\ Len(backlog) < Backlog
        /\ backlog' = Append(backlog, c)
        /\ client' \in [Clients -> {"out", "in", "waits", "gone"}]
        /\ \A d \in Clients : client'[d] = "out" => d # c /\ client[d] = "out"
    BY <1>1, <1>6 DEF Arrives
  <2>2. /\ backlog' \in Seq(Clients)
        /\ Len(backlog') = Len(backlog) + 1
        /\ \A i \in 1..Len(backlog) : backlog'[i] = backlog[i]
        /\ backlog'[Len(backlog) + 1] = c
    BY <1>1, <2>1, AppendProperties
  <2>3. Untouched(c) /\ \A i \in 1..Len(backlog) : backlog[i] # c /\ backlog[i] \in Clients
    BY <1>1, <2>1, ElementOfSeq DEF ProcInv, BacklogIsNew
  <2>4. ASSUME NEW i \in 1..Len(backlog') PROVE (Untouched(backlog[i]) /\ client[backlog[i]] # "out")'
    <3>1. PICK d \in Clients : d = backlog'[i] /\ Untouched(d) /\ (d = c \/ client[d] # "out")
      BY <1>1, <2>2, <2>3 DEF ProcInv, BacklogIsNew
    <3>2. Untouched(d)' /\ client'[d] # "out"
      BY <1>3, <2>1, <3>1
    <3> QED BY <3>1, <3>2 DEF Untouched
  <2>5. \A i, j \in 1..Len(backlog') : backlog'[i] = backlog'[j] => i = j
    BY <1>1, <2>2, <2>3 DEF ProcInv, BacklogIsNew
  <2>6. BacklogIsNew'
    BY <1>3, <2>1, <2>4, <2>5 DEF ProcInv, BacklogIsNew
  <2>7. Len(backlog') <= Backlog
    BY <1>1, <2>1, <2>2
  <2> QED BY <1>2, <1>4, <2>1, <2>2, <2>6, <2>7 DEF ProcInv, Shapes
<1> QED
  BY <1>5, <1>6 DEF ClientStep

LEMMA InterruptKeepsInv ==
    ASSUME ProcInv, Interrupt
    PROVE  ProcInv'
<1>1. /\ fds' = [p \in Procs |-> fds[p] \ {"listen"}] /\ backlog' = << >>
      /\ UNCHANGED <<program, pc, conn, failures, client>>
  BY DEF Interrupt, clientVars
<1>2. \A p \in Procs : fds'[p] = fds[p] \ {"listen"}
  BY <1>1
<1>3. Server \in Procs /\ Clients \subseteq Procs /\ \A c \in Clients : c # "listen"
  BY ForkServersAssumption DEF Procs
<1>4. BacklogIsNew' /\ backlog' \in Seq(Clients) /\ Len(backlog') <= Backlog
  BY <1>1, <1>2, ClosingKeepsNew
<1>5. fds' \in [Procs -> SUBSET Things]
  BY <1>1 DEF ProcInv, Shapes
<1>6. Shapes' /\ ServerAt' /\ ChildrenAt' /\ NothingLeftOpen' /\ OneConversation'
  BY <1>1, <1>2, <1>3, <1>4, <1>5 DEF ProcInv, Shapes, ServerAt, ChildrenAt,
     NothingLeftOpen, OneConversation, Running
<1>7. OwnOnly'
  BY <1>1, <1>2, <1>3 DEF ProcInv, OwnOnly
<1> QED
  BY <1>4, <1>6, <1>7 DEF ProcInv

LEMMA InitProcInv == Init => ProcInv
<1> SUFFICES ASSUME Init PROVE ProcInv
  OBVIOUS
<1>1. Server \in Procs /\ Clients \subseteq Procs /\ Server \notin Clients
  BY ForkServersAssumption DEF Procs
<1>2. \E place \in {"accept", "ended"}, d \in {{"listen"}, {"unbound"}, {}} :
          At(place, d) /\ (place = "ended" => d = {})
  BY DEF Init, ModularInit, TcpStateInit, CapperInit, MultiInit, TalkInit, UsernameInit,
     DiceInit, TimeInit, SerialInit, E1Init, ClockInit, Test01Init,
     BindChecked, BindUnchecked, Bound
<1>3. PICK place \in {"accept", "ended"}, d \in {{"listen"}, {"unbound"}, {}} :
          At(place, d) /\ (place = "ended" => d = {})
  BY <1>2
<1>4. /\ pc[Server] = place /\ fds[Server] = d
      /\ \A c \in Clients : pc[c] = "none" /\ fds[c] = {} /\ client[c] = "out"
      /\ \A p \in Procs : Clients \cap fds[p] = {}
  BY <1>1, <1>3, ForkServersAssumption DEF At, Init
<1>5. backlog \in Seq(Clients) /\ Len(backlog) = 0 /\ Backlog \in Nat /\ MaxForkFailures \in Nat
  BY EmptySeq, ForkServersAssumption DEF Init
<1>6. Shapes
  <2>1. pc \in [Procs -> ServerPlaces \cup ChildPlaces] /\ fds \in [Procs -> SUBSET Things]
    BY <1>3 DEF At, ServerPlaces, ChildPlaces, Things
  <2> QED BY <1>5, <2>1 DEF Init, Shapes
<1>7. ServerAt /\ ChildrenAt
  BY <1>4 DEF ServerAt, ServerPlaces, ChildrenAt, ChildPlaces
<1>8. NothingLeftOpen
  BY <1>1, <1>3, <1>4 DEF NothingLeftOpen, Running, Procs
<1>9. BacklogIsNew /\ OwnOnly /\ OneConversation
  BY <1>1, <1>4, <1>5 DEF BacklogIsNew, Untouched, OwnOnly, OneConversation, Running
<1> QED
  BY <1>6, <1>7, <1>8, <1>9 DEF ProcInv

LEMMA NextProcInv == ProcInv /\ [Next]_vars => ProcInv'
<1> SUFFICES ASSUME ProcInv, [Next]_vars PROVE ProcInv'
  OBVIOUS
<1>1. ASSUME NEW p \in Procs, Runs(p) \/ Operator(p) PROVE ProcInv'
  <2>1. ProcessStep(p) /\ UNCHANGED <<program, client>>
    BY <1>1, LoopStep, HandlerStep, OperatorStep DEF Runs, Operator
  <2> QED BY <2>1, ProcessStepKeepsInv
<1>2. ASSUME NEW c \in Clients, Client(c) \/ Answered(c) PROVE ProcInv'
  BY <1>2, ClientTakesStep, ClientStepKeepsInv
<1>3. CASE Interrupt
  BY <1>3, InterruptKeepsInv
<1>4. CASE UNCHANGED vars
  BY <1>4 DEF vars, procVars, clientVars, ProcInv, Shapes, ServerAt, ChildrenAt,
     NothingLeftOpen, BacklogIsNew, OwnOnly, OneConversation, Untouched, Running
<1> QED
  BY <1>1, <1>2, <1>3, <1>4 DEF Next

(* The inductive invariant of the twelve servers. *)
THEOREM ProcessesSound == Spec => []ProcInv
<1> QED BY InitProcInv, NextProcInv, PTL DEF Spec

(* No process of a server that closes what it hands over holds the         *)
(* connection of another's client, and the server none while it waits in   *)
(* accept().                                                               *)
THEOREM NoStrangersHold == Spec => []NoStrangers
<1>1. ProcInv => NoStrangers
  BY DEF ProcInv, OwnOnly, NoStrangers
<1> QED BY <1>1, ProcessesSound, PTL

(* No child ever accepts, also where it comes back to the loop: it has     *)
(* closed the listening socket before.                                     *)
THEOREM ServerAlone == Spec => []OnlyServerAccepts
<1>1. ProcInv => OnlyServerAccepts
  BY DEF ProcInv, ChildrenAt, ChildPlaces, OnlyServerAccepts
<1> QED BY <1>1, ProcessesSound, PTL

-----------------------------------------------------------------------------
(* The servers that close what they hand over implement Reception.         *)

DeskStep == Desk!Next \/ UNCHANGED Desk!vars

LEMMA AcceptIsCall ==
    ASSUME ProcInv, NEW p \in Procs, Accept(p), UNCHANGED <<program, client>>,
           program \notin Keepers
    PROVE  Desk!Call
<1>1. p = Server
  BY AcceptorIsServer DEF Accept
<1>2. /\ pc[Server] = "accept" /\ backlog # << >> /\ backlog' = Tail(backlog)
      /\ fds' = [fds EXCEPT ![Server] = @ \cup {Head(backlog)}]
      /\ pc' = [pc EXCEPT ![Server] = "accepted"]
  BY <1>1 DEF Accept
<1>3. Head(backlog) \in Clients
  BY <1>2 DEF ProcInv, Shapes
<1>4. /\ Server \in Procs /\ Server \notin Clients /\ Clients \subseteq Procs
      /\ fds \in [Procs -> SUBSET Things] /\ pc \in [Procs -> ServerPlaces \cup ChildPlaces]
  BY ForkServersAssumption DEF ProcInv, Shapes, Procs
<1>5. Clients \cap fds[Server] = {} /\ Clients \cap fds'[Server] = {Head(backlog)}
  BY <1>2, <1>3, <1>4 DEF ProcInv, OwnOnly
<1>6. \A c \in Clients : pc'[c] = pc[c] /\ fds'[c] = fds[c]
  BY <1>2, <1>4
<1> QED BY <1>2, <1>5, <1>6 DEF Desk!Call

LEMMA ForkIsAssign ==
    ASSUME ProcInv, NEW p \in Procs, Fork(p), UNCHANGED <<program, client>>
    PROVE  Desk!Assign
<1> DEFINE c == conn[Server]
<1>1. p = Server /\ pc[Server] = "accepted"
  BY AcceptorIsServer DEF Fork
<1>2. /\ c \in Clients /\ c \in fds[Server] /\ pc[c] = "none"
      /\ c # Server /\ Server \in Procs /\ Clients \subseteq Procs
      /\ Server \notin Clients
  BY <1>1, ForkServersAssumption DEF ProcInv, ServerAt, Procs
<1>3. /\ pc' = [pc EXCEPT ![Server] = "parent", ![c] = "child"]
      /\ fds' = [fds EXCEPT ![c] = fds[Server]]
      /\ backlog' = backlog
  BY <1>1 DEF Fork
<1>4. fds \in [Procs -> SUBSET Things] /\ pc \in [Procs -> ServerPlaces \cup ChildPlaces]
  BY DEF ProcInv, Shapes
<1> HIDE DEF c
<1>5. /\ pc'[c] = "child" /\ c \in fds'[c] /\ fds'[Server] = fds[Server]
      /\ \A d \in Clients \ {c} : pc'[d] = pc[d] /\ fds'[d] = fds[d]
  BY <1>2, <1>3, <1>4
<1>6. {d \in Clients : pc'[d] # "none"} = {d \in Clients : pc[d] # "none"} \cup {c}
  BY <1>2, <1>5
<1>7. {d \in Clients : d \in fds'[d]} = {d \in Clients : d \in fds[d]} \cup {c}
  BY <1>2, <1>5
<1> QED BY <1>2, <1>3, <1>5, <1>6, <1>7 DEF Desk!Assign

LEMMA ServerClosesAtDesk ==
    ASSUME ProcInv, NEW S, NEW place, Closes(Server, S, place), ServerMay(S, place),
           UNCHANGED <<program, client>>, program \notin Keepers
    PROVE  DeskStep
<1>1. Server \in Procs /\ Clients \subseteq Procs /\ Server \notin Clients
  BY ForkServersAssumption DEF Procs
<1>2. place \in ServerPlaces
  BY DEF ServerMay, ServerPlaces
<1>3. /\ fds'[Server] = fds[Server] \ S
      /\ \A q \in Clients : pc'[q] = pc[q] /\ fds'[q] = fds[q]
      /\ backlog' \in {backlog, << >>}
  BY <1>1, <1>2, ClosesResult DEF ProcInv
<1>4. \/ Clients \cap fds'[Server] = Clients \cap fds[Server]
      \/ Clients \cap fds[Server] # {} /\ Clients \cap fds'[Server] = {}
  BY <1>1, <1>3 DEF ProcInv, OwnOnly
<1> QED
  BY <1>3, <1>4 DEF DeskStep, Desk!Next, Desk!Dismiss, Desk!MayClose, Desk!Close, Desk!vars

LEMMA ChildClosesAtDesk ==
    ASSUME ProcInv, NEW c \in Clients, NEW S, NEW place,
           Closes(c, S, place), ChildMay(c, S, place), UNCHANGED <<program, client>>
    PROVE  DeskStep
<1>1. Server \in Procs /\ Clients \subseteq Procs /\ Server # c /\ c \in Procs
  BY ForkServersAssumption DEF Procs
<1>2. place \in ChildPlaces /\ place # "none" /\ pc[c] # "none"
  BY DEF ChildMay, ChildPlaces
<1>3. /\ pc'[c] = place /\ fds'[c] = fds[c] \ S
      /\ \A q \in Procs \ {c} : pc'[q] = pc[q] /\ fds'[q] = fds[q]
      /\ backlog' \in {backlog, << >>}
  BY <1>1, <1>2, ClosesResult DEF ProcInv
<1>4. /\ {d \in Clients : pc'[d] # "none"} = {d \in Clients : pc[d] # "none"}
      /\ fds'[Server] = fds[Server]
  BY <1>1, <1>2, <1>3
<1>5. \/ {d \in Clients : d \in fds'[d]} = {d \in Clients : d \in fds[d]}
      \/ /\ {d \in Clients : d \in fds'[d]} = {d \in Clients : d \in fds[d]} \ {c}
         /\ c \in fds[c]
  BY <1>1, <1>3
<1> QED
  BY <1>3, <1>4, <1>5
     DEF DeskStep, Desk!Next, Desk!Finish, Desk!MayClose, Desk!Close, Desk!vars

LEMMA ProcessStepAtDesk ==
    ASSUME ProcInv, NEW p \in Procs, ProcessStep(p), UNCHANGED <<program, client>>,
           program \notin Keepers
    PROVE  DeskStep
<1>1. CASE Accept(p)
  BY <1>1, AcceptIsCall DEF DeskStep, Desk!Next
<1>2. CASE Fork(p)
  BY <1>2, ForkIsAssign DEF DeskStep, Desk!Next
<1>3. CASE ForkFails(p)
  <2>1. p = Server
    BY <1>3, AcceptorIsServer DEF ForkFails
  <2>2. /\ UNCHANGED <<fds, backlog, client>>
        /\ \A c \in Clients : pc'[c] = pc[c]
    BY <1>3, <2>1, ForkServersAssumption DEF ForkFails, ProcInv, Shapes, Procs
  <2> QED BY <2>2 DEF DeskStep, Desk!vars
<1>4. CASE p = Server /\ (Moves(p) \/ Ends(p))
  BY <1>4, ServerCloses, ServerClosesAtDesk
<1>5. CASE p \in Clients /\ (Moves(p) \/ Ends(p))
  BY <1>5, ChildCloses, ChildClosesAtDesk
<1>6. CASE UNCHANGED procVars
  BY <1>6 DEF procVars, DeskStep, Desk!vars
<1> QED
  BY <1>1, <1>2, <1>3, <1>4, <1>5, <1>6 DEF ProcessStep, Procs

LEMMA ClientStepAtDesk ==
    ASSUME ProcInv, NEW c \in Clients, ClientStep(c)
    PROVE  DeskStep
<1>1. client \in [Clients -> {"out", "in", "waits", "gone"}]
  BY DEF ProcInv, Shapes
<1>2. UNCHANGED <<pc, fds>>
  BY DEF ClientStep
<1>3. PICK place \in {"in", "waits", "gone"} : client' = [client EXCEPT ![c] = place]
  BY DEF ClientStep, Arrives, Turns
<1>4. {d \in Clients : client'[d] # "out"} = {d \in Clients : client[d] # "out"} \cup {c}
  BY <1>1, <1>3
<1>5. \/ backlog' = backlog
      \/ client[c] = "out" /\ backlog' = Append(backlog, c)
  BY DEF ClientStep, Arrives, Turns
<1>6. CASE client[c] = "out"
  BY <1>2, <1>4, <1>5, <1>6 DEF DeskStep, Desk!Next, Desk!Arrive
<1>7. CASE client[c] # "out"
  <2>1. {d \in Clients : client'[d] # "out"} = {d \in Clients : client[d] # "out"}
    BY <1>4, <1>7
  <2> QED BY <1>2, <1>5, <1>7, <2>1 DEF DeskStep, Desk!vars
<1> QED BY <1>6, <1>7

(* Clients are accepted in the order of their connections, one after the   *)
(* other, and each gets one process, forked by the server itself, whichever *)
(* fork() fails and in whatever order processes close and end.             *)
THEOREM ImplementsReception == Spec => ServesInTurn
<1>1. Init => Desk!Init
  <2> SUFFICES ASSUME Init PROVE Desk!Init
    OBVIOUS
  <2>1. \E place, d : At(place, d) /\ d \in {{"listen"}, {"unbound"}, {}}
    BY DEF Init, ModularInit, TcpStateInit, CapperInit, MultiInit, TalkInit, UsernameInit,
       DiceInit, TimeInit, SerialInit, E1Init, ClockInit, Test01Init,
       BindChecked, BindUnchecked, Bound
  <2>2. /\ \A c \in Clients : pc[c] = "none" /\ c \notin fds[c] /\ client[c] = "out"
        /\ Clients \cap fds[Server] = {} /\ backlog = << >>
    BY <2>1, ForkServersAssumption DEF At, Init, Procs
  <2> QED BY <2>2 DEF Desk!Init
<1>2. ProcInv /\ [Next]_vars => [program \notin Keepers => Desk!Next]_(Desk!vars)
  <2> SUFFICES ASSUME ProcInv, [Next]_vars, program \notin Keepers PROVE DeskStep
    BY DEF DeskStep
  <2>1. ASSUME NEW p \in Procs, Runs(p) \/ Operator(p) PROVE DeskStep
    <3>1. ProcessStep(p) /\ UNCHANGED <<program, client>>
      BY <2>1, LoopStep, HandlerStep, OperatorStep DEF Runs, Operator
    <3> QED BY <3>1, ProcessStepAtDesk
  <2>2. ASSUME NEW c \in Clients, Client(c) \/ Answered(c) PROVE DeskStep
    BY <2>2, ClientTakesStep, ClientStepAtDesk
  <2>3. CASE Interrupt
    <3>1. /\ UNCHANGED <<pc, client>> /\ backlog' = << >>
          /\ \A p \in Procs : fds'[p] = fds[p] \ {"listen"}
      BY <2>3 DEF Interrupt, clientVars
    <3>2. /\ Clients \cap fds'[Server] = Clients \cap fds[Server]
          /\ {c \in Clients : c \in fds'[c]} = {c \in Clients : c \in fds[c]}
      BY <3>1, ForkServersAssumption DEF Procs
    <3> QED BY <3>1, <3>2 DEF DeskStep, Desk!Next, Desk!Close
  <2>4. CASE UNCHANGED vars
    BY <2>4 DEF vars, procVars, clientVars, DeskStep, Desk!vars
  <2> QED BY <2>1, <2>2, <2>3, <2>4 DEF Next
<1> QED BY <1>1, <1>2, ProcessesSound, PTL DEF Spec, ServesInTurn

-----------------------------------------------------------------------------
(* What the servers count, and what their clients send. *)

(* Who has been accepted, or lost with the backlog. *)
Met == {c \in Clients : client[c] # "out" /\ ~InBacklog(c)}

TellersCount ==
    program \in Tellers =>
        /\ counter[Server] + Owed <= Cardinality(Met)
        /\ \A c \in Clients : counter[c] <= Cardinality(Met)

(* mp_dice_ds.c counts its client twice, and accepts no other. *)
DiceCounts ==
    program = "dice" =>
        /\ \A p \in Procs : counter[p] <= 2 /\ (counter[p] > 0 => Clients # {})
        /\ pc[Server] = "accept" /\ "listen" \in fds[Server] => counter[Server] = 0
        /\ pc[Server] \in {"accepted", "parent"} => counter[Server] <= 1

(* A child of the time server counts at its end, and the others do not     *)
(* count at all.                                                           *)
TimeCounts ==
    program = "time" =>
        /\ counter[Server] = 0
        /\ \A p \in Procs : counter[p] <= 1 /\ (pc[p] # "ended" => counter[p] = 0)

OthersCount ==
    program \notin Tellers \cup {"dice", "time"} => \A p \in Procs : counter[p] <= 1

CountInv ==
    /\ counter \in [Procs -> Nat]
    /\ TellersCount /\ DiceCounts /\ TimeCounts /\ OthersCount

Lines == {"line", "T", "N", "other", "END"}

LineInv ==
    /\ typed \in [Clients -> 0..MaxLines]
    /\ stream \in [Clients -> Seq(Lines)]
    /\ \A c \in Clients : Len(stream[c]) <= typed[c]

(* What a step of a process may do to the counters. *)
CounterStep(p) ==
    \/ UNCHANGED counter
    \/ program \in {"modular", "tcpstate", "capper", "dice"} /\ Accept(p) /\ Count(p)
    \/ Fork(p)
    \/ /\ program = "multi" /\ pc[p] = "parent" /\ Count(p)
       /\ Goto(p, "wait") \/ Goto(p, "accept")
    \/ /\ program = "dice" /\ pc[p] = "parent" /\ Count(p)
       /\ Closes(p, {"listen", conn[p]}, "accept")
    \/ program = "time" /\ pc[p] = "read" /\ Count(p) /\ Exit(p)
    \/ /\ program = "E1"
       /\ \E loop \in {counter[p], 0} : counter' = [counter EXCEPT ![p] = loop]

LEMMA RunCounts ==
    ASSUME NEW p \in Procs, Runs(p) \/ Operator(p)
    PROVE  CounterStep(p)
<1> USE DEF CounterStep, AcceptOrDie, CountOrDie, ForkOrGoOn, ForkOrDie, CloseInParent
<1>1. CASE ModularLoop(p) \/ TcpStateLoop(p) \/ CapperLoop(p)
  BY <1>1 DEF ModularLoop, TcpStateLoop, CapperLoop
<1>2. CASE MultiLoop(p)
  BY <1>2 DEF MultiLoop
<1>3. CASE DiceLoop(p)
  BY <1>3 DEF DiceLoop
<1>4. CASE TalkLoop(p) \/ UsernameLoop(p) \/ TimeLoop(p) \/ SerialLoop(p) \/ E1Loop(p)
  BY <1>4 DEF TalkLoop, UsernameLoop, TimeLoop, SerialLoop, E1Loop
<1>5. CASE ClockLoop(p) \/ Test01Loop(p)
  BY <1>5 DEF ClockLoop, Test01Loop, SendAndExit
<1>6. CASE TimeHandler(p)
  BY <1>6 DEF TimeHandler
<1>7. CASE Handler(p) /\ ~TimeHandler(p)
  BY <1>7 DEF Handler, ModularHandler, TcpStateHandler, CapperHandler, MultiHandler,
     TalkHandler, UsernameHandler, DiceHandler, SerialHandler, E1Handler
<1>8. CASE Operator(p)
  BY <1>8 DEF Operator, TalkOperator, TimeOperator, SerialOperator, E1Operator
<1> QED
  BY <1>1, <1>2, <1>3, <1>4, <1>5, <1>6, <1>7, <1>8 DEF Runs, Loop

(* Who was met stays so. *)
LEMMA MetGrows ==
    ASSUME \A c \in Clients : client[c] # "out" => client'[c] # "out",
           \A c \in Clients : InBacklog(c)' => InBacklog(c) \/ client[c] = "out"
    PROVE  /\ Met \subseteq Met'
           /\ Cardinality(Met) \in Nat /\ Cardinality(Met') \in Nat
           /\ Cardinality(Met) <= Cardinality(Met')
           /\ Cardinality(Met') <= Cardinality(Clients) /\ Cardinality(Clients) \in Nat
<1>1. Met \subseteq Met'
  BY DEF Met
<1>2. IsFiniteSet(Clients) /\ Met \subseteq Clients /\ Met' \subseteq Clients
  BY ForkServersAssumption DEF Met
<1>3. /\ IsFiniteSet(Met') /\ Cardinality(Met') <= Cardinality(Clients)
      /\ Cardinality(Clients) \in Nat
  BY <1>2, FS_Subset, FS_CardinalityType
<1>4. IsFiniteSet(Met) /\ Cardinality(Met) <= Cardinality(Met')
  BY <1>1, <1>3, FS_Subset
<1> QED BY <1>1, <1>3, <1>4, FS_CardinalityType

(* accept() meets somebody new. *)
LEMMA AcceptMeets ==
    ASSUME ProcInv, NEW p \in Procs, Accept(p), UNCHANGED <<program, client>>
    PROVE  /\ Cardinality(Met) \in Nat /\ Cardinality(Met') \in Nat
           /\ Cardinality(Met) + 1 <= Cardinality(Met')
           /\ Clients # {}
<1>1. /\ backlog \in Seq(Clients) /\ backlog # << >> /\ backlog' = Tail(backlog)
      /\ client' = client
  BY DEF ProcInv, Shapes, Accept
<1>2. /\ Len(backlog) \in Nat \ {0} /\ Len(backlog') = Len(backlog) - 1
      /\ \A i \in 1..Len(backlog') : backlog'[i] = backlog[i+1]
      /\ DOMAIN backlog = 1..Len(backlog) /\ DOMAIN backlog' = 1..Len(backlog')
      /\ backlog[1] \in Clients
  BY <1>1, HeadTailProperties, LenProperties, EmptySeq, ElementOfSeq
<1>3. PICK c \in Clients : c = backlog[1]
  BY <1>2
<1>4. c \notin Met
  BY <1>2, <1>3 DEF Met, InBacklog
<1>5. c \in Met'
  <2>1. client[c] # "out"
    BY <1>2, <1>3 DEF ProcInv, BacklogIsNew
  <2>2. \A i \in 1..Len(backlog') : backlog'[i] # c
    BY <1>2, <1>3 DEF ProcInv, BacklogIsNew
  <2> QED BY <1>1, <1>2, <2>1, <2>2 DEF Met, InBacklog
<1>6. \A d \in Clients : InBacklog(d)' => InBacklog(d)
  BY <1>2 DEF InBacklog
<1>7. /\ Met \subseteq Met' /\ Cardinality(Met) \in Nat /\ Cardinality(Met') \in Nat
  BY <1>1, <1>6, MetGrows
<1>8. IsFiniteSet(Met) /\ IsFiniteSet(Met')
  <2>1. IsFiniteSet(Clients) /\ Met \in SUBSET Clients /\ Met' \in SUBSET Clients
    BY ForkServersAssumption DEF Met
  <2> QED BY <2>1, FS_Subset
<1>9. Cardinality(Met \cup {c}) = Cardinality(Met) + 1
  BY <1>4, <1>8, FS_AddElement
<1>10. Cardinality(Met \cup {c}) <= Cardinality(Met')
  <2>1. Met \cup {c} \in SUBSET Met'
    BY <1>5, <1>7
  <2> QED BY <1>8, <2>1, FS_Subset
<1> QED BY <1>3, <1>7, <1>9, <1>10

(* What the steps of the processes look like from the counters. *)
AcceptsOne ==
    /\ pc[Server] = "accept" /\ "listen" \in fds[Server] /\ pc'[Server] = "accepted"
    /\ \A c \in Clients : pc'[c] = pc[c]
    /\ Cardinality(Met) + 1 <= Cardinality(Met') /\ Clients # {}

ForksOne ==
    /\ pc[Server] = "accepted" /\ pc'[Server] = "parent"
    /\ \E c \in Clients : /\ counter' = [counter EXCEPT ![c] = counter[Server]]
                          /\ pc[c] = "none" /\ pc'[c] = "child"
                          /\ \A d \in Clients \ {c} : pc'[d] = pc[d]

ServerGoesOn ==
    /\ pc'[Server] \notin {"accepted", "parent"}
    /\ program = "dice" /\ pc'[Server] = "accept" => "listen" \notin fds'[Server]
    /\ \A c \in Clients : pc'[c] = pc[c]

ChildGoesOn ==
    /\ pc'[Server] = pc[Server] /\ fds'[Server] = fds[Server]
    /\ \A c \in Clients : pc[c] = "ended" => pc'[c] = "ended"

(* fork() in any of the programs. *)
LEMMA ForkIsOne ==
    ASSUME ProcInv, NEW p \in Procs, Fork(p)
    PROVE  ForksOne
<1>1. pc \in [Procs -> ServerPlaces \cup ChildPlaces]
  BY DEF ProcInv, Shapes
<1>2. Server \in Procs /\ Clients \subseteq Procs /\ Server \notin Clients
  BY ForkServersAssumption DEF Procs
<1>3. /\ p = Server /\ pc[Server] = "accepted"
      /\ conn[Server] \in Clients /\ pc[conn[Server]] = "none"
  BY AcceptorIsServer DEF Fork, ProcInv, ServerAt
<1>4. PICK c \in Clients : c = conn[Server]
  BY <1>3
<1>5. /\ pc' = [pc EXCEPT ![Server] = "parent", ![c] = "child"]
      /\ counter' = [counter EXCEPT ![c] = counter[Server]]
  BY <1>3, <1>4 DEF Fork
<1>6. /\ pc'[Server] = "parent" /\ pc'[c] = "child"
      /\ \A d \in Clients \ {c} : pc'[d] = pc[d]
  BY <1>1, <1>2, <1>5
<1> QED BY <1>3, <1>4, <1>5, <1>6 DEF ForksOne

LEMMA ProcessStepCounts ==
    ASSUME ProcInv, NEW p \in Procs, ProcessStep(p), UNCHANGED <<program, client>>,
           counter \in [Procs -> Nat]
    PROVE  \/ p = Server /\ Accept(p) /\ AcceptsOne
           \/ p = Server /\ Fork(p) /\ ForksOne
           \/ /\ p = Server /\ ForkFails(p) /\ pc[Server] = "accepted" /\ pc'[Server] = "parent"
              /\ \A c \in Clients : pc'[c] = pc[c]
           \/ p = Server /\ (Moves(p) \/ Ends(p)) /\ ServerGoesOn
           \/ p \in Clients /\ (Moves(p) \/ Ends(p)) /\ ChildGoesOn
           \/ UNCHANGED procVars
<1>1. Server \in Procs /\ Clients \subseteq Procs /\ Server \notin Clients
  BY ForkServersAssumption DEF Procs
<1>2. /\ pc \in [Procs -> ServerPlaces \cup ChildPlaces]
      /\ fds \in [Procs -> SUBSET Things] /\ Shapes
  BY DEF ProcInv, Shapes
<1>3. CASE Accept(p)
  <2>1. p = Server
    BY <1>3, AcceptorIsServer DEF Accept
  <2>2. /\ pc[Server] = "accept" /\ "listen" \in fds[Server]
        /\ pc' = [pc EXCEPT ![Server] = "accepted"]
    BY <1>3, <2>1 DEF Accept
  <2>3. pc'[Server] = "accepted" /\ \A c \in Clients : pc'[c] = pc[c]
    BY <1>1, <1>2, <2>2
  <2>4. Cardinality(Met) + 1 <= Cardinality(Met') /\ Clients # {}
    BY <1>3, AcceptMeets
  <2> QED BY <1>3, <2>1, <2>2, <2>3, <2>4 DEF AcceptsOne
<1>4. CASE Fork(p)
  <2>1. p = Server
    BY <1>4, AcceptorIsServer DEF Fork
  <2> QED BY <1>4, <2>1, ForkIsOne
<1>5. CASE ForkFails(p)
  <2>1. p = Server /\ pc[Server] = "accepted"
    BY <1>5, AcceptorIsServer DEF ForkFails
  <2>2. pc' = [pc EXCEPT ![Server] = "parent"]
    BY <1>5, <2>1 DEF ForkFails
  <2> QED BY <1>1, <1>2, <1>5, <2>1, <2>2
<1>6. CASE p = Server /\ (Moves(p) \/ Ends(p))
  <2>1. PICK S, place : Closes(Server, S, place) /\ ServerMay(S, place)
    BY <1>6, ServerCloses
  <2>2. place \in {"accept", "wait", "operator", "ended"} /\ place \in ServerPlaces
    BY <2>1 DEF ServerMay, ServerPlaces
  <2>3. pc'[Server] = place /\ \A c \in Clients : pc'[c] = pc[c]
    BY <1>1, <1>2, <2>1, <2>2, ClosesResult
  <2>4. program = "dice" /\ place = "accept" => "listen" \notin fds'[Server]
    <3>1. ASSUME program = "dice", place = "accept"
          PROVE  Closes(Server, {"listen", conn[Server]}, "accept")
      <4>1. pc'[Server] = "accept"
        BY <2>3, <3>1
      <4>2. ~Ends(Server)
        <5>1. \A q \in Procs : Exit(q) => pc'[q] = "ended"
          BY <1>2 DEF Exit, Closes
        <5> QED BY <1>1, <4>1, <5>1 DEF Ends
      <4>3. pc[Server] # "child"
        BY DEF ProcInv, ServerAt, ServerPlaces
      <4> QED BY <1>6, <3>1, <4>2, <4>3 DEF Moves
    <3>2. ASSUME Closes(Server, {"listen", conn[Server]}, "accept")
          PROVE  "listen" \notin fds'[Server]
      BY <1>1, <1>2, <3>2 DEF Closes
    <3> QED BY <3>1, <3>2
  <2> QED BY <1>6, <2>2, <2>3, <2>4 DEF ServerGoesOn
<1>7. CASE p \in Clients /\ (Moves(p) \/ Ends(p))
  <2>1. PICK S, place : Closes(p, S, place) /\ ChildMay(p, S, place)
    BY <1>7, ChildCloses
  <2>2. place \in ChildPlaces /\ pc[p] # "ended"
    BY <2>1 DEF ChildMay, ChildPlaces
  <2>3. \A q \in Procs \ {p} : pc'[q] = pc[q] /\ fds'[q] = fds[q]
    BY <1>2, <2>1, <2>2, ClosesResult
  <2> QED BY <1>1, <1>7, <2>2, <2>3 DEF ChildGoesOn
<1> QED
  BY <1>3, <1>4, <1>5, <1>6, <1>7 DEF ProcessStep, Procs

(* No step of a process makes anybody unmet. *)
LEMMA ProcessStepMeets ==
    ASSUME ProcInv, NEW p \in Procs, ProcessStep(p), UNCHANGED <<program, client>>,
           counter \in [Procs -> Nat]
    PROVE  /\ Cardinality(Met) \in Nat /\ Cardinality(Met') \in Nat
           /\ Cardinality(Met) <= Cardinality(Met')
<1>1. CASE Accept(p)
  <2>1. /\ Cardinality(Met) \in Nat /\ Cardinality(Met') \in Nat
        /\ Cardinality(Met) + 1 <= Cardinality(Met')
    BY <1>1, AcceptMeets
  <2> QED BY <2>1
<1>2. CASE ~Accept(p)
  <2>1. backlog' \in {backlog, << >>}
    BY <1>2 DEF ProcessStep, Fork, ForkFails, Moves, Ends, Goto, Exit, Closes, procVars
  <2>2. \A c \in Clients : InBacklog(c)' => InBacklog(c)
    BY <2>1 DEF InBacklog
  <2> QED BY <2>2, MetGrows
<1> QED BY <1>1, <1>2

(* One counter is copied to the new process. *)
LEMMA ForkCopies ==
    ASSUME counter \in [Procs -> Nat], ForksOne
    PROVE  /\ counter' \in [Procs -> Nat] /\ counter'[Server] = counter[Server]
           /\ \A c \in Clients : \/ counter'[c] = counter[c] /\ pc'[c] = pc[c]
                                 \/ counter'[c] = counter[Server] /\ pc'[c] = "child"
<1>1. Server \in Procs /\ Clients \subseteq Procs /\ Server \notin Clients
  BY ForkServersAssumption DEF Procs
<1>2. PICK c \in Clients : /\ counter' = [counter EXCEPT ![c] = counter[Server]]
                           /\ pc'[c] = "child"
                           /\ \A d \in Clients \ {c} : pc'[d] = pc[d]
  BY DEF ForksOne
<1>3. counter' \in [Procs -> Nat] /\ counter'[Server] = counter[Server]
  BY <1>1, <1>2
<1>4. \A d \in Clients : counter'[d] = IF d = c THEN counter[Server] ELSE counter[d]
  BY <1>1, <1>2
<1> QED BY <1>2, <1>3, <1>4

LEMMA RunKeepsTellers ==
    ASSUME ProcInv, CountInv, NEW p \in Procs, ProcessStep(p), CounterStep(p),
           UNCHANGED <<program, client>>, program \in Tellers
    PROVE  counter' \in [Procs -> Nat] /\ TellersCount'
<1>1. Server \in Procs /\ Clients \subseteq Procs /\ Server \notin Clients
  BY ForkServersAssumption DEF Procs
<1>2. /\ counter \in [Procs -> Nat]
      /\ counter[Server] + Owed <= Cardinality(Met)
      /\ \A c \in Clients : counter[c] <= Cardinality(Met)
      /\ counter[Server] \in Nat /\ Owed \in {0, 1} /\ Owed' \in {0, 1}
      /\ program' = program
  BY <1>1 DEF CountInv, TellersCount, Owed
<1>3. /\ Cardinality(Met) \in Nat /\ Cardinality(Met') \in Nat
      /\ Cardinality(Met) <= Cardinality(Met')
  BY <1>2, ProcessStepMeets
<1>4. ASSUME counter' \in [Procs -> Nat],
             counter'[Server] + Owed' <= Cardinality(Met'),
             \A c \in Clients : counter'[c] = counter[c] \/ counter'[c] = counter[Server]
      PROVE  counter' \in [Procs -> Nat] /\ TellersCount'
  <2>1. \A c \in Clients : counter[c] \in Nat /\ counter[c] <= Cardinality(Met)
    BY <1>1, <1>2
  <2>2. counter[Server] <= Cardinality(Met)
    BY <1>2, <1>3
  <2>3. \A c \in Clients : counter'[c] <= Cardinality(Met')
    BY <1>2, <1>3, <1>4, <2>1, <2>2
  <2> QED BY <1>4, <2>3 DEF TellersCount
<1>5. CASE UNCHANGED counter
  <2>1. Owed' <= Owed \/ Cardinality(Met) + 1 <= Cardinality(Met')
    BY <1>2, ProcessStepCounts DEF AcceptsOne, ForksOne, ServerGoesOn, ChildGoesOn, Owed, procVars
  <2>2. counter[Server] + Owed' <= Cardinality(Met')
    BY <1>2, <1>3, <2>1
  <2> QED BY <1>2, <1>4, <1>5, <2>2
<1>6. CASE Fork(p)
  <2>1. ForksOne
    BY <1>6, ForkIsOne
  <2>2. Owed' = Owed
    BY <1>2, <2>1 DEF ForksOne, Owed
  <2>3. /\ counter' \in [Procs -> Nat] /\ counter'[Server] = counter[Server]
        /\ \A c \in Clients : counter'[c] = counter[c] \/ counter'[c] = counter[Server]
    BY <1>2, <2>1, ForkCopies
  <2> QED BY <1>2, <1>3, <1>4, <2>2, <2>3
<1>7. CASE program \in {"modular", "tcpstate", "capper"} /\ Accept(p) /\ Count(p)
  <2>1. p = Server /\ Cardinality(Met) + 1 <= Cardinality(Met')
    BY <1>7, AcceptorIsServer, AcceptMeets DEF Accept
  <2>2. counter' = [counter EXCEPT ![Server] = counter[Server] + 1]
    BY <1>7, <2>1 DEF Count
  <2>3. /\ counter' \in [Procs -> Nat] /\ counter'[Server] = counter[Server] + 1
        /\ \A c \in Clients : counter'[c] = counter[c]
    BY <1>1, <1>2, <2>2
  <2>4. Owed' = 0 /\ Owed = 0
    BY <1>2, <1>7 DEF Owed
  <2> QED BY <1>2, <1>3, <1>4, <2>1, <2>3, <2>4
<1>8. CASE /\ program = "multi" /\ pc[p] = "parent" /\ Count(p)
           /\ Goto(p, "wait") \/ Goto(p, "accept")
  <2>1. p = Server
    BY <1>8 DEF ProcInv, ChildrenAt, Procs
  <2>2. counter' = [counter EXCEPT ![Server] = counter[Server] + 1]
    BY <1>8, <2>1 DEF Count
  <2>3. /\ counter' \in [Procs -> Nat] /\ counter'[Server] = counter[Server] + 1
        /\ \A c \in Clients : counter'[c] = counter[c]
    BY <1>1, <1>2, <2>2
  <2>4. pc'[Server] \in {"wait", "accept"}
    <3>1. pc' \in {[pc EXCEPT ![Server] = "wait"], [pc EXCEPT ![Server] = "accept"]}
      BY <1>8, <2>1 DEF Goto, Closes
    <3>2. pc \in [Procs -> ServerPlaces \cup ChildPlaces]
      BY DEF ProcInv, Shapes
    <3> QED BY <1>1, <3>1, <3>2
  <2>5. Owed = 1 /\ Owed' = 0
    BY <1>2, <1>8, <2>1, <2>4 DEF Owed
  <2> QED BY <1>2, <1>3, <1>4, <2>3, <2>5
<1> QED
  BY <1>5, <1>6, <1>7, <1>8 DEF CounterStep, Tellers

LEMMA RunKeepsDice ==
    ASSUME ProcInv, CountInv, NEW p \in Procs, ProcessStep(p), CounterStep(p),
           UNCHANGED <<program, client>>, program = "dice"
    PROVE  counter' \in [Procs -> Nat] /\ DiceCounts'
<1>1. Server \in Procs /\ Clients \subseteq Procs /\ Server \notin Clients
  BY ForkServersAssumption DEF Procs
<1>2. /\ counter \in [Procs -> Nat] /\ program' = program
      /\ \A q \in Procs : counter[q] <= 2 /\ (counter[q] > 0 => Clients # {})
      /\ pc[Server] = "accept" /\ "listen" \in fds[Server] => counter[Server] = 0
      /\ pc[Server] \in {"accepted", "parent"} => counter[Server] <= 1
  BY DEF CountInv, DiceCounts
<1>3. CASE UNCHANGED counter
  <2>1. /\ pc'[Server] = "accept" /\ "listen" \in fds'[Server] =>
               pc[Server] = "accept" /\ "listen" \in fds[Server]
        /\ pc'[Server] \in {"accepted", "parent"} =>
               \/ pc[Server] \in {"accepted", "parent"}
               \/ pc[Server] = "accept" /\ "listen" \in fds[Server]
    BY <1>2, ProcessStepCounts DEF AcceptsOne, ForksOne, ServerGoesOn, ChildGoesOn, procVars
  <2> QED BY <1>2, <1>3, <2>1 DEF DiceCounts
<1>4. CASE Accept(p) /\ Count(p)
  <2>1. p = Server /\ pc[Server] = "accept" /\ "listen" \in fds[Server] /\ Clients # {}
    BY <1>4, AcceptorIsServer, AcceptMeets DEF Accept
  <2>2. counter' = [counter EXCEPT ![Server] = 1]
    <3>1. counter' = [counter EXCEPT ![Server] = counter[Server] + 1] /\ counter[Server] = 0
      BY <1>2, <1>4, <2>1 DEF Count
    <3> QED BY <3>1
  <2>3. pc'[Server] = "accepted"
    <3>1. pc' = [pc EXCEPT ![Server] = "accepted"]
      BY <1>4, <2>1 DEF Accept
    <3> QED BY <1>1, <3>1 DEF ProcInv, Shapes
  <2> QED BY <1>1, <1>2, <2>1, <2>2, <2>3 DEF DiceCounts
<1>5. CASE Fork(p)
  <2>1. ForksOne
    BY <1>5, ForkIsOne
  <2>2. /\ counter' \in [Procs -> Nat] /\ counter'[Server] = counter[Server]
        /\ \A c \in Clients : counter'[c] = counter[c] \/ counter'[c] = counter[Server]
    BY <1>2, <2>1, ForkCopies
  <2>3. \A q \in Procs : counter'[q] <= 2 /\ (counter'[q] > 0 => Clients # {})
    BY <1>1, <1>2, <2>2 DEF Procs
  <2>4. counter'[Server] <= 1 /\ pc'[Server] = "parent"
    BY <1>2, <2>1, <2>2 DEF ForksOne
  <2> QED BY <2>2, <2>3, <2>4 DEF DiceCounts
<1>6. CASE pc[p] = "parent" /\ Count(p) /\ Closes(p, {"listen", conn[p]}, "accept")
  <2>1. p = Server /\ conn[Server] \in Clients
    BY <1>6 DEF ProcInv, ServerAt, ChildrenAt, Procs
  <2>2. counter' = [counter EXCEPT ![Server] = counter[Server] + 1] /\ counter[Server] <= 1
    BY <1>2, <1>6, <2>1 DEF Count
  <2>3. /\ counter' \in [Procs -> Nat] /\ counter'[Server] <= 2
        /\ \A c \in Clients : counter'[c] = counter[c]
    BY <1>1, <1>2, <2>2
  <2>4. pc'[Server] = "accept" /\ "listen" \notin fds'[Server]
    BY <1>1, <1>6, <2>1 DEF Closes, ProcInv, Shapes
  <2>5. \A q \in Procs : counter'[q] <= 2 /\ (counter'[q] > 0 => Clients # {})
    BY <1>1, <1>2, <2>1, <2>3 DEF Procs
  <2> QED BY <2>3, <2>4, <2>5 DEF DiceCounts
<1> QED
  BY <1>3, <1>4, <1>5, <1>6 DEF CounterStep

LEMMA RunKeepsTime ==
    ASSUME ProcInv, CountInv, NEW p \in Procs, ProcessStep(p), CounterStep(p),
           UNCHANGED <<program, client>>, program = "time"
    PROVE  counter' \in [Procs -> Nat] /\ TimeCounts'
<1>1. Server \in Procs /\ Clients \subseteq Procs /\ Server \notin Clients
  BY ForkServersAssumption DEF Procs
<1>2. /\ counter \in [Procs -> Nat] /\ program' = program
      /\ counter[Server] = 0
      /\ \A q \in Procs : counter[q] <= 1 /\ (pc[q] # "ended" => counter[q] = 0)
  BY DEF CountInv, TimeCounts
<1>3. CASE UNCHANGED counter
  <2>1. \A q \in Clients : pc[q] = "ended" => pc'[q] = "ended"
    BY <1>2, ProcessStepCounts DEF AcceptsOne, ServerGoesOn, ChildGoesOn, procVars, ForksOne
  <2> QED BY <1>1, <1>2, <1>3, <2>1 DEF TimeCounts, Procs
<1>4. CASE Fork(p)
  <2>1. ForksOne
    BY <1>4, ForkIsOne
  <2>2. /\ counter' \in [Procs -> Nat] /\ counter'[Server] = counter[Server]
        /\ \A c \in Clients : \/ counter'[c] = counter[c] /\ pc'[c] = pc[c]
                              \/ counter'[c] = counter[Server] /\ pc'[c] = "child"
    BY <1>2, <2>1, ForkCopies
  <2> QED BY <1>1, <1>2, <2>2 DEF TimeCounts, Procs
<1>5. CASE pc[p] = "read" /\ Count(p) /\ Exit(p)
  <2>1. counter' = [counter EXCEPT ![p] = 1]
    <3>1. counter' = [counter EXCEPT ![p] = counter[p] + 1] /\ counter[p] = 0
      BY <1>2, <1>5 DEF Count
    <3> QED BY <3>1
  <2>2. pc' = [pc EXCEPT ![p] = "ended"] /\ pc \in [Procs -> ServerPlaces \cup ChildPlaces]
    BY <1>5 DEF Exit, Closes, ProcInv, Shapes
  <2>3. p # Server
    BY <1>5 DEF ProcInv, ServerAt, ServerPlaces
  <2> QED BY <1>1, <1>2, <2>1, <2>2, <2>3 DEF TimeCounts
<1> QED
  BY <1>3, <1>4, <1>5 DEF CounterStep

LEMMA RunKeepsOthers ==
    ASSUME ProcInv, CountInv, NEW p \in Procs, CounterStep(p),
           UNCHANGED <<program, client>>, program \notin Tellers \cup {"dice", "time"}
    PROVE  counter' \in [Procs -> Nat] /\ OthersCount'
<1>1. Server \in Procs /\ Clients \subseteq Procs
  BY DEF Procs
<1>2. /\ counter \in [Procs -> Nat] /\ program' = program
      /\ \A q \in Procs : counter[q] <= 1
  BY DEF CountInv, OthersCount
<1>3. CASE UNCHANGED counter
  BY <1>2, <1>3 DEF OthersCount
<1>4. CASE Fork(p)
  <2>1. ForksOne
    BY <1>4, ForkIsOne
  <2>2. /\ counter' \in [Procs -> Nat] /\ counter'[Server] = counter[Server]
        /\ \A c \in Clients : counter'[c] = counter[c] \/ counter'[c] = counter[Server]
    BY <1>2, <2>1, ForkCopies
  <2> QED BY <1>1, <1>2, <2>2 DEF OthersCount, Procs
<1>5. ASSUME NEW loop \in {counter[p], 0}, counter' = [counter EXCEPT ![p] = loop]
      PROVE  counter' \in [Procs -> Nat] /\ OthersCount'
  <2>1. loop \in Nat /\ loop <= 1
    BY <1>2, <1>5
  <2> QED BY <1>2, <1>5, <2>1 DEF OthersCount
<1> QED
  BY <1>3, <1>4, <1>5 DEF CounterStep, Tellers

LEMMA RunKeepsCount ==
    ASSUME ProcInv, CountInv, NEW p \in Procs, Runs(p) \/ Operator(p)
    PROVE  CountInv'
<1>1. ProcessStep(p) /\ CounterStep(p) /\ UNCHANGED <<program, client>>
  BY LoopStep, HandlerStep, OperatorStep, RunCounts DEF Runs, Operator
<1>2. CASE program \in Tellers
  <2>1. counter' \in [Procs -> Nat] /\ TellersCount'
    BY <1>1, <1>2, RunKeepsTellers
  <2> QED BY <1>1, <1>2, <2>1 DEF CountInv, DiceCounts, TimeCounts, OthersCount, Tellers
<1>3. CASE program = "dice"
  <2>1. counter' \in [Procs -> Nat] /\ DiceCounts'
    BY <1>1, <1>3, RunKeepsDice
  <2> QED BY <1>1, <1>3, <2>1 DEF CountInv, TellersCount, TimeCounts, OthersCount, Tellers
<1>4. CASE program = "time"
  <2>1. counter' \in [Procs -> Nat] /\ TimeCounts'
    BY <1>1, <1>4, RunKeepsTime
  <2> QED BY <1>1, <1>4, <2>1 DEF CountInv, TellersCount, DiceCounts, OthersCount, Tellers
<1>5. CASE program \notin Tellers \cup {"dice", "time"}
  <2>1. counter' \in [Procs -> Nat] /\ OthersCount'
    BY <1>1, <1>5, RunKeepsOthers
  <2> QED BY <1>1, <1>5, <2>1 DEF CountInv, TellersCount, DiceCounts, TimeCounts
<1> QED BY <1>2, <1>3, <1>4, <1>5

(* Steps that the counters do not see. *)
LEMMA QuietKeepsCount ==
    ASSUME CountInv, UNCHANGED <<program, pc, counter>>,
           \A p \in Procs : fds'[p] \subseteq fds[p],
           \A c \in Clients : client[c] # "out" => client'[c] # "out",
           \A c \in Clients : InBacklog(c)' => InBacklog(c) \/ client[c] = "out"
    PROVE  CountInv'
<1>1. /\ Cardinality(Met) \in Nat /\ Cardinality(Met') \in Nat
      /\ Cardinality(Met) <= Cardinality(Met')
  BY MetGrows
<1>2. counter \in [Procs -> Nat] /\ Server \in Procs /\ Clients \subseteq Procs
  BY DEF CountInv, Procs
<1>3. TellersCount'
  <2>1. Owed' = Owed /\ Owed \in {0, 1}
    BY DEF Owed
  <2>2. counter[Server] \in Nat /\ \A c \in Clients : counter[c] \in Nat
    BY <1>2
  <2>3. program \in Tellers => /\ counter[Server] + Owed <= Cardinality(Met')
                               /\ \A c \in Clients : counter[c] <= Cardinality(Met')
    BY <1>1, <2>1, <2>2 DEF CountInv, TellersCount
  <2> QED BY <2>1, <2>3 DEF TellersCount
<1>4. DiceCounts' /\ TimeCounts' /\ OthersCount'
  BY <1>2 DEF CountInv, DiceCounts, TimeCounts, OthersCount
<1> QED BY <1>3, <1>4 DEF CountInv

LEMMA ClientKeepsCount ==
    ASSUME ProcInv, CountInv, NEW c \in Clients, Client(c) \/ Answered(c)
    PROVE  CountInv'
<1>1. ClientStep(c) /\ UNCHANGED counter
  BY ClientTakesStep DEF Client, Answered
<1>2. UNCHANGED <<program, pc, counter, fds>>
  BY <1>1 DEF ClientStep
<1>3. /\ client \in [Clients -> {"out", "in", "waits", "gone"}]
      /\ backlog \in Seq(Clients)
  BY DEF ProcInv, Shapes
<1>4. \A d \in Clients : client[d] # "out" => client'[d] # "out"
  <2>1. PICK place \in {"in", "waits", "gone"} : client' = [client EXCEPT ![c] = place]
    BY <1>1 DEF ClientStep, Arrives, Turns
  <2> QED BY <1>3, <2>1
<1>5. \A d \in Clients : InBacklog(d)' => InBacklog(d) \/ client[d] = "out"
  <2>1. CASE backlog' = backlog
    BY <2>1 DEF InBacklog
  <2>2. CASE client[c] = "out" /\ backlog' = Append(backlog, c)
    <3>1. /\ Len(backlog) \in Nat /\ backlog' \in Seq(Clients)
          /\ Len(backlog') = Len(backlog) + 1
          /\ \A i \in 1..Len(backlog) : backlog'[i] = backlog[i]
          /\ backlog'[Len(backlog) + 1] = c
      BY <1>3, <2>2, AppendProperties, LenProperties
    <3>2. DOMAIN backlog = 1..Len(backlog) /\ DOMAIN backlog' = 1..Len(backlog')
      BY <1>3, <3>1, LenProperties
    <3> QED BY <2>2, <3>1, <3>2 DEF InBacklog
  <2> QED BY <1>1, <2>1, <2>2 DEF ClientStep, Arrives, Turns
<1> QED BY <1>2, <1>4, <1>5, QuietKeepsCount

LEMMA NextCountInv == ProcInv /\ CountInv /\ [Next]_vars => CountInv'
<1> SUFFICES ASSUME ProcInv, CountInv, [Next]_vars PROVE CountInv'
  OBVIOUS
<1>1. CASE Interrupt
  <2>1. /\ UNCHANGED <<program, pc, counter, client>>
        /\ \A p \in Procs : fds'[p] \subseteq fds[p]
    BY <1>1 DEF Interrupt, clientVars
  <2>2. \A c \in Clients : ~InBacklog(c)'
    <3>1. backlog' = << >>
      BY <1>1 DEF Interrupt
    <3> QED BY <3>1, EmptySeq, LenProperties DEF InBacklog
  <2> QED BY <2>1, <2>2, QuietKeepsCount
<1>2. CASE UNCHANGED vars
  <2>1. UNCHANGED <<program, pc, counter, client, fds, backlog>>
    BY <1>2 DEF vars, procVars, clientVars
  <2>2. \A c \in Clients : InBacklog(c)' <=> InBacklog(c)
    BY <2>1 DEF InBacklog
  <2> QED BY <2>1, <2>2, QuietKeepsCount
<1> QED BY <1>1, <1>2, RunKeepsCount, ClientKeepsCount DEF Next

-----------------------------------------------------------------------------
(* Nobody reads what was not sent. *)

LEMMA ReadsResult ==
    ASSUME LineInv, NEW d, NEW n, Reads(d, n), typed' = typed
    PROVE  LineInv'
<1>1. /\ stream \in [Clients -> Seq(Lines)] /\ n \in DOMAIN stream[d]
      /\ stream' = [stream EXCEPT ![d] = SubSeq(stream[d], n + 1, Len(stream[d]))]
      /\ typed \in [Clients -> 0..MaxLines] /\ MaxLines \in Nat
      /\ \A c \in Clients : Len(stream[c]) <= typed[c]
  BY ForkServersAssumption DEF LineInv, Reads
<1>2. CASE d \in Clients
  <2>1. PICK s \in Seq(Lines) : s = stream[d]
    BY <1>1, <1>2
  <2>2. Len(s) \in Nat /\ DOMAIN s = 1..Len(s) /\ n \in 1..Len(s)
    BY <1>1, <2>1, LenProperties
  <2>3. \A i \in (n + 1)..Len(s) : s[i] \in Lines
    BY <2>1, <2>2, ElementOfSeq
  <2>4. PICK t : t = SubSeq(s, n + 1, Len(s))
    OBVIOUS
  <2>5. t \in Seq(Lines) /\ Len(t) = IF n + 1 <= Len(s) THEN Len(s) - (n + 1) + 1 ELSE 0
    BY <2>2, <2>3, <2>4, SubSeqProperties
  <2>6. Len(t) <= Len(s)
    <3>1. n \in Int /\ n >= 1 /\ Len(s) \in Int /\ Len(s) >= 0
      BY <2>2
    <3>2. CASE n + 1 <= Len(s)
      <4>1. Len(t) = Len(s) - (n + 1) + 1
        BY <2>5, <3>2
      <4> QED BY <3>1, <4>1
    <3>3. CASE ~(n + 1 <= Len(s))
      <4>1. Len(t) = 0
        BY <2>5, <3>3
      <4> QED BY <3>1, <4>1
    <3> QED BY <3>2, <3>3
  <2>7. stream' = [stream EXCEPT ![d] = t]
    BY <1>1, <2>1, <2>4
  <2>8. stream' \in [Clients -> Seq(Lines)]
    BY <1>1, <2>5, <2>7
  <2>9. ASSUME NEW c \in Clients PROVE Len(stream'[c]) <= typed[c]
    <3>1. CASE c = d
      <4>1. stream'[c] = t /\ Len(s) <= typed[c] /\ typed[c] \in Nat /\ Len(t) \in Nat
        BY <1>1, <1>2, <2>1, <2>5, <2>7, <3>1, LenProperties
      <4> QED BY <2>2, <2>6, <4>1
    <3>2. CASE c # d
      BY <1>1, <2>7, <3>2
    <3> QED BY <3>1, <3>2
  <2> QED BY <1>1, <2>8, <2>9 DEF LineInv
<1>3. CASE d \notin Clients
  <2>1. stream' = stream
    BY <1>1, <1>3
  <2> QED BY <1>1, <2>1 DEF LineInv
<1> QED BY <1>2, <1>3

LEMMA RunReads ==
    ASSUME NEW p \in Procs, Runs(p) \/ Operator(p)
    PROVE  /\ typed' = typed
           /\ stream' = stream \/ \E d, n : Reads(d, n)
<1>1. ReadsOnce(p) => stream' = stream \/ \E d, n : Reads(d, n)
  BY DEF ReadsOnce
<1>2. Loop(p) => stream' = stream
  BY DEF Loop, ModularLoop, TcpStateLoop, CapperLoop, MultiLoop, TalkLoop, UsernameLoop,
     DiceLoop, TimeLoop, SerialLoop, E1Loop, ClockLoop, Test01Loop
<1>3. Handler(p) => stream' = stream \/ \E d, n : Reads(d, n)
  BY <1>1 DEF Handler, ModularHandler, TcpStateHandler, CapperHandler, MultiHandler,
     TalkHandler, UsernameHandler, DiceHandler, TimeHandler, SerialHandler, E1Handler,
     ReadUntilEnd
<1>4. Operator(p) => stream' = stream
  BY DEF Operator, TalkOperator, TimeOperator, SerialOperator, E1Operator
<1> QED BY <1>2, <1>3, <1>4 DEF Runs, Operator

LEMMA TypesResult ==
    ASSUME LineInv, NEW c \in Clients, NEW line \in Lines, NEW place, Types(c, line, place)
    PROVE  LineInv'
<1>1. /\ stream \in [Clients -> Seq(Lines)]
      /\ typed \in [Clients -> 0..MaxLines] /\ MaxLines \in Nat
      /\ \A d \in Clients : Len(stream[d]) <= typed[d]
  BY ForkServersAssumption DEF LineInv
<1>2. /\ typed[c] < MaxLines /\ typed' = [typed EXCEPT ![c] = typed[c] + 1]
      /\ stream' = stream \/ stream' = [stream EXCEPT ![c] = Append(stream[c], line)]
  BY DEF Types, Writes
<1>3. /\ typed' \in [Clients -> 0..MaxLines]
      /\ \A d \in Clients : typed'[d] = IF d = c THEN typed[d] + 1 ELSE typed[d]
  BY <1>1, <1>2
<1>4. /\ Append(stream[c], line) \in Seq(Lines)
      /\ Len(Append(stream[c], line)) = Len(stream[c]) + 1
      /\ \A d \in Clients : Len(stream[d]) \in Nat /\ typed[d] \in Nat
  BY <1>1, AppendProperties, LenProperties
<1>5. /\ stream' \in [Clients -> Seq(Lines)]
      /\ \A d \in Clients : \/ stream'[d] = stream[d]
                            \/ d = c /\ stream'[d] = Append(stream[c], line)
  BY <1>1, <1>2, <1>4
<1>6. \A d \in Clients : Len(stream'[d]) <= typed'[d]
  BY <1>1, <1>3, <1>4, <1>5
<1> QED BY <1>3, <1>5, <1>6 DEF LineInv

LEMMA ClientTypes ==
    ASSUME NEW c \in Clients, Client(c) \/ Answered(c)
    PROVE  \/ UNCHANGED <<typed, stream>>
           \/ \E line \in Lines : \E place : Types(c, line, place)
<1>1. \A place : Connects(c, place) => UNCHANGED <<typed, stream>>
  BY DEF Connects
<1> QED
  BY <1>1 DEF Client, Answered, Receive, Quit, HandClient, MultiClient, UsernameClient,
     DiceClient, TimeClient, SerialClient, E1Client, ClockClient, Test01Client, Lines

LEMMA NextLineInv == LineInv /\ [Next]_vars => LineInv'
<1> SUFFICES ASSUME LineInv, [Next]_vars PROVE LineInv'
  OBVIOUS
<1>1. ASSUME UNCHANGED <<typed, stream>> PROVE LineInv'
  BY <1>1 DEF LineInv
<1>2. ASSUME NEW p \in Procs, Runs(p) \/ Operator(p) PROVE LineInv'
  BY <1>1, <1>2, RunReads, ReadsResult
<1>3. ASSUME NEW c \in Clients, Client(c) \/ Answered(c) PROVE LineInv'
  BY <1>1, <1>3, ClientTypes, TypesResult
<1>4. CASE Interrupt
  BY <1>1, <1>4 DEF Interrupt, clientVars
<1>5. CASE UNCHANGED vars
  BY <1>1, <1>5 DEF vars, clientVars
<1> QED BY <1>2, <1>3, <1>4, <1>5 DEF Next

LEMMA InitCountInv == Init => CountInv /\ LineInv
<1> SUFFICES ASSUME Init PROVE CountInv /\ LineInv
  OBVIOUS
<1>1. PICK n \in {0, 1} : /\ counter = [p \in Procs |-> n]
                          /\ n = 1 => program = "E1"
  BY DEF Init, ModularInit, TcpStateInit, CapperInit, MultiInit, TalkInit, UsernameInit,
     DiceInit, TimeInit, SerialInit, E1Init, ClockInit, Test01Init, CountFrom
<1>2. Server \in Procs /\ Clients \subseteq Procs
  BY DEF Procs
<1>3. Owed = 0
  <2>1. pc[Server] \in {"accept", "ended"}
    BY <1>2 DEF Init, ModularInit, TcpStateInit, CapperInit, MultiInit, TalkInit, UsernameInit,
       DiceInit, TimeInit, SerialInit, E1Init, ClockInit, Test01Init,
       BindChecked, BindUnchecked, Bound, At
  <2> QED BY <2>1 DEF Owed
<1>4. Cardinality(Met) \in Nat
  <2>1. IsFiniteSet(Clients) /\ Met \in SUBSET Clients
    BY ForkServersAssumption DEF Met
  <2> QED BY <2>1, FS_Subset, FS_CardinalityType
<1>5. CountInv
  BY <1>1, <1>2, <1>3, <1>4 DEF CountInv, TellersCount, DiceCounts, TimeCounts, OthersCount,
     Tellers
<1>6. LineInv
  <2>1. \A c \in Clients : stream[c] = << >> /\ typed[c] = 0
    BY DEF Init
  <2> QED BY <2>1, EmptySeq, ForkServersAssumption DEF Init, LineInv
<1> QED BY <1>5, <1>6

(* No process counts beyond the number of clients by more than one, no     *)
(* line is read that was not sent, a process that has ended holds nothing, *)
(* and the backlog holds clients only, no more than its length.            *)
THEOREM ForkServersTypeCorrect == Spec => []TypeOK
<1>1. ProcInv /\ CountInv /\ LineInv => TypeOK
  <2> SUFFICES ASSUME ProcInv, CountInv, LineInv PROVE TypeOK
    OBVIOUS
  <2>1. Cardinality(Met) <= Cardinality(Clients) /\ Cardinality(Met) \in Nat /\ Cardinality(Clients) \in Nat
    <3>1. IsFiniteSet(Clients) /\ Met \in SUBSET Clients
      BY ForkServersAssumption DEF Met
    <3> QED BY <3>1, FS_Subset, FS_CardinalityType
  <2>2. Clients # {} => Cardinality(Clients) >= 1
    <3>1. Clients # {} => Cardinality(Clients) # 0
      BY ForkServersAssumption, FS_EmptySet
    <3> QED BY <2>1, <3>1
  <2>3. ASSUME NEW p \in Procs PROVE counter[p] \in 0..Cardinality(Clients) + 1
    <3>1. counter[p] \in Nat /\ (p = Server \/ p \in Clients) /\ Owed \in {0, 1}
      BY DEF CountInv, Procs, Owed
    <3>2. CASE program \in Tellers
      <4>1. counter[p] <= Cardinality(Met)
        BY <2>1, <3>1, <3>2 DEF CountInv, TellersCount
      <4> QED BY <2>1, <3>1, <4>1
    <3>3. CASE program = "dice"
      <4>1. counter[p] <= 2 /\ (counter[p] > 0 => Clients # {})
        BY <3>3 DEF CountInv, DiceCounts
      <4> QED BY <2>1, <2>2, <3>1, <4>1
    <3>4. CASE program \notin Tellers \cup {"dice"}
      <4>1. counter[p] <= 1
        BY <3>4 DEF CountInv, TimeCounts, OthersCount
      <4> QED BY <2>1, <3>1, <4>1
    <3> QED BY <3>2, <3>3, <3>4
  <2>4. /\ \A p \in Procs : /\ fds[p] \subseteq Clients \cup {"listen", "unbound"}
                            /\ ~Running(p) => fds[p] = {}
                            /\ conn[p] \in Procs
        /\ program \in Programs /\ failures \in 0..MaxForkFailures /\ Len(backlog) <= Backlog
    BY DEF ProcInv, Shapes, NothingLeftOpen, Things
  <2>5. \A i \in DOMAIN backlog : backlog[i] \in Clients
    <3>1. backlog \in Seq(Clients)
      BY DEF ProcInv, Shapes
    <3> QED BY <3>1, ElementOfSeq, LenProperties
  <2>6. ASSUME NEW c \in Clients PROVE Len(stream[c]) <= typed[c] /\ typed[c] <= MaxLines
    <3>1. typed[c] \in 0..MaxLines /\ MaxLines \in Nat /\ Len(stream[c]) <= typed[c]
      BY ForkServersAssumption DEF LineInv
    <3> QED BY <3>1
  <2> QED BY <2>3, <2>4, <2>5, <2>6 DEF TypeOK
<1> QED
  BY InitProcInv, NextProcInv, InitCountInv, NextCountInv, NextLineInv, <1>1, PTL DEF Spec

-----------------------------------------------------------------------------
(* What exactly the server has counted. *)

ExactInv ==
    /\ program \in Tellers =>
          counter[Server] + Owed = Cardinality(Forked) + failures + InHand
    /\ program = "multi" =>
          /\ counter[Server] <= Limit
          /\ pc[Server] \notin {"wait", "ended"} => counter[Server] < Limit

(* The steps of these programs, each with what it does to the counter.     *)
TellerStep(p) ==
    \/ program # "multi" /\ Accept(p) /\ Count(p)
    \/ program = "multi" /\ Accept(p) /\ UNCHANGED counter
    \/ Fork(p)
    \/ ForkFails(p) /\ UNCHANGED counter
    \/ /\ program = "multi" /\ pc[p] = "parent" /\ Count(p)
       /\ Goto(p, IF counter'[p] = Limit THEN "wait" ELSE "accept")
    \/ /\ program # "multi" /\ pc[p] = "parent" /\ UNCHANGED counter
       /\ Closes(p, {conn[p]}, "accept")
    \/ /\ pc[p] \in {"accept", "wait", "child", "read"} /\ UNCHANGED counter
       /\ \E S : \E place \in {"read", "ended"} :
             Closes(p, S, place) /\ (pc[p] \in {"accept", "wait"} => place = "ended")
    \/ UNCHANGED procVars /\ UNCHANGED counter

LEMMA TellersStep ==
    ASSUME NEW p \in Procs, Runs(p) \/ Operator(p), program \in Tellers
    PROVE  TellerStep(p)
<1>1. AcceptFails(p) /\ UNCHANGED counter => TellerStep(p)
  BY DEF AcceptFails, Exit, TellerStep
<1>2. CASE ModularLoop(p) \/ TcpStateLoop(p) \/ CapperLoop(p)
  BY <1>1, <1>2 DEF ModularLoop, TcpStateLoop, CapperLoop, CountOrDie, ForkOrGoOn,
     CloseInParent, TellerStep
<1>3. CASE MultiLoop(p)
  BY <1>1, <1>3 DEF MultiLoop, AcceptOrDie, ForkOrGoOn, Exit, TellerStep
<1>4. ReadUntilEnd(p) /\ UNCHANGED counter => TellerStep(p)
  BY DEF ReadUntilEnd, Exit, TellerStep
<1>5. CASE ModularHandler(p) \/ TcpStateHandler(p)
  BY <1>4, <1>5 DEF ModularHandler, TcpStateHandler, CloseListening, Killed, Exit, TellerStep
<1>6. CASE CapperHandler(p) \/ MultiHandler(p)
  BY <1>4, <1>6 DEF CapperHandler, MultiHandler, CloseListening, Goto, Exit, TellerStep
<1>7. ~(Operator(p) \/ TalkLoop(p) \/ UsernameLoop(p) \/ DiceLoop(p) \/ TimeLoop(p))
  BY DEF Tellers, Operator, TalkOperator, TimeOperator, SerialOperator, E1Operator,
     TalkLoop, UsernameLoop, DiceLoop, TimeLoop
<1>8. ~(SerialLoop(p) \/ E1Loop(p) \/ ClockLoop(p) \/ Test01Loop(p))
  BY DEF Tellers, SerialLoop, E1Loop, ClockLoop, Test01Loop
<1>9. ~(TalkHandler(p) \/ UsernameHandler(p) \/ DiceHandler(p) \/ TimeHandler(p)
            \/ SerialHandler(p) \/ E1Handler(p))
  BY DEF Tellers, TalkHandler, UsernameHandler, DiceHandler, TimeHandler, SerialHandler, E1Handler
<1> QED
  BY <1>2, <1>3, <1>5, <1>6, <1>7, <1>8, <1>9 DEF Runs, Loop, Handler

LEMMA ForkedFinite == Cardinality(Forked) \in Nat /\ IsFiniteSet(Forked)
<1>1. IsFiniteSet(Clients) /\ Forked \in SUBSET Clients
  BY ForkServersAssumption DEF Forked
<1> QED BY <1>1, FS_Subset, FS_CardinalityType

(* A fork() adds one to those who have a process. *)
LEMMA ForkAddsOne ==
    ASSUME ForksOne
    PROVE  Cardinality(Forked') = Cardinality(Forked) + 1
<1>1. PICK c \in Clients : /\ pc[c] = "none" /\ pc'[c] = "child"
                           /\ \A d \in Clients \ {c} : pc'[d] = pc[d]
  BY DEF ForksOne
<1>2. Forked' = Forked \cup {c} /\ c \notin Forked
  BY <1>1 DEF Forked
<1> QED BY <1>2, ForkedFinite, FS_AddElement

(* Only a fork() gives anybody a process. *)
LEMMA SameForked ==
    ASSUME \A c \in Clients : pc'[c] = "none" <=> pc[c] = "none"
    PROVE  Forked' = Forked
  BY DEF Forked

LEMMA RunKeepsExact ==
    ASSUME ProcInv, CountInv, ExactInv, NEW p \in Procs, Runs(p) \/ Operator(p)
    PROVE  ExactInv'
<1>1. program' = program
  BY DEF Runs, Operator
<1> SUFFICES ASSUME program \in Tellers PROVE ExactInv'
  BY <1>1 DEF ExactInv, Tellers
<1>2. Server \in Procs /\ Clients \subseteq Procs /\ Server \notin Clients
  BY ForkServersAssumption DEF Procs
<1>3. /\ pc \in [Procs -> ServerPlaces \cup ChildPlaces]
      /\ counter \in [Procs -> Nat] /\ counter[Server] \in Nat
      /\ failures \in Nat /\ Limit \in Nat \ {0}
      /\ Cardinality(Forked) \in Nat
      /\ Owed \in {0, 1} /\ InHand \in {0, 1}
  BY <1>2, ForkedFinite, ForkServersAssumption DEF ProcInv, Shapes, CountInv, Owed, InHand
<1>4. /\ counter[Server] + Owed = Cardinality(Forked) + failures + InHand
      /\ program = "multi" =>
             /\ counter[Server] <= Limit
             /\ pc[Server] \notin {"wait", "ended"} => counter[Server] < Limit
  BY DEF ExactInv
<1>5. pc[Server] \in ServerPlaces /\ \A c \in Clients : pc[c] \in ChildPlaces
  BY DEF ProcInv, ServerAt, ChildrenAt
<1>6. CASE Accept(p)
  <2>1. p = Server /\ pc[Server] = "accept"
    BY <1>6, AcceptorIsServer DEF Accept
  <2>2. pc' = [pc EXCEPT ![Server] = "accepted"] /\ failures' = failures
    BY <1>6, <2>1 DEF Accept
  <2>3. pc'[Server] = "accepted" /\ \A c \in Clients : pc'[c] = pc[c]
    BY <1>2, <1>3, <2>2
  <2>4. Forked' = Forked
    BY <2>3, SameForked
  <2>5. InHand = 0 /\ InHand' = 1 /\ Owed = 0
    BY <2>1, <2>3 DEF InHand, Owed
  <2>6. CASE program # "multi"
    <3>1. Count(p)
      <4>1. ~Fork(p) /\ ~ForkFails(p) /\ pc[p] \notin {"parent", "child", "read", "wait"}
        BY <2>1 DEF Fork, ForkFails
      <4>2. \A S : \A place \in {"read", "ended"} : ~Closes(p, S, place)
        BY <1>2, <1>3, <2>1, <2>3 DEF Closes
      <4>3. ~UNCHANGED procVars
        BY <2>1, <2>3 DEF procVars
      <4> QED BY <2>6, <4>1, <4>2, <4>3, TellersStep DEF TellerStep
    <3>2. counter' = [counter EXCEPT ![Server] = counter[Server] + 1]
      BY <2>1, <3>1 DEF Count
    <3>3. counter'[Server] = counter[Server] + 1 /\ Owed' = 0
      BY <1>1, <1>2, <1>3, <2>6, <3>2 DEF Owed
    <3> QED BY <1>1, <1>3, <1>4, <2>2, <2>4, <2>5, <2>6, <3>3 DEF ExactInv
  <2>7. CASE program = "multi"
    <3>1. counter' = counter
      BY <2>1, <2>3, <2>7, TellersStep DEF TellerStep, Fork, ForkFails, Accept, Closes, procVars, Goto
    <3>2. Owed' = 1
      BY <1>1, <2>3, <2>7 DEF Owed
    <3> QED BY <1>1, <1>3, <1>4, <2>1, <2>2, <2>3, <2>4, <2>5, <3>1, <3>2 DEF ExactInv
  <2> QED BY <2>6, <2>7
<1>7. CASE Fork(p)
  <2>1. ForksOne
    BY <1>7, ForkIsOne
  <2>2. Cardinality(Forked') = Cardinality(Forked) + 1
    BY <2>1, ForkAddsOne
  <2>3. /\ pc[Server] = "accepted" /\ pc'[Server] = "parent" /\ failures' = failures
        /\ counter'[Server] = counter[Server]
    BY <1>3, <1>7, <2>1, ForkCopies DEF ForksOne, Fork
  <2>4. InHand = 1 /\ InHand' = 0 /\ Owed' = Owed
    BY <1>1, <2>3 DEF InHand, Owed
  <2> QED BY <1>1, <1>3, <1>4, <2>2, <2>3, <2>4 DEF ExactInv
<1>8. CASE ForkFails(p) /\ UNCHANGED counter
  <2>1. p = Server /\ pc[Server] = "accepted"
    BY <1>8, AcceptorIsServer DEF ForkFails
  <2>2. pc' = [pc EXCEPT ![Server] = "parent"] /\ failures' = failures + 1
    BY <1>8, <2>1 DEF ForkFails
  <2>3. pc'[Server] = "parent" /\ \A c \in Clients : pc'[c] = pc[c]
    BY <1>2, <1>3, <2>2
  <2>4. Forked' = Forked
    BY <2>3, SameForked
  <2>5. InHand = 1 /\ InHand' = 0 /\ Owed' = Owed
    BY <1>1, <2>1, <2>3 DEF InHand, Owed
  <2> QED BY <1>1, <1>3, <1>4, <1>8, <2>1, <2>2, <2>3, <2>4, <2>5 DEF ExactInv
<1>9. CASE /\ program = "multi" /\ pc[p] = "parent" /\ Count(p)
           /\ Goto(p, IF counter'[p] = Limit THEN "wait" ELSE "accept")
  <2>1. p = Server
    BY <1>9 DEF ProcInv, ChildrenAt, Procs
  <2>2. counter' = [counter EXCEPT ![Server] = counter[Server] + 1]
    BY <1>9, <2>1 DEF Count
  <2>3. counter'[Server] = counter[Server] + 1
    BY <1>2, <1>3, <2>2
  <2>4. /\ pc' = [pc EXCEPT ![Server] = IF counter'[Server] = Limit THEN "wait" ELSE "accept"]
        /\ failures' = failures
    BY <1>9, <2>1 DEF Goto, Closes
  <2>5. /\ pc'[Server] = IF counter'[Server] = Limit THEN "wait" ELSE "accept"
        /\ \A c \in Clients : pc'[c] = pc[c]
    BY <1>2, <1>3, <2>4
  <2>6. Forked' = Forked
    BY <2>5, SameForked
  <2>7. InHand = 0 /\ InHand' = 0 /\ Owed = 1 /\ Owed' = 0
    BY <1>1, <1>9, <2>1, <2>5 DEF InHand, Owed
  <2>8. counter[Server] < Limit
    BY <1>4, <1>9, <2>1
  <2>9. counter'[Server] <= Limit /\ (pc'[Server] # "wait" => counter'[Server] < Limit)
    BY <1>3, <2>3, <2>5, <2>8
  <2> QED BY <1>1, <1>3, <1>4, <2>3, <2>4, <2>6, <2>7, <2>9 DEF ExactInv
<1>10. CASE \/ /\ program # "multi" /\ pc[p] = "parent" /\ UNCHANGED counter
               /\ Closes(p, {conn[p]}, "accept")
            \/ /\ pc[p] \in {"accept", "wait", "child", "read"} /\ UNCHANGED counter
               /\ \E S : \E place \in {"read", "ended"} :
                     Closes(p, S, place) /\ (pc[p] \in {"accept", "wait"} => place = "ended")
  <2>1. PICK place \in {"accept", "read", "ended"} :
            /\ pc' = [pc EXCEPT ![p] = place] /\ failures' = failures
            /\ place = "accept" => program # "multi"
            /\ pc[p] \in {"accept", "wait"} => place = "ended"
            /\ pc[p] # "none"
    BY <1>10 DEF Closes
  <2>2. /\ pc'[p] = place /\ \A q \in Procs \ {p} : pc'[q] = pc[q]
        /\ pc[p] \in {"parent", "accept", "wait", "child", "read"} /\ counter' = counter
    BY <1>3, <1>10, <2>1
  <2>3. \A c \in Clients : pc'[c] = "none" <=> pc[c] = "none"
    BY <1>2, <2>1, <2>2
  <2>4. Forked' = Forked
    BY <2>3, SameForked
  <2>5. InHand' = InHand /\ Owed' = Owed
    BY <1>1, <1>2, <1>10, <2>1, <2>2 DEF InHand, Owed
  <2>6. pc'[Server] \notin {"wait", "ended"} /\ program = "multi" =>
            pc[Server] \notin {"wait", "ended"}
    BY <1>2, <1>5, <2>1, <2>2 DEF ServerPlaces
  <2> QED BY <1>1, <1>3, <1>4, <2>1, <2>2, <2>4, <2>5, <2>6 DEF ExactInv
<1>11. CASE UNCHANGED procVars /\ UNCHANGED counter
  BY <1>1, <1>11 DEF procVars, ExactInv, Forked, InHand, Owed
<1> QED
  BY <1>6, <1>7, <1>8, <1>9, <1>10, <1>11, TellersStep DEF TellerStep

LEMMA NextExactInv == ProcInv /\ CountInv /\ ExactInv /\ [Next]_vars => ExactInv'
<1> SUFFICES ASSUME ProcInv, CountInv, ExactInv, [Next]_vars PROVE ExactInv'
  OBVIOUS
<1>1. ASSUME UNCHANGED <<program, pc, counter, failures>> PROVE ExactInv'
  BY <1>1 DEF ExactInv, Forked, InHand, Owed
<1>2. ASSUME NEW c \in Clients, Client(c) \/ Answered(c) PROVE ExactInv'
  BY <1>1, <1>2 DEF Client, Answered
<1>3. CASE Interrupt
  BY <1>1, <1>3 DEF Interrupt
<1>4. CASE UNCHANGED vars
  BY <1>1, <1>4 DEF vars, procVars
<1> QED BY <1>2, <1>3, <1>4, RunKeepsExact DEF Next

LEMMA InitExactInv == Init => ExactInv
<1> SUFFICES ASSUME Init PROVE ExactInv
  OBVIOUS
<1>1. PICK n \in {0, 1} : /\ counter = [p \in Procs |-> n]
                          /\ n = 1 => program = "E1"
  BY DEF Init, ModularInit, TcpStateInit, CapperInit, MultiInit, TalkInit, UsernameInit,
     DiceInit, TimeInit, SerialInit, E1Init, ClockInit, Test01Init, CountFrom
<1>2. Server \in Procs /\ Clients \subseteq Procs /\ Server \notin Clients
  BY ForkServersAssumption DEF Procs
<1>3. PICK place \in {"accept", "ended"} :
          pc = [p \in Procs |-> IF p = Server THEN place ELSE "none"]
  BY DEF Init, ModularInit, TcpStateInit, CapperInit, MultiInit, TalkInit, UsernameInit,
     DiceInit, TimeInit, SerialInit, E1Init, ClockInit, Test01Init,
     BindChecked, BindUnchecked, Bound, At
<1>4. Forked = {} /\ Cardinality({}) = 0
  BY <1>2, <1>3, FS_EmptySet DEF Forked
<1>5. InHand = 0 /\ Owed = 0 /\ failures = 0
  BY <1>2, <1>3 DEF InHand, Owed, Init
<1>6. program \in Tellers => counter[Server] = 0
  BY <1>1, <1>2 DEF Tellers
<1> QED BY <1>4, <1>5, <1>6, ForkServersAssumption DEF ExactInv, Tellers

(* The servers that count their clients have counted exactly those that    *)
(* have a child, those whose fork() failed and the one in hand; sv_multi.c *)
(* keeps to its limit, and the time server has counted nobody.             *)
THEOREM CountsAreExact == Spec => []CountsWhoCame
<1>1. CountInv /\ ExactInv => CountsWhoCame
  BY DEF CountInv, TimeCounts, ExactInv, CountsWhoCame
<1> QED
  BY InitProcInv, NextProcInv, InitCountInv, NextCountInv, InitExactInv, NextExactInv, <1>1,
     PTL DEF Spec

=============================================================================
