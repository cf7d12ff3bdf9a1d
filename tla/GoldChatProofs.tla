--------------------------- MODULE GoldChatProofs ---------------------------
(***************************************************************************)
(* Proofs about GoldChat: every message gets to its receivers in the order *)
(* and with the number its sender gave it, and an echo is a receipt.       *)
(***************************************************************************)
EXTENDS GoldChat, SequenceTheorems, FiniteSetTheorems, WellFoundedInduction, TLAPS

(* How many messages of c its handler has read. *)
Read(c) == sentBy[c] - Len(up[c])

(* How many of them round i of the sending loop has passed on. *)
Passed(c, i) ==
    IF handler[c] \in {"send", "killed"} /\ slot[c] <= i THEN Read(c) - 1 ELSE Read(c)

Shapes ==
    /\ client \in [Clients -> {"off", "in", "left"}]
    /\ conn \in [Clients -> {"open", "fin", "reset"}]
    /\ backlog \in Seq(Clients)
    /\ clients \in [Slots -> Clients \cup {Free}]
    /\ sentBy \in [Clients -> Nat]
    /\ up \in [Clients -> Seq(Message)]
    /\ down \in [Clients -> Seq(Message)]
    /\ seen \in [Clients -> Seq(Message)]
    /\ handler \in [Clients -> {"none", "recv", "send", "gone", "killed"}]
    /\ view \in [Clients -> [Slots -> Clients \cup {Free}]]
    /\ msg \in [Clients -> Message \cup {NoMessage}]
    /\ slot \in [Clients -> Nat]
    /\ \A c \in Clients : Len(up[c]) <= sentBy[c]
    /\ \A c \in Clients : conn[c] = "open" <=> client[c] # "left"

InTable(c) == \E i \in Slots : clients[i] = c

(* Who waits to be accepted waits once, and is new to the parent. *)
Waiting ==
    /\ \A i, j \in 1..Len(backlog) : backlog[i] = backlog[j] => i = j
    /\ \A i \in 1..Len(backlog) :
           /\ handler[backlog[i]] = "none"
           /\ client[backlog[i]] # "off"
           /\ ~InTable(backlog[i])
    /\ \A c \in Clients : client[c] = "off" => handler[c] = "none" /\ ~InTable(c)

Distinct(t) == \A i, j \in Slots : t[i] = t[j] /\ t[i] # Free => i = j

(* The table fills from its first slot on. *)
Table ==
    /\ Distinct(clients)
    /\ \A i, j \in Slots : clients[i] = Free /\ i <= j => clients[j] = Free

(* A handler's own client is the last of its view. *)
Views ==
    \A c \in Clients :
        /\ Distinct(view[c])
        /\ \A i, j \in Slots : view[c][i] = c /\ view[c][j] # Free => j <= i
        /\ handler[c] = "none" => \A i \in Slots : view[c][i] = Free

(* A client's messages reach its handler in order, and the handler sends   *)
(* the last one that it read.                                              *)
Reading ==
    \A c \in Clients :
        /\ \A i \in 1..Len(up[c]) : up[c][i] = [from |-> c, n |-> Read(c) + i]
        /\ handler[c] = "none" => Read(c) = 0
        /\ handler[c] \in {"send", "killed"} =>
               /\ slot[c] \in Slots
               /\ Read(c) >= 1
               /\ msg[c] = [from |-> c, n |-> Read(c)]

(* Whoever stays gets what its slot has been passed, and nothing else. *)
Passing ==
    \A c, d \in Clients :
        /\ Heard(d, c) <= Read(c)
        /\ conn[d] = "open" /\ d \notin Targets(c) => Heard(d, c) = 0
        /\ conn[d] = "open" => \A i \in Slots : view[c][i] = d => Heard(d, c) = Passed(c, i)

Echoes ==
    \A c \in Clients : \A d \in Targets(c) :
        conn[d] = "open" => Heard(d, c) >= Heard(c, c)

GoldInv ==
    Shapes /\ Waiting /\ Table /\ Views /\ Reading /\ Passing /\ Echoes /\ InOrderWithoutGaps

-----------------------------------------------------------------------------

(* Sequences of messages. *)

(* The head of t moved to the end of s leaves the two together as they     *)
(* were.                                                                   *)
LEMMA MovedOver ==
    ASSUME NEW S, NEW s \in Seq(S), NEW t \in Seq(S), t # << >>
    PROVE  /\ Append(s, Head(t)) \in Seq(S) /\ Tail(t) \in Seq(S)
           /\ Append(s, Head(t)) \o Tail(t) = s \o t
<1>1. /\ Head(t) \in S /\ Tail(t) \in Seq(S)
      /\ Append(s, Head(t)) \in Seq(S)
      /\ <<Head(t)>> \in Seq(S)
  BY HeadTailProperties, AppendProperties
<1>2. Append(s, Head(t)) \o Tail(t) = s \o (<<Head(t)>> \o Tail(t))
  BY <1>1, AppendIsConcat, ConcatAssociative
<1>3. <<Head(t)>> \o Tail(t) = t
  BY <1>1
<1> QED BY <1>1, <1>2, <1>3

(* To append to the second of two sequences is to append to both. *)
LEMMA AppendedBehind ==
    ASSUME NEW S, NEW s \in Seq(S), NEW t \in Seq(S), NEW m \in S
    PROVE  s \o Append(t, m) = Append(s \o t, m)
<1>1. <<m>> \in Seq(S) /\ s \o t \in Seq(S)
  BY ConcatProperties
<1> QED BY <1>1, AppendIsConcat, ConcatAssociative

(* The number of messages from c in what is appended to. *)
LEMMA FromAppended ==
    ASSUME NEW s \in Seq(Message), NEW m \in Message, NEW c
    PROVE  /\ From(s, c) \in Nat
           /\ From(Append(s, m), c) = IF m.from = c THEN From(s, c) + 1 ELSE From(s, c)
<1> DEFINE P == {i \in DOMAIN s : s[i].from = c}
           t == Append(s, m)
<1>1. /\ t \in Seq(Message) /\ Len(t) = Len(s) + 1 /\ Len(s) \in Nat
      /\ DOMAIN s = 1..Len(s) /\ DOMAIN t = 1..Len(t)
      /\ \A i \in 1..Len(s) : t[i] = s[i]
      /\ t[Len(s) + 1] = m
  BY AppendProperties, LenProperties
<1>2. IsFiniteSet(P) /\ Cardinality(P) \in Nat
  <2>1. IsFiniteSet(1..Len(s))
    BY <1>1, FS_Interval
  <2>2. P \in SUBSET (1..Len(s))
    BY <1>1
  <2> QED BY <2>1, <2>2, FS_Subset, FS_CardinalityType
<1>3. Len(s) + 1 \notin P
  BY <1>1
<1> HIDE DEF t
<1>4. CASE m.from = c
  <2>1. {i \in DOMAIN t : t[i].from = c} = P \cup {Len(s) + 1}
    BY <1>1, <1>4
  <2> QED BY <1>2, <1>3, <1>4, <2>1, FS_AddElement DEF From, t
<1>5. CASE m.from # c
  <2>1. {i \in DOMAIN t : t[i].from = c} = P
    BY <1>1, <1>5
  <2> QED BY <1>2, <1>5, <2>1 DEF From, t
<1> QED BY <1>4, <1>5

(* There are no more messages from c in a beginning than in the whole. *)
LEMMA FromBeginning ==
    ASSUME NEW s \in Seq(Message), NEW t \in Seq(Message), NEW c
    PROVE  /\ From(s, c) \in Nat /\ From(s \o t, c) \in Nat
           /\ From(s, c) <= From(s \o t, c)
<1> DEFINE st == s \o t
           P == {i \in DOMAIN s : s[i].from = c}
           Q == {i \in DOMAIN st : st[i].from = c}
<1>1. /\ Len(s) \in Nat /\ Len(t) \in Nat /\ Len(st) \in Nat /\ Len(st) = Len(s) + Len(t)
      /\ DOMAIN s = 1..Len(s) /\ DOMAIN st = 1..Len(st)
      /\ \A i \in 1..Len(s) : st[i] = s[i]
  BY ConcatProperties, LenProperties
<1>2. IsFiniteSet(1..Len(st))
  BY <1>1, FS_Interval
<1> HIDE DEF st
<1>3. P \in SUBSET Q /\ Q \in SUBSET (1..Len(st))
  BY <1>1
<1>4. IsFiniteSet(Q) /\ IsFiniteSet(P)
  BY <1>2, <1>3, FS_Subset
<1>5. Cardinality(P) <= Cardinality(Q) /\ Cardinality(P) \in Nat /\ Cardinality(Q) \in Nat
  BY <1>3, <1>4, FS_Subset, FS_CardinalityType
<1> QED BY <1>5 DEF From, st

(* InOrderWithoutGaps for one sequence: the number of a message is its     *)
(* rank among its sender's.                                                *)
Ranked(s) ==
    \A i \in 1..Len(s) : s[i].n = Cardinality({j \in 1..i : s[j].from = s[i].from})

LEMMA RankedAppended ==
    ASSUME NEW s \in Seq(Message), Ranked(s),
           NEW m \in Message, m.n = From(s, m.from) + 1
    PROVE  Ranked(Append(s, m))
<1> DEFINE t == Append(s, m)
<1>1. /\ t \in Seq(Message) /\ Len(t) = Len(s) + 1 /\ Len(s) \in Nat
      /\ DOMAIN t = 1..Len(t)
      /\ \A i \in 1..Len(s) : t[i] = s[i]
      /\ t[Len(s) + 1] = m
  BY AppendProperties, LenProperties
<1>2. From(t, m.from) = m.n
  BY FromAppended
<1> HIDE DEF t
<1>3. ASSUME NEW i \in 1..Len(t)
      PROVE  t[i].n = Cardinality({j \in 1..i : t[j].from = t[i].from})
  <2>1. CASE i <= Len(s)
    <3>1. i \in 1..Len(s) /\ t[i] = s[i] /\ \A j \in 1..i : t[j] = s[j]
      BY <1>1, <2>1
    <3>2. {j \in 1..i : t[j].from = t[i].from} = {j \in 1..i : s[j].from = s[i].from}
      BY <3>1
    <3> QED BY <3>1, <3>2 DEF Ranked
  <2>2. CASE i = Len(s) + 1
    <3>1. t[i] = m /\ DOMAIN t = 1..i
      BY <1>1, <2>2
    <3>2. {j \in 1..i : t[j].from = t[i].from} = {j \in DOMAIN t : t[j].from = m.from}
      BY <3>1
    <3>3. Cardinality({j \in DOMAIN t : t[j].from = m.from}) = m.n
      BY <1>2 DEF From
    <3> QED BY <3>1, <3>2, <3>3
  <2>3. i <= Len(s) \/ i = Len(s) + 1
    BY <1>1
  <2> QED BY <2>1, <2>2, <2>3
<1> QED BY <1>3 DEF Ranked, t

LEMMA RankedBeginning ==
    ASSUME NEW s \in Seq(Message), NEW t \in Seq(Message), Ranked(s \o t)
    PROVE  Ranked(s)
<1> DEFINE st == s \o t
<1>1. /\ Len(s) \in Nat /\ Len(t) \in Nat /\ Len(st) = Len(s) + Len(t)
      /\ \A i \in 1..Len(s) : st[i] = s[i]
  BY ConcatProperties, LenProperties
<1>2. Ranked(st)
  OBVIOUS
<1> HIDE DEF st
<1>3. ASSUME NEW i \in 1..Len(s)
      PROVE  s[i].n = Cardinality({j \in 1..i : s[j].from = s[i].from})
  <2>1. i \in 1..Len(st) /\ st[i] = s[i] /\ \A j \in 1..i : st[j] = s[j]
    BY <1>1
  <2>2. {j \in 1..i : st[j].from = st[i].from} = {j \in 1..i : s[j].from = s[i].from}
    BY <2>1
  <2> QED BY <1>2, <2>1, <2>2 DEF Ranked
<1> QED BY <1>3 DEF Ranked

-----------------------------------------------------------------------------
(* The table. *)

LEMMA SmallestOfSet ==
    ASSUME NEW T \in SUBSET Nat, T # {}
    PROVE  \E x \in T : \A y \in T : x <= y
<1> DEFINE R == OpToRel(<, Nat)
<1>1. IsWellFoundedOn(R, Nat)
  BY NatLessThanWellFounded, Zenon
<1>2. \A x, y \in Nat : y < x => <<y, x>> \in R
  BY DEF OpToRel
<1> HIDE DEF R
<1>3. PICK x \in T : \A y \in T : ~(<<y, x>> \in R)
  BY <1>1, WFMin
<1>4. ASSUME NEW y \in T PROVE x <= y
  <2>1. ~(y < x)
    BY <1>2, <1>3
  <2> QED BY <2>1
<1> QED BY <1>4

(* What is put into the table goes behind all that is in it, if there is   *)
(* room, and it is the last then.                                          *)
LEMMA TableWithResult ==
    ASSUME Shapes, Table, NEW c \in Clients, ~InTable(c)
    PROVE  /\ TableWith(c) \in [Slots -> Clients \cup {Free}]
           /\ Distinct(TableWith(c))
           /\ \A i, j \in Slots : TableWith(c)[i] = Free /\ i <= j => TableWith(c)[j] = Free
           /\ \A i, j \in Slots : TableWith(c)[i] = c /\ TableWith(c)[j] # Free => j <= i
           /\ \A i \in Slots : TableWith(c)[i] = clients[i] \/ TableWith(c)[i] = c
<1>1. c # Free /\ MaxClients \in Nat /\ Slots = 1..MaxClients
  BY GoldChatAssumption DEF Slots
<1>2. CASE ~\E i \in Slots : clients[i] = Free
  BY <1>1, <1>2 DEF TableWith, Shapes, Table, InTable
<1>3. CASE \E i \in Slots : clients[i] = Free
  <2> DEFINE IsFirst(i) == clients[i] = Free /\ \A j \in 1..(i-1) : clients[j] # Free
             F == {i \in Slots : clients[i] = Free}
  <2>1. \E i \in Slots : IsFirst(i)
    <3>1. F \in SUBSET Nat /\ F # {}
      BY <1>1, <1>3
    <3>2. PICK i \in F : \A j \in F : i <= j
      BY <3>1, SmallestOfSet
    <3>3. ASSUME NEW j \in 1..(i-1) PROVE clients[j] # Free
      <4>1. j \in Slots /\ ~(i <= j)
        BY <1>1
      <4> QED BY <3>2, <4>1
    <3> QED BY <3>2, <3>3
  <2> DEFINE first == CHOOSE i \in Slots : IsFirst(i)
  <2>2. first \in Slots /\ IsFirst(first)
    BY <2>1
  <2>3. TableWith(c) = [clients EXCEPT ![first] = c]
    BY <1>3 DEF TableWith
  <2> HIDE DEF first
  <2>4. /\ clients \in [Slots -> Clients \cup {Free}]
        /\ \A j \in Slots : clients[j] = Free <=> first <= j
    BY <1>1, <2>2 DEF Shapes, Table
  <2>5. \A i \in Slots : TableWith(c)[i] = IF i = first THEN c ELSE clients[i]
    BY <2>3, <2>4
  <2>6. TableWith(c) \in [Slots -> Clients \cup {Free}]
    BY <2>3, <2>4
  <2>7. \A j \in Slots : TableWith(c)[j] = Free <=> first < j
    BY <1>1, <2>2, <2>4, <2>5
  <2>8. \A j \in Slots : TableWith(c)[j] = c <=> j = first
    BY <1>1, <2>2, <2>5 DEF InTable
  <2>9. Distinct(TableWith(c))
    BY <2>5, <2>8 DEF Distinct, Table
  <2> QED BY <1>1, <2>2, <2>5, <2>6, <2>7, <2>8, <2>9
<1> QED BY <1>2, <1>3

(* What a client got is a sequence of messages, from which the count of    *)
(* anybody's is a number.                                                  *)
LEMMA GotIsSequence ==
    ASSUME Shapes, NEW d \in Clients
    PROVE  Got(d) \in Seq(Message) /\ \A c : Heard(d, c) \in Nat
<1>1. Got(d) \in Seq(Message)
  BY ConcatProperties DEF Shapes, Got
<1>2. << >> \in Seq(Message)
  OBVIOUS
<1> QED BY <1>1, <1>2, FromBeginning DEF Heard

-----------------------------------------------------------------------------
(* The invariant holds at first. *)

LEMMA InitGoldInv == Init => GoldInv
<1> SUFFICES ASSUME Init PROVE GoldInv
  OBVIOUS
<1>1. << >> \in Seq(Message) /\ << >> \in Seq(Clients) /\ Len(<< >>) = 0
  OBVIOUS
<1>2. Free \notin Clients
  BY GoldChatAssumption
<1>3. Shapes
  BY <1>1 DEF Init, Shapes
<1>4. \A c \in Clients : Read(c) = 0 /\ Len(up[c]) = 0 /\ Got(c) = << >>
  BY <1>1 DEF Init, Read, Got
<1>5. \A c, d \in Clients : Heard(d, c) = 0
  <2> SUFFICES ASSUME NEW c \in Clients, NEW d \in Clients PROVE Heard(d, c) = 0
    OBVIOUS
  <2>1. {i \in DOMAIN << >> : << >>[i].from = c} = {}
    OBVIOUS
  <2> QED BY <1>4, <2>1, FS_EmptySet DEF Heard, From
<1>6. Waiting /\ Table /\ Views
  BY <1>1, <1>2 DEF Init, Waiting, Table, Views, Distinct, InTable
<1>7. Reading
  BY <1>1, <1>4 DEF Init, Reading
<1>8. \A c \in Clients : Targets(c) = {} /\ \A i \in Slots : view[c][i] = Free
  BY DEF Init, Targets
<1>9. Passing /\ Echoes
  BY <1>2, <1>4, <1>5, <1>8 DEF Passing, Echoes
<1>10. InOrderWithoutGaps
  BY <1>1, <1>4 DEF InOrderWithoutGaps
<1> QED BY <1>3, <1>6, <1>7, <1>9, <1>10 DEF GoldInv

-----------------------------------------------------------------------------
(* What the steps do. *)

(* Whom the parent accepts is new to it. *)
AcceptsOne(c) ==
    /\ backlog # << >>
    /\ c = backlog[1]
    /\ backlog' = Tail(backlog)
    /\ clients' = TableWith(c)
    /\ \/ /\ handler' = [handler EXCEPT ![c] = "recv"]
          /\ view' = [view EXCEPT ![c] = TableWith(c)]
       \/ UNCHANGED <<handler, view>>
    /\ UNCHANGED <<clientVars, conn, up, down, msg, slot>>

LEMMA AcceptResult ==
    ASSUME GoldInv, Accept
    PROVE  \E c \in Clients :
               AcceptsOne(c) /\ handler[c] = "none" /\ client[c] # "off" /\ ~InTable(c)
<1>1. backlog \in Seq(Clients) /\ backlog # << >>
  BY DEF GoldInv, Shapes, Accept
<1>2. Head(backlog) = backlog[1] /\ Head(backlog) \in Clients /\ 1 \in 1..Len(backlog)
  BY <1>1
<1>3. AcceptsOne(Head(backlog))
  BY <1>1, <1>2 DEF Accept, AcceptsOne
<1> QED BY <1>2, <1>3 DEF GoldInv, Waiting

(* A round of the sending loop kills the handler, does nothing, or sends. *)
Killed(c) ==
    /\ handler' = [handler EXCEPT ![c] = "killed"]
    /\ UNCHANGED <<slot, conn, down>>

Moves(c) ==
    /\ handler' = [handler EXCEPT ![c] = IF slot[c] = MaxClients THEN "recv" ELSE "send"]
    /\ slot' = [slot EXCEPT ![c] = @ + 1]

LEMMA BroadcastResult ==
    ASSUME GoldInv, NEW c \in Clients, Broadcast(c)
    PROVE  /\ handler[c] = "send" /\ slot[c] \in Slots
           /\ UNCHANGED <<clientVars, backlog, clients, up, view, msg, forkFailures>>
           /\ \/ Killed(c)
              \/ Moves(c) /\ view[c][slot[c]] = Free /\ UNCHANGED <<conn, down>>
              \/ /\ Moves(c) /\ view[c][slot[c]] \in Clients
                 /\ Deliver(view[c][slot[c]], msg[c])
<1>1. handler[c] = "send" /\ slot[c] \in Slots
  BY DEF Broadcast, GoldInv, Reading
<1>2. view[c][slot[c]] \in Clients \cup {Free}
  BY <1>1 DEF GoldInv, Shapes
<1> QED BY <1>1, <1>2 DEF Broadcast, Killed, Moves, LoopSlot, Ends

LEMMA MessageRead ==
    ASSUME GoldInv, NEW c \in Clients, handler[c] = "send"
    PROVE  msg[c] \in Message /\ msg[c].from = c /\ msg[c].n = Read(c)
<1>1. sentBy[c] \in Nat /\ Len(up[c]) \in Nat /\ Len(up[c]) <= sentBy[c]
  BY LenProperties DEF GoldInv, Shapes
<1>2. Read(c) \in Nat
  BY <1>1 DEF Read
<1>3. msg[c] = [from |-> c, n |-> Read(c)]
  BY DEF GoldInv, Reading
<1> QED BY <1>2, <1>3 DEF Message

-----------------------------------------------------------------------------
(* The parts of the invariant, one after the other. *)

LEMMA NextShapes ==
    ASSUME GoldInv, [Next]_goldVars
    PROVE  Shapes'
<1>1. CASE UNCHANGED goldVars
  BY <1>1 DEF goldVars, GoldInv, Shapes
<1>2. CASE \E c \in Clients : Connect(c)
  BY <1>2 DEF Connect, handlerVars, GoldInv, Shapes
<1>3. ASSUME NEW c \in Clients, Send(c) PROVE Shapes'
  <2>1. [from |-> c, n |-> sentBy[c] + 1] \in Message
    BY DEF Message, GoldInv, Shapes
  <2>2. up'[c] \in Seq(Message) /\ Len(up'[c]) = Len(up[c]) + 1
    BY <1>3, <2>1, AppendProperties DEF Send, GoldInv, Shapes
  <2>3. \A d \in Clients : Len(up'[d]) <= sentBy'[d]
    <3> SUFFICES ASSUME NEW d \in Clients PROVE Len(up'[d]) <= sentBy'[d]
      OBVIOUS
    <3>1. Len(up[d]) \in Nat /\ sentBy[d] \in Nat /\ Len(up[d]) <= sentBy[d]
      BY LenProperties DEF GoldInv, Shapes
    <3> QED BY <1>3, <2>2, <3>1 DEF Send, GoldInv, Shapes
  <2> QED BY <1>3, <2>1, <2>2, <2>3 DEF Send, handlerVars, GoldInv, Shapes
<1>4. ASSUME NEW c \in Clients, Show(c) PROVE Shapes'
  BY <1>4, MovedOver DEF Show, handlerVars, GoldInv, Shapes
<1>5. CASE \E c \in Clients : Leave(c)
  BY <1>5, EmptySeq DEF Leave, handlerVars, GoldInv, Shapes
<1>6. CASE Accept
  <2>1. PICK c \in Clients : AcceptsOne(c) /\ ~InTable(c)
    BY <1>6, AcceptResult
  <2>2. TableWith(c) \in [Slots -> Clients \cup {Free}]
    BY <2>1, TableWithResult DEF GoldInv
  <2>3. Tail(backlog) \in Seq(Clients)
    BY <2>1, HeadTailProperties DEF AcceptsOne, GoldInv, Shapes
  <2>4. /\ handler' \in [Clients -> {"none", "recv", "send", "gone", "killed"}]
        /\ view' \in [Clients -> [Slots -> Clients \cup {Free}]]
    <3>1. /\ handler \in [Clients -> {"none", "recv", "send", "gone", "killed"}]
          /\ view \in [Clients -> [Slots -> Clients \cup {Free}]]
      BY DEF GoldInv, Shapes
    <3>2. \/ /\ handler' = [handler EXCEPT ![c] = "recv"]
             /\ view' = [view EXCEPT ![c] = TableWith(c)]
          \/ handler' = handler /\ view' = view
      BY <2>1 DEF AcceptsOne
    <3> QED BY <2>2, <3>1, <3>2
  <2>5. /\ clients' = TableWith(c) /\ backlog' = Tail(backlog)
        /\ UNCHANGED <<client, sentBy, seen, conn, up, down, msg, slot>>
    BY <2>1 DEF AcceptsOne, clientVars
  <2> QED BY <2>2, <2>3, <2>4, <2>5 DEF GoldInv, Shapes
<1>7. ASSUME NEW c \in Clients, Receive(c) PROVE Shapes'
  <2>1. /\ Head(up[c]) \in Message /\ Tail(up[c]) \in Seq(Message)
        /\ Len(Tail(up[c])) = Len(up[c]) - 1
    BY <1>7, HeadTailProperties DEF Receive, GoldInv, Shapes
  <2>2. \A d \in Clients : Len(up'[d]) <= sentBy'[d]
    <3> SUFFICES ASSUME NEW d \in Clients PROVE Len(up'[d]) <= sentBy'[d]
      OBVIOUS
    <3>1. Len(up[d]) \in Nat /\ sentBy[d] \in Nat /\ Len(up[d]) <= sentBy[d]
      BY LenProperties DEF GoldInv, Shapes
    <3> QED BY <1>7, <2>1, <3>1 DEF Receive, clientVars, GoldInv, Shapes
  <2> QED BY <1>7, <2>1, <2>2 DEF Receive, clientVars, GoldInv, Shapes
<1>8. ASSUME NEW c \in Clients, Disconnect(c) PROVE Shapes'
  <2>1. [i \in Slots |-> IF view[c][i] = c THEN Free ELSE view[c][i]]
            \in [Slots -> Clients \cup {Free}]
    BY DEF GoldInv, Shapes
  <2> QED BY <1>8, <2>1 DEF Disconnect, clientVars, GoldInv, Shapes
<1>9. ASSUME NEW c \in Clients, Broadcast(c) PROVE Shapes'
  <2>1. /\ handler' \in [Clients -> {"none", "recv", "send", "gone", "killed"}]
        /\ slot' \in [Clients -> Nat]
    <3>1. Killed(c) \/ Moves(c)
      BY <1>9, BroadcastResult
    <3>2. /\ handler \in [Clients -> {"none", "recv", "send", "gone", "killed"}]
          /\ slot \in [Clients -> Nat]
      BY DEF GoldInv, Shapes
    <3> QED BY <3>1, <3>2 DEF Killed, Moves
  <2>2. /\ down' \in [Clients -> Seq(Message)]
        /\ conn' \in [Clients -> {"open", "fin", "reset"}]
        /\ \A d \in Clients : conn'[d] = "open" <=> conn[d] = "open"
    <3>1. CASE UNCHANGED <<conn, down>>
      BY <3>1 DEF GoldInv, Shapes
    <3>2. CASE ~UNCHANGED <<conn, down>>
      <4>1. PICK d \in Clients : Deliver(d, msg[c])
        BY <1>9, <3>2, BroadcastResult DEF Killed
      <4>2. msg[c] \in Message
        BY <1>9, BroadcastResult, MessageRead
      <4>3. \A s \in Seq(Message) : Append(s, msg[c]) \in Seq(Message)
        BY <4>2
      <4> QED BY <4>1, <4>3 DEF Deliver, GoldInv, Shapes
    <3> QED BY <3>1, <3>2
  <2>3. UNCHANGED <<client, sentBy, seen, backlog, clients, up, view, msg>>
    BY <1>9, BroadcastResult DEF clientVars
  <2> QED BY <2>1, <2>2, <2>3 DEF GoldInv, Shapes
<1> QED
  BY <1>1, <1>2, <1>3, <1>4, <1>5, <1>6, <1>7, <1>8, <1>9 DEF Next

LEMMA NextWaiting ==
    ASSUME GoldInv, [Next]_goldVars
    PROVE  Waiting'
<1> USE DEF InTable
<1>0. /\ \A i \in 1..Len(backlog) : backlog[i] \in Clients
      /\ client \in [Clients -> {"off", "in", "left"}]
  <2>1. backlog \in Seq(Clients) /\ client \in [Clients -> {"off", "in", "left"}]
    BY DEF GoldInv, Shapes
  <2>2. \A i \in 1..Len(backlog) : backlog[i] \in Clients
    BY <2>1
  <2> QED BY <2>1, <2>2
<1>1. CASE UNCHANGED goldVars
  BY <1>1 DEF goldVars, GoldInv, Waiting
<1>2. ASSUME NEW c \in Clients, Connect(c) PROVE Waiting'
  <2>1. /\ backlog' \in Seq(Clients) /\ Len(backlog') = Len(backlog) + 1 /\ Len(backlog) \in Nat
        /\ \A i \in 1..Len(backlog) : backlog'[i] = backlog[i] /\ backlog[i] \in Clients
        /\ backlog'[Len(backlog) + 1] = c
    BY <1>2, AppendProperties, LenProperties DEF Connect, GoldInv, Shapes
  <2>2. /\ client[c] = "off" /\ client' = [client EXCEPT ![c] = "in"]
        /\ UNCHANGED <<handler, clients>>
        /\ client \in [Clients -> {"off", "in", "left"}]
    BY <1>2 DEF Connect, handlerVars, GoldInv, Shapes
  <2>3. \A i \in 1..Len(backlog) : backlog[i] # c
    BY <2>2 DEF GoldInv, Waiting
  <2>4. handler[c] = "none" /\ ~InTable(c)
    BY <2>2 DEF GoldInv, Waiting
  <2>5. \A i, j \in 1..Len(backlog') : backlog'[i] = backlog'[j] => i = j
    BY <2>1, <2>3 DEF GoldInv, Waiting
  <2>6. \A i \in 1..Len(backlog') :
            /\ handler[backlog'[i]] = "none"
            /\ client'[backlog'[i]] # "off"
            /\ ~InTable(backlog'[i])
    <3> SUFFICES ASSUME NEW i \in 1..Len(backlog')
                 PROVE  /\ handler[backlog'[i]] = "none"
                        /\ client'[backlog'[i]] # "off"
                        /\ ~InTable(backlog'[i])
      OBVIOUS
    <3>1. CASE i \in 1..Len(backlog)
      BY <2>1, <2>2, <3>1 DEF GoldInv, Waiting
    <3>2. CASE i = Len(backlog) + 1
      BY <2>1, <2>2, <2>4, <3>2
    <3> QED BY <2>1, <3>1, <3>2
  <2>7. \A d \in Clients : client'[d] = "off" => handler[d] = "none" /\ ~InTable(d)
    BY <2>2 DEF GoldInv, Waiting
  <2> QED BY <2>2, <2>5, <2>6, <2>7 DEF Waiting
<1>3. CASE \E c \in Clients : Send(c) \/ Show(c)
  BY <1>3 DEF Send, Show, handlerVars, GoldInv, Waiting
<1>4. ASSUME NEW c \in Clients, Leave(c) PROVE Waiting'
  <2>1. /\ client' = [client EXCEPT ![c] = "left"] /\ client[c] = "in"
        /\ UNCHANGED <<handler, clients, backlog>>
    BY <1>4 DEF Leave, handlerVars
  <2>2. \A d \in Clients : client'[d] = "off" <=> client[d] = "off"
    BY <1>0, <2>1
  <2> QED BY <1>0, <2>1, <2>2 DEF GoldInv, Waiting
<1>5. CASE Accept
  <2>1. PICK c \in Clients : AcceptsOne(c) /\ client[c] # "off" /\ ~InTable(c)
    BY <1>5, AcceptResult
  <2>2. \A i \in Slots : clients'[i] = clients[i] \/ clients'[i] = c
    BY <2>1, TableWithResult DEF AcceptsOne, GoldInv
  <2>3. /\ backlog \in Seq(Clients) /\ backlog # << >> /\ Len(backlog) \in Nat
        /\ backlog' = Tail(backlog) /\ c = backlog[1] /\ client' = client
        /\ handler \in [Clients -> {"none", "recv", "send", "gone", "killed"}]
        /\ handler' \in {handler, [handler EXCEPT ![c] = "recv"]}
    BY <2>1, LenProperties DEF AcceptsOne, clientVars, GoldInv, Shapes
  <2>4. /\ Len(backlog') = Len(backlog) - 1 /\ Len(backlog) # 0
        /\ \A i \in 1..Len(backlog') : backlog'[i] = backlog[i+1] /\ backlog'[i] \in Clients
    BY <2>3, HeadTailProperties, EmptySeq, LenProperties
  <2>5. \A i \in 1..Len(backlog') : i + 1 \in 1..Len(backlog) /\ 1 \in 1..Len(backlog) /\ i + 1 # 1
    BY <2>3, <2>4
  <2>6. \A i \in 1..Len(backlog') : backlog'[i] # c
    BY <2>3, <2>4, <2>5 DEF GoldInv, Waiting
  <2>7. \A i, j \in 1..Len(backlog') : backlog'[i] = backlog'[j] => i = j
    <3> SUFFICES ASSUME NEW i \in 1..Len(backlog'), NEW j \in 1..Len(backlog'),
                        backlog'[i] = backlog'[j]
                 PROVE  i = j
      OBVIOUS
    <3>1. /\ i + 1 \in 1..Len(backlog) /\ j + 1 \in 1..Len(backlog)
          /\ backlog[i+1] = backlog[j+1]
      BY <2>4, <2>5
    <3>2. \A k, l \in 1..Len(backlog) : backlog[k] = backlog[l] => k = l
      BY DEF GoldInv, Waiting
    <3>3. i + 1 = j + 1
      BY <3>1, <3>2
    <3> QED BY <2>3, <2>4, <3>3
  <2>8. ASSUME NEW d \in Clients, d # c
        PROVE  /\ handler'[d] = handler[d]
               /\ (\E i \in Slots : clients'[i] = d) => InTable(d)
    BY <2>2, <2>3, <2>8
  <2>9. \A i \in 1..Len(backlog') :
            /\ handler'[backlog'[i]] = "none"
            /\ client'[backlog'[i]] # "off"
            /\ ~\E s \in Slots : clients'[s] = backlog'[i]
    <3> SUFFICES ASSUME NEW i \in 1..Len(backlog')
                 PROVE  /\ handler'[backlog'[i]] = "none"
                        /\ client'[backlog'[i]] # "off"
                        /\ ~\E s \in Slots : clients'[s] = backlog'[i]
      OBVIOUS
    <3>1. /\ backlog'[i] = backlog[i+1] /\ backlog'[i] \in Clients /\ backlog'[i] # c
          /\ i + 1 \in 1..Len(backlog)
      BY <2>4, <2>5, <2>6
    <3>2. /\ handler[backlog[i+1]] = "none" /\ client[backlog[i+1]] # "off"
          /\ ~InTable(backlog[i+1])
      BY <3>1 DEF GoldInv, Waiting
    <3> QED BY <2>3, <2>8, <3>1, <3>2
  <2>10. \A d \in Clients : client'[d] = "off" => handler'[d] = "none" /\ ~InTable(d)'
    BY <2>1, <2>3, <2>8 DEF GoldInv, Waiting
  <2> QED BY <2>7, <2>9, <2>10 DEF Waiting
<1>6. ASSUME NEW c \in Clients, Receive(c) \/ Disconnect(c) \/ Broadcast(c) PROVE Waiting'
  <2>1. handler[c] \in {"recv", "send"} /\ UNCHANGED <<client, clients, backlog>>
    BY <1>6 DEF Receive, Reads, Disconnect, Broadcast, clientVars
  <2>2. \A d \in Clients : d # c => handler'[d] = handler[d]
    <3>1. handler \in [Clients -> {"none", "recv", "send", "gone", "killed"}]
      BY DEF GoldInv, Shapes
    <3>2. CASE Broadcast(c)
      BY <3>1, <3>2, BroadcastResult DEF Killed, Moves, GoldInv
    <3>3. CASE Receive(c) \/ Disconnect(c)
      BY <3>1, <3>3 DEF Receive, Disconnect
    <3> QED BY <1>6, <3>2, <3>3
  <2>3. \A i \in 1..Len(backlog) : backlog[i] \in Clients /\ backlog[i] # c
    BY <1>0, <2>1 DEF GoldInv, Waiting
  <2>4. client[c] # "off"
    BY <2>1 DEF GoldInv, Waiting
  <2> QED BY <2>1, <2>2, <2>3, <2>4 DEF GoldInv, Waiting
<1> QED BY <1>1, <1>2, <1>3, <1>4, <1>5, <1>6 DEF Next

LEMMA NextTable ==
    ASSUME GoldInv, [Next]_goldVars
    PROVE  Table'
<1>1. CASE UNCHANGED clients
  BY <1>1 DEF GoldInv, Table, Distinct
<1>2. CASE Accept
  <2>1. PICK c \in Clients : AcceptsOne(c) /\ ~InTable(c)
    BY <1>2, AcceptResult
  <2> QED BY <2>1, TableWithResult DEF AcceptsOne, GoldInv, Table, Distinct
<1>3. CASE Next /\ ~Accept
  <2>1. PICK c \in Clients : \/ Connect(c) \/ Send(c) \/ Show(c) \/ Leave(c)
                             \/ Receive(c) \/ Disconnect(c) \/ Broadcast(c)
    BY <1>3 DEF Next
  <2>2. UNCHANGED clients
    BY <2>1 DEF Connect, Send, Show, Leave, Receive, Disconnect, Broadcast
  <2> QED BY <1>1, <2>2
<1> QED BY <1>1, <1>2, <1>3 DEF goldVars

LEMMA NextViews ==
    ASSUME GoldInv, [Next]_goldVars
    PROVE  Views'
<1> SUFFICES ASSUME NEW d \in Clients
             PROVE  /\ Distinct(view'[d])
                    /\ \A i, j \in Slots : view'[d][i] = d /\ view'[d][j] # Free => j <= i
                    /\ handler'[d] = "none" => \A i \in Slots : view'[d][i] = Free
  BY DEF Views
<1>1. /\ Distinct(view[d])
      /\ \A i, j \in Slots : view[d][i] = d /\ view[d][j] # Free => j <= i
      /\ handler[d] = "none" => \A i \in Slots : view[d][i] = Free
      /\ handler \in [Clients -> {"none", "recv", "send", "gone", "killed"}]
      /\ view \in [Clients -> [Slots -> Clients \cup {Free}]]
      /\ Free \notin Clients
  BY GoldChatAssumption DEF GoldInv, Views, Shapes
<1>2. CASE view'[d] = view[d] /\ (handler'[d] = "none" => handler[d] = "none")
  BY <1>1, <1>2
<1>3. CASE Accept
  <2>1. PICK c \in Clients : AcceptsOne(c) /\ ~InTable(c)
    BY <1>3, AcceptResult
  <2>2. \/ /\ handler' = [handler EXCEPT ![c] = "recv"]
           /\ view' = [view EXCEPT ![c] = TableWith(c)]
        \/ handler' = handler /\ view' = view
    BY <2>1 DEF AcceptsOne
  <2>3. CASE d = c /\ view' # view
    <3>1. view'[d] = TableWith(c) /\ handler'[d] = "recv"
      BY <1>1, <2>2, <2>3
    <3> QED BY <2>1, <2>3, <3>1, TableWithResult DEF GoldInv
  <2>4. CASE d # c \/ view' = view
    BY <1>1, <1>2, <2>2, <2>4
  <2> QED BY <2>3, <2>4
<1>4. CASE Disconnect(d)
  <2>1. /\ view'[d] = [i \in Slots |-> IF view[d][i] = d THEN Free ELSE view[d][i]]
        /\ handler'[d] = "gone"
    BY <1>1, <1>4 DEF Disconnect
  <2>2. \A i \in Slots : view'[d][i] = IF view[d][i] = d THEN Free ELSE view[d][i]
    BY <2>1
  <2> QED BY <1>1, <2>1, <2>2 DEF Distinct
<1>5. CASE UNCHANGED goldVars
  BY <1>1, <1>5 DEF goldVars
<1>6. CASE Next /\ ~Accept /\ ~Disconnect(d)
  <2>1. PICK c \in Clients : \/ Connect(c) \/ Send(c) \/ Show(c) \/ Leave(c)
                             \/ Receive(c) \/ (Disconnect(c) /\ c # d) \/ Broadcast(c)
    BY <1>6 DEF Next
  <2>2. view'[d] = view[d]
    BY <1>1, <2>1 DEF Connect, Send, Show, Leave, Receive, Disconnect, Broadcast, handlerVars
  <2>3. handler'[d] = "none" => handler[d] = "none"
    <3>1. CASE Broadcast(c)
      BY <1>1, <3>1, BroadcastResult DEF Killed, Moves
    <3>2. CASE ~Broadcast(c)
      BY <1>1, <2>1, <3>2 DEF Connect, Send, Show, Leave, Receive, Disconnect, handlerVars
    <3> QED BY <3>1, <3>2
  <2> QED BY <1>2, <2>2, <2>3
<1> QED BY <1>3, <1>4, <1>5, <1>6

LEMMA ReadIsNumber ==
    ASSUME Shapes, NEW c \in Clients
    PROVE  sentBy[c] \in Nat /\ Len(up[c]) \in Nat /\ Read(c) \in Nat /\ up[c] \in Seq(Message)
<1>1. up[c] \in Seq(Message) /\ sentBy[c] \in Nat /\ Len(up[c]) <= sentBy[c]
  BY DEF Shapes
<1>2. Len(up[c]) \in Nat
  BY <1>1, LenProperties
<1> QED BY <1>1, <1>2 DEF Read

(* To send leaves what was read as it was. *)
LEMMA SendKeepsRead ==
    ASSUME Shapes, NEW c \in Clients, Send(c)
    PROVE  /\ Read(c)' = Read(c)
           /\ Len(up'[c]) = Len(up[c]) + 1
           /\ \A i \in 1..Len(up[c]) : up'[c][i] = up[c][i]
           /\ up'[c][Len(up[c]) + 1] = [from |-> c, n |-> Read(c) + Len(up[c]) + 1]
           /\ \A d \in Clients : d # c => up'[d] = up[d] /\ sentBy'[d] = sentBy[d]
           /\ UNCHANGED <<client, conn, seen, down, handlerVars>>
<1> DEFINE m == [from |-> c, n |-> sentBy[c] + 1]
<1>1. /\ sentBy[c] \in Nat /\ Len(up[c]) \in Nat /\ Read(c) \in Nat /\ up[c] \in Seq(Message)
      /\ sentBy \in [Clients -> Nat] /\ up \in [Clients -> Seq(Message)]
  BY ReadIsNumber DEF Shapes
<1>2. m \in Message
  BY <1>1 DEF Message
<1>3. m = [from |-> c, n |-> Read(c) + Len(up[c]) + 1]
  BY <1>1 DEF Read
<1> HIDE DEF m
<1>4. sentBy'[c] = sentBy[c] + 1 /\ up'[c] = Append(up[c], m)
  BY <1>1 DEF Send, m
<1>5. /\ Len(up'[c]) = Len(up[c]) + 1
      /\ \A i \in 1..Len(up[c]) : up'[c][i] = up[c][i]
      /\ up'[c][Len(up[c]) + 1] = m
  BY <1>1, <1>2, <1>4, AppendProperties
<1>6. Read(c)' = Read(c)
  BY <1>1, <1>4, <1>5 DEF Read
<1> QED BY <1>1, <1>3, <1>5, <1>6 DEF Send

(* To receive reads one more, and that is what is going to be sent. *)
LEMMA ReceiveReads ==
    ASSUME Shapes, Reading, NEW c \in Clients, Receive(c)
    PROVE  /\ Read(c)' = Read(c) + 1
           /\ Len(up'[c]) = Len(up[c]) - 1
           /\ \A i \in 1..Len(up'[c]) : up'[c][i] = up[c][i+1]
           /\ handler[c] = "recv" /\ handler'[c] = "send" /\ slot'[c] = 1
           /\ msg'[c] = [from |-> c, n |-> Read(c) + 1]
           /\ \A d \in Clients : d # c => /\ up'[d] = up[d]
                                          /\ handler'[d] = handler[d]
                                          /\ slot'[d] = slot[d]
                                          /\ msg'[d] = msg[d]
           /\ UNCHANGED <<client, sentBy, seen, conn, down, view>>
<1>1. /\ sentBy[c] \in Nat /\ Len(up[c]) \in Nat /\ Read(c) \in Nat /\ up[c] \in Seq(Message)
      /\ up \in [Clients -> Seq(Message)]
  BY ReadIsNumber DEF Shapes
<1>2. up[c] # << >> /\ up'[c] = Tail(up[c]) /\ msg' = [msg EXCEPT ![c] = Head(up[c])]
  BY <1>1 DEF Receive
<1>3. /\ Len(up[c]) \in Nat \ {0} /\ Head(up[c]) = up[c][1]
      /\ Len(up'[c]) = Len(up[c]) - 1
      /\ \A i \in 1..Len(up'[c]) : up'[c][i] = up[c][i+1]
  BY <1>1, <1>2, HeadTailProperties, EmptySeq
<1>4. up[c][1] = [from |-> c, n |-> Read(c) + 1]
  <2>1. 1 \in 1..Len(up[c])
    BY <1>3
  <2> QED BY <2>1 DEF Reading
<1>5. sentBy' = sentBy
  BY DEF Receive, clientVars
<1>6. Read(c)' = Read(c) + 1
  BY <1>1, <1>3, <1>5 DEF Read
<1>7. msg'[c] = [from |-> c, n |-> Read(c) + 1]
  BY <1>2, <1>3, <1>4 DEF Shapes
<1>8. /\ handler[c] = "recv" /\ handler'[c] = "send" /\ slot'[c] = 1
      /\ \A d \in Clients : d # c => /\ up'[d] = up[d]
                                     /\ handler'[d] = handler[d]
                                     /\ slot'[d] = slot[d]
                                     /\ msg'[d] = msg[d]
      /\ UNCHANGED <<client, sentBy, seen, conn, down, view>>
  BY DEF Receive, Reads, clientVars, Shapes
<1> QED BY <1>3, <1>6, <1>7, <1>8

LEMMA NextReading ==
    ASSUME GoldInv, [Next]_goldVars
    PROVE  Reading'
<1> SUFFICES ASSUME NEW d \in Clients
             PROVE  /\ \A i \in 1..Len(up'[d]) : up'[d][i] = [from |-> d, n |-> Read(d)' + i]
                    /\ handler'[d] = "none" => Read(d)' = 0
                    /\ handler'[d] \in {"send", "killed"} =>
                           /\ slot'[d] \in Slots
                           /\ Read(d)' >= 1
                           /\ msg'[d] = [from |-> d, n |-> Read(d)']
  BY DEF Reading
<1>1. /\ \A i \in 1..Len(up[d]) : up[d][i] = [from |-> d, n |-> Read(d) + i]
      /\ handler[d] = "none" => Read(d) = 0
      /\ handler[d] \in {"send", "killed"} =>
             /\ slot[d] \in Slots
             /\ Read(d) >= 1
             /\ msg[d] = [from |-> d, n |-> Read(d)]
  BY DEF GoldInv, Reading
<1>2. /\ Read(d) \in Nat /\ Len(up[d]) \in Nat /\ Shapes
      /\ MaxClients \in Nat \ {0} /\ Slots = 1..MaxClients
  BY ReadIsNumber, GoldChatAssumption DEF GoldInv, Slots
<1>3. CASE /\ up'[d] = up[d] /\ sentBy'[d] = sentBy[d]
           /\ slot'[d] = slot[d] /\ msg'[d] = msg[d]
           /\ handler'[d] = "none" => handler[d] = "none"
           /\ handler'[d] \in {"send", "killed"} => handler[d] \in {"send", "killed"}
  <2>1. Read(d)' = Read(d)
    BY <1>3 DEF Read
  <2> QED BY <1>1, <1>3, <2>1
<1>4. CASE UNCHANGED goldVars
  BY <1>3, <1>4 DEF goldVars
<1>5. ASSUME NEW c \in Clients, Connect(c) \/ Show(c) \/ Leave(c) PROVE UNCHANGED <<up, sentBy, handlerVars>>
  BY <1>5 DEF Connect, Show, Leave
<1>6. CASE \E c \in Clients : Connect(c) \/ Show(c) \/ Leave(c)
  BY <1>3, <1>5, <1>6 DEF handlerVars
<1>7. ASSUME NEW c \in Clients, Send(c)
      PROVE  /\ \A i \in 1..Len(up'[d]) : up'[d][i] = [from |-> d, n |-> Read(d)' + i]
             /\ handler'[d] = "none" => Read(d)' = 0
             /\ handler'[d] \in {"send", "killed"} =>
                    /\ slot'[d] \in Slots
                    /\ Read(d)' >= 1
                    /\ msg'[d] = [from |-> d, n |-> Read(d)']
  <2>1. UNCHANGED <<handler, slot, msg>>
    BY <1>2, <1>7, SendKeepsRead DEF handlerVars
  <2>2. CASE d # c
    BY <1>2, <1>3, <1>7, <2>1, <2>2, SendKeepsRead
  <2>3. CASE d = c
    <3>1. /\ Read(d)' = Read(d) /\ Len(up'[d]) = Len(up[d]) + 1
          /\ \A i \in 1..Len(up[d]) : up'[d][i] = up[d][i]
          /\ up'[d][Len(up[d]) + 1] = [from |-> d, n |-> Read(d) + Len(up[d]) + 1]
      BY <1>2, <1>7, <2>3, SendKeepsRead
    <3>2. ASSUME NEW i \in 1..Len(up'[d]) PROVE up'[d][i] = [from |-> d, n |-> Read(d)' + i]
      <4>1. CASE i \in 1..Len(up[d])
        BY <1>1, <3>1, <4>1
      <4>2. CASE i = Len(up[d]) + 1
        <5>1. Read(d) + Len(up[d]) + 1 = Read(d)' + i
          BY <1>2, <3>1, <4>2
        <5> QED BY <3>1, <4>2, <5>1
      <4>3. i \in 1..Len(up[d]) \/ i = Len(up[d]) + 1
        BY <1>2, <3>1
      <4> QED BY <4>1, <4>2, <4>3
    <3> QED BY <1>1, <2>1, <3>1, <3>2
  <2> QED BY <2>2, <2>3
<1>8. CASE Accept
  <2>1. PICK c \in Clients : AcceptsOne(c)
    BY <1>8, AcceptResult
  <2>2. UNCHANGED <<up, sentBy, slot, msg>>
    BY <2>1 DEF AcceptsOne, clientVars
  <2>3. handler' = [handler EXCEPT ![c] = "recv"] \/ handler' = handler
    BY <2>1 DEF AcceptsOne
  <2> QED BY <1>2, <1>3, <2>2, <2>3 DEF Shapes
<1>9. ASSUME NEW c \in Clients, Receive(c)
      PROVE  /\ \A i \in 1..Len(up'[d]) : up'[d][i] = [from |-> d, n |-> Read(d)' + i]
             /\ handler'[d] = "none" => Read(d)' = 0
             /\ handler'[d] \in {"send", "killed"} =>
                    /\ slot'[d] \in Slots
                    /\ Read(d)' >= 1
                    /\ msg'[d] = [from |-> d, n |-> Read(d)']
  <2>1. Reading
    BY DEF GoldInv
  <2>2. CASE d # c
    <3>1. /\ up'[d] = up[d] /\ sentBy'[d] = sentBy[d] /\ slot'[d] = slot[d]
          /\ msg'[d] = msg[d] /\ handler'[d] = handler[d]
      BY <1>2, <1>9, <2>1, <2>2, ReceiveReads
    <3> QED BY <1>3, <3>1
  <2>3. CASE d = c
    <3>1. /\ Read(d)' = Read(d) + 1 /\ Len(up'[d]) = Len(up[d]) - 1
          /\ \A i \in 1..Len(up'[d]) : up'[d][i] = up[d][i+1]
          /\ handler'[d] = "send" /\ slot'[d] = 1
          /\ msg'[d] = [from |-> d, n |-> Read(d) + 1]
      BY <1>2, <1>9, <2>1, <2>3, ReceiveReads
    <3>2. ASSUME NEW i \in 1..Len(up'[d]) PROVE up'[d][i] = [from |-> d, n |-> Read(d)' + i]
      <4>1. i \in Nat /\ i >= 1 /\ i <= Len(up[d]) - 1
        BY <1>2, <3>1
      <4>2. i + 1 \in 1..Len(up[d])
        BY <1>2, <4>1
      <4>3. Read(d) + (i + 1) = Read(d)' + i
        BY <1>2, <3>1, <4>1
      <4> QED BY <1>1, <3>1, <4>2, <4>3
    <3>3. 1 \in Slots /\ Read(d)' >= 1
      BY <1>2, <3>1
    <3> QED BY <3>1, <3>2, <3>3
  <2> QED BY <2>2, <2>3
<1>10. CASE \E c \in Clients : Disconnect(c)
  <2>1. PICK c \in Clients : Disconnect(c)
    BY <1>10
  <2>2. UNCHANGED <<up, sentBy, slot, msg>> /\ handler' = [handler EXCEPT ![c] = "gone"]
    BY <2>1 DEF Disconnect, clientVars
  <2> QED BY <1>2, <1>3, <2>2 DEF Shapes
<1>11. ASSUME NEW c \in Clients, Broadcast(c)
      PROVE  /\ \A i \in 1..Len(up'[d]) : up'[d][i] = [from |-> d, n |-> Read(d)' + i]
             /\ handler'[d] = "none" => Read(d)' = 0
             /\ handler'[d] \in {"send", "killed"} =>
                    /\ slot'[d] \in Slots
                    /\ Read(d)' >= 1
                    /\ msg'[d] = [from |-> d, n |-> Read(d)']
  <2>1. /\ handler[c] = "send" /\ slot[c] \in Slots /\ UNCHANGED <<up, sentBy, msg>>
        /\ Killed(c) \/ Moves(c)
    BY <1>11, BroadcastResult DEF clientVars
  <2>2. /\ handler \in [Clients -> {"none", "recv", "send", "gone", "killed"}]
        /\ slot \in [Clients -> Nat]
    BY <1>2 DEF Shapes
  <2>3. Read(d)' = Read(d)
    BY <2>1 DEF Read
  <2>4. CASE Killed(c) \/ d # c
    <3>1. /\ slot'[d] = slot[d]
          /\ handler'[d] = "none" => handler[d] = "none"
          /\ handler'[d] \in {"send", "killed"} => handler[d] \in {"send", "killed"}
      BY <2>1, <2>2, <2>4 DEF Killed, Moves
    <3> QED BY <1>3, <2>1, <3>1
  <2>5. CASE Moves(c) /\ d = c
    <3>1. /\ slot'[d] = slot[d] + 1
          /\ handler'[d] = IF slot[d] = MaxClients THEN "recv" ELSE "send"
      BY <2>2, <2>5 DEF Moves
    <3>2. handler'[d] = "send" => slot'[d] \in Slots
      BY <1>2, <2>1, <2>5, <3>1
    <3>3. handler'[d] \in {"recv", "send"}
      BY <3>1
    <3> QED BY <1>1, <2>1, <2>3, <2>5, <3>2, <3>3
  <2> QED BY <2>1, <2>4, <2>5
<1> QED
  BY <1>4, <1>6, <1>7, <1>8, <1>9, <1>10, <1>11 DEF Next

-----------------------------------------------------------------------------
(* What everybody gets. *)

(* What a step leaves as it was for c, if nothing is delivered in it: whom *)
(* its handler serves, with as much passed on to each that is there; or    *)
(* nothing has been read; or its own client, which has left, is taken out. *)
KeepsPassed(c) ==
    \/ /\ view'[c] = view[c] /\ Read(c)' >= Read(c)
       /\ \A i \in Slots : view[c][i] # Free /\ conn[view[c][i]] = "open" =>
              Passed(c, i)' = Passed(c, i)
    \/ Read(c) = 0 /\ Read(c)' = 0 /\ \A i \in Slots : Passed(c, i)' = 0
    \/ /\ conn[c] # "open" /\ Read(c)' = Read(c)
       /\ \A i \in Slots : /\ view'[c][i] = IF view[c][i] = c THEN Free ELSE view[c][i]
                           /\ Passed(c, i)' = Passed(c, i)

LEMMA QuietStep ==
    ASSUME GoldInv, Shapes',
           \A d \in Clients : Got(d)' = Got(d) /\ (conn'[d] = "open" <=> conn[d] = "open"),
           \A c \in Clients : KeepsPassed(c) /\ Read(c)' \in Nat
    PROVE  Passing' /\ Echoes' /\ InOrderWithoutGaps'
<1>1. \A c, d \in Clients : Heard(d, c)' = Heard(d, c) /\ Heard(d, c) \in Nat
  BY GotIsSequence DEF Heard, GoldInv
<1>2. InOrderWithoutGaps'
  BY DEF InOrderWithoutGaps, GoldInv
<1>3. \A c \in Clients : Read(c) \in Nat
  BY ReadIsNumber DEF GoldInv
<1>4. Free \notin Clients
  BY GoldChatAssumption
<1>5. ASSUME NEW c \in Clients, NEW d \in Clients
      PROVE  /\ Heard(d, c)' <= Read(c)'
             /\ conn'[d] = "open" /\ d \notin Targets(c)' => Heard(d, c)' = 0
             /\ conn'[d] = "open" =>
                    \A i \in Slots : view'[c][i] = d => Heard(d, c)' = Passed(c, i)'
  <2>1. /\ Heard(d, c) <= Read(c)
        /\ conn[d] = "open" /\ d \notin Targets(c) => Heard(d, c) = 0
        /\ conn[d] = "open" => \A i \in Slots : view[c][i] = d => Heard(d, c) = Passed(c, i)
    BY DEF GoldInv, Passing
  <2>2. CASE /\ view'[c] = view[c] /\ Read(c)' >= Read(c)
             /\ \A i \in Slots : view[c][i] # Free /\ conn[view[c][i]] = "open" =>
                    Passed(c, i)' = Passed(c, i)
    <3>1. Targets(c)' = Targets(c)
      BY <2>2 DEF Targets
    <3>2. Heard(d, c)' <= Read(c)'
      BY <1>1, <1>3, <2>1, <2>2
    <3> QED BY <1>1, <1>4, <2>1, <2>2, <3>1, <3>2
  <2>3. CASE Read(c) = 0 /\ Read(c)' = 0 /\ \A i \in Slots : Passed(c, i)' = 0
    <3>1. Heard(d, c) = 0
      BY <1>1, <2>1, <2>3
    <3> QED BY <1>1, <2>3, <3>1
  <2>4. CASE /\ conn[c] # "open" /\ Read(c)' = Read(c)
             /\ \A i \in Slots : /\ view'[c][i] = IF view[c][i] = c THEN Free ELSE view[c][i]
                                 /\ Passed(c, i)' = Passed(c, i)
    <3>1. d # c => (d \in Targets(c)' <=> d \in Targets(c))
      BY <1>4, <2>4 DEF Targets
    <3>2. \A i \in Slots : view'[c][i] = d => view[c][i] = d
      BY <1>4, <2>4
    <3> QED BY <1>1, <2>1, <2>4, <3>1, <3>2
  <2> QED BY <2>2, <2>3, <2>4 DEF KeepsPassed
<1>6. Passing'
  BY <1>5 DEF Passing
<1>7. ASSUME NEW c \in Clients, NEW d \in Targets(c)', conn'[d] = "open"
      PROVE  Heard(d, c)' >= Heard(c, c)'
  <2>0. d \in Clients
    BY <1>7 DEF Targets, Shapes
  <2>1. CASE Read(c) = 0
    <3>1. Heard(c, c) <= Read(c)
      BY DEF GoldInv, Passing
    <3>2. Heard(c, c) = 0
      BY <1>1, <2>1, <3>1
    <3> QED BY <1>1, <2>0, <3>2
  <2>2. CASE Read(c) # 0
    <3>1. d \in Targets(c)
      BY <1>4, <2>2 DEF Targets, KeepsPassed
    <3> QED BY <1>1, <1>7, <2>0, <3>1 DEF GoldInv, Echoes
  <2> QED BY <2>1, <2>2
<1>8. Echoes'
  BY <1>7 DEF Echoes
<1> QED BY <1>2, <1>6, <1>8

(* A client that leaves takes no part any more. *)
LEMMA LeaveStep ==
    ASSUME GoldInv, NEW e \in Clients, Leave(e)
    PROVE  Passing' /\ Echoes' /\ InOrderWithoutGaps'
<1>1. /\ conn'[e] # "open" /\ \A d \in Clients : d # e => conn'[d] = conn[d] /\ down'[d] = down[d]
      /\ down'[e] = << >>
      /\ UNCHANGED <<sentBy, up, seen, handler, view, msg, slot>>
  BY DEF Leave, handlerVars, GoldInv, Shapes
<1>2. /\ \A c \in Clients : Targets(c)' = Targets(c) /\ Read(c)' = Read(c)
      /\ \A c \in Clients : \A i \in Slots : Passed(c, i)' = Passed(c, i)
  BY <1>1 DEF Targets, Read, Passed
<1>3. \A d \in Clients : d # e => Got(d)' = Got(d)
  BY <1>1 DEF Got
<1>4. seen[e] \in Seq(Message) /\ down[e] \in Seq(Message) /\ Got(e)' = seen[e]
  BY <1>1, ConcatEmptySeq DEF Got, GoldInv, Shapes
<1>5. \A c, d \in Clients : d # e => Heard(d, c)' = Heard(d, c)
  BY <1>3 DEF Heard
<1>6. \A c \in Clients : /\ Heard(e, c)' <= Heard(e, c)
                         /\ Heard(e, c)' \in Nat /\ Heard(e, c) \in Nat
  BY <1>4, FromBeginning DEF Heard, Got
<1>7. Passing'
  <2> SUFFICES ASSUME NEW c \in Clients, NEW d \in Clients
      PROVE  /\ Heard(d, c)' <= Read(c)'
             /\ conn'[d] = "open" /\ d \notin Targets(c)' => Heard(d, c)' = 0
             /\ conn'[d] = "open" =>
                    \A i \in Slots : view'[c][i] = d => Heard(d, c)' = Passed(c, i)'
    BY DEF Passing
  <2>1. /\ Heard(d, c) <= Read(c)
        /\ conn[d] = "open" /\ d \notin Targets(c) => Heard(d, c) = 0
        /\ conn[d] = "open" => \A i \in Slots : view[c][i] = d => Heard(d, c) = Passed(c, i)
    BY DEF GoldInv, Passing
  <2>2. CASE d # e
    BY <1>1, <1>2, <1>5, <2>1, <2>2
  <2>3. CASE d = e
    <3>1. Read(c) \in Nat
      BY ReadIsNumber DEF GoldInv
    <3>2. Heard(d, c)' <= Read(c)'
      BY <1>2, <1>6, <2>1, <2>3, <3>1
    <3> QED BY <1>1, <2>3, <3>2
  <2> QED BY <2>2, <2>3
<1>8. Echoes'
  <2> SUFFICES ASSUME NEW c \in Clients, NEW d \in Targets(c), conn'[d] = "open"
               PROVE  Heard(d, c)' >= Heard(c, c)'
    BY <1>2 DEF Echoes
  <2>1. d \in Clients /\ d # e /\ conn[d] = "open"
    BY <1>1 DEF Targets, GoldInv, Shapes
  <2>2. Heard(d, c) >= Heard(c, c) /\ Heard(d, c)' = Heard(d, c) /\ Heard(d, c) \in Nat
    BY <1>5, <2>1, GotIsSequence DEF GoldInv, Echoes
  <2>3. Heard(c, c)' <= Heard(c, c) /\ Heard(c, c)' \in Nat /\ Heard(c, c) \in Nat
    BY <1>5, <1>6, GotIsSequence DEF GoldInv
  <2> QED BY <2>2, <2>3
<1>9. InOrderWithoutGaps'
  <2>1. Ranked(seen[e] \o down[e])
    BY DEF GoldInv, InOrderWithoutGaps, Ranked, Got
  <2>2. Ranked(Got(e)')
    BY <1>4, <2>1, RankedBeginning
  <2> QED BY <1>3, <2>2 DEF GoldInv, InOrderWithoutGaps, Ranked
<1> QED BY <1>7, <1>8, <1>9

(* A round of the loop passes the message on to its slot's client only. *)
LEMMA RoundPasses ==
    ASSUME GoldInv, NEW c \in Clients, Broadcast(c)
    PROVE  /\ \A b \in Clients : Read(b)' = Read(b) /\ view'[b] = view[b]
           /\ \A b \in Clients : b # c => \A i \in Slots : Passed(b, i)' = Passed(b, i)
           /\ Killed(c) => \A i \in Slots : Passed(c, i)' = Passed(c, i)
           /\ Moves(c) => \A i \in Slots :
                  Passed(c, i)' = IF i = slot[c] THEN Read(c) ELSE Passed(c, i)
<1>1. /\ handler[c] = "send" /\ slot[c] \in Slots /\ UNCHANGED <<sentBy, up, view>>
      /\ Killed(c) \/ Moves(c)
  BY BroadcastResult DEF clientVars
<1>2. /\ handler \in [Clients -> {"none", "recv", "send", "gone", "killed"}]
      /\ slot \in [Clients -> Nat]
      /\ MaxClients \in Nat \ {0} /\ Slots = 1..MaxClients
  BY GoldChatAssumption DEF GoldInv, Shapes, Slots
<1>3. \A b \in Clients : Read(b)' = Read(b) /\ view'[b] = view[b]
  BY <1>1 DEF Read
<1>4. \A b \in Clients : b # c => handler'[b] = handler[b] /\ slot'[b] = slot[b]
  BY <1>1, <1>2 DEF Killed, Moves
<1>5. \A b \in Clients : b # c => \A i \in Slots : Passed(b, i)' = Passed(b, i)
  BY <1>3, <1>4 DEF Passed
<1>6. ASSUME Killed(c), NEW i \in Slots PROVE Passed(c, i)' = Passed(c, i)
  <2>1. handler'[c] = "killed" /\ slot'[c] = slot[c]
    BY <1>2, <1>6 DEF Killed
  <2> QED BY <1>1, <1>3, <2>1 DEF Passed
<1>7. ASSUME Moves(c), NEW i \in Slots
      PROVE  Passed(c, i)' = IF i = slot[c] THEN Read(c) ELSE Passed(c, i)
  <2>1. /\ handler'[c] = IF slot[c] = MaxClients THEN "recv" ELSE "send"
        /\ slot'[c] = slot[c] + 1
    BY <1>2, <1>7 DEF Moves
  <2>2. Passed(c, i) = IF slot[c] <= i THEN Read(c) - 1 ELSE Read(c)
    BY <1>1 DEF Passed
  <2>3. Passed(c, i)' = IF slot[c] # MaxClients /\ slot[c] + 1 <= i THEN Read(c) - 1 ELSE Read(c)
    BY <1>3, <2>1 DEF Passed
  <2>4. slot[c] \in 1..MaxClients /\ i \in 1..MaxClients /\ MaxClients \in Nat
    BY <1>1, <1>2
  <2>5. CASE i = slot[c]
    BY <2>3, <2>4, <2>5
  <2>6. CASE i < slot[c]
    BY <2>2, <2>3, <2>4, <2>6
  <2>7. CASE slot[c] < i
    BY <2>2, <2>3, <2>4, <2>7
  <2> QED BY <2>4, <2>5, <2>6, <2>7
<1> QED BY <1>3, <1>5, <1>6, <1>7

(* A message that is sent is the next of its sender for its receiver. *)
LEMMA DeliverStep ==
    ASSUME GoldInv, NEW c \in Clients, Broadcast(c), Moves(c),
           NEW s \in Clients, s = view[c][slot[c]], conn[s] = "open",
           Deliver(s, msg[c])
    PROVE  Passing' /\ Echoes' /\ InOrderWithoutGaps'
<1> DEFINE m == msg[c]
<1>1. /\ handler[c] = "send" /\ slot[c] \in Slots
      /\ UNCHANGED <<sentBy, up, view, msg, seen>>
  BY BroadcastResult DEF clientVars
<1>2. m \in Message /\ m.from = c /\ m.n = Read(c)
  BY <1>1, MessageRead
<1>3. /\ \A b \in Clients : Read(b) \in Nat
      /\ \A b, d \in Clients : Heard(d, b) \in Nat
      /\ \A d \in Clients : Got(d) \in Seq(Message) /\ Ranked(Got(d))
      /\ Read(c) >= 1
  BY <1>1, ReadIsNumber, GotIsSequence DEF GoldInv, InOrderWithoutGaps, Ranked, Reading
<1>4. /\ UNCHANGED conn
      /\ down'[s] = Append(down[s], m) /\ \A d \in Clients : d # s => down'[d] = down[d]
  BY DEF Deliver, GoldInv, Shapes
<1>5. \A d \in Clients : d # s => Got(d)' = Got(d)
  BY <1>1, <1>4 DEF Got
<1>6. Got(s)' = Append(Got(s), m)
  <2>1. seen[s] \in Seq(Message) /\ down[s] \in Seq(Message)
    BY DEF GoldInv, Shapes
  <2> HIDE DEF m
  <2>2. \A x, y \in Seq(Message) : x \o Append(y, m) = Append(x \o y, m)
    BY <1>2, AppendedBehind
  <2>3. seen[s] \o Append(down[s], m) = Append(seen[s] \o down[s], m)
    BY <2>1, <2>2
  <2> QED BY <1>1, <1>4, <2>3 DEF Got
<1> HIDE DEF m
<1>7. \A b, d \in Clients : d # s \/ b # c => Heard(d, b)' = Heard(d, b)
  <2>1. \A b, d \in Clients : d # s => Heard(d, b)' = Heard(d, b)
    BY <1>5 DEF Heard
  <2>2. \A b \in Clients : b # c => From(Append(Got(s), m), b) = From(Got(s), b)
    BY <1>2, <1>3, FromAppended
  <2>3. \A b \in Clients : b # c => Heard(s, b)' = Heard(s, b)
    BY <1>6, <2>2 DEF Heard
  <2> QED BY <2>1, <2>3
<1>8. Heard(s, c)' = Heard(s, c) + 1
  BY <1>2, <1>3, <1>6, FromAppended DEF Heard
<1>9. Heard(s, c) = Read(c) - 1
  <2>1. Heard(s, c) = Passed(c, slot[c])
    BY <1>1 DEF GoldInv, Passing
  <2>2. slot[c] <= slot[c]
    BY DEF GoldInv, Shapes
  <2> QED BY <1>1, <2>1, <2>2 DEF Passed
<1>10. Heard(s, c)' = Read(c)
  BY <1>3, <1>8, <1>9
<1>11. /\ \A b \in Clients : Read(b)' = Read(b) /\ Targets(b)' = Targets(b) /\ view'[b] = view[b]
       /\ \A b \in Clients : b # c => \A i \in Slots : Passed(b, i)' = Passed(b, i)
       /\ \A i \in Slots : Passed(c, i)' = IF i = slot[c] THEN Read(c) ELSE Passed(c, i)
  BY RoundPasses DEF Targets
<1>12. Distinct(view[c]) /\ Free \notin Clients
  BY GoldChatAssumption DEF GoldInv, Views
<1>13. Passing'
  <2> SUFFICES ASSUME NEW b \in Clients, NEW d \in Clients
      PROVE  /\ Heard(d, b)' <= Read(b)'
             /\ conn'[d] = "open" /\ d \notin Targets(b)' => Heard(d, b)' = 0
             /\ conn'[d] = "open" =>
                    \A i \in Slots : view'[b][i] = d => Heard(d, b)' = Passed(b, i)'
    BY DEF Passing
  <2>1. /\ Heard(d, b) <= Read(b)
        /\ conn[d] = "open" /\ d \notin Targets(b) => Heard(d, b) = 0
        /\ conn[d] = "open" => \A i \in Slots : view[b][i] = d => Heard(d, b) = Passed(b, i)
    BY DEF GoldInv, Passing
  <2>2. CASE b # c
    BY <1>4, <1>7, <1>11, <2>1, <2>2
  <2>3. CASE b = c /\ d # s
    <3>1. \A i \in Slots : view[c][i] = d => i # slot[c]
      BY <2>3
    <3> QED BY <1>4, <1>7, <1>11, <2>1, <2>3, <3>1
  <2>4. CASE b = c /\ d = s
    <3>1. \A i \in Slots : view[c][i] = s => i = slot[c]
      BY <1>1, <1>12 DEF Distinct
    <3>2. s \in Targets(c)
      BY <1>1, <1>12 DEF Targets
    <3>3. Heard(d, b)' <= Read(b)'
      BY <1>3, <1>10, <1>11, <2>4
    <3> QED BY <1>10, <1>11, <2>4, <3>1, <3>2, <3>3
  <2> QED BY <2>2, <2>3, <2>4
<1>14. Echoes'
  <2> SUFFICES ASSUME NEW b \in Clients, NEW d \in Targets(b), conn[d] = "open"
               PROVE  Heard(d, b)' >= Heard(b, b)'
    BY <1>4, <1>11 DEF Echoes
  <2>1. d \in Clients /\ Heard(d, b) >= Heard(b, b) /\ Heard(d, b) \in Nat /\ Heard(b, b) \in Nat
    <3>1. d \in Clients
      BY DEF GoldInv, Targets, Shapes
    <3>2. Heard(d, b) >= Heard(b, b)
      BY DEF GoldInv, Echoes
    <3> QED BY <1>3, <3>1, <3>2
  <2>2. CASE b # c
    BY <1>7, <2>1, <2>2
  <2>3. CASE b = c /\ s # c
    <3>1. Heard(c, c)' = Heard(c, c)
      BY <1>7, <2>3
    <3>2. Heard(d, c)' = Heard(d, c) \/ Heard(d, c)' = Heard(d, c) + 1
      BY <1>7, <1>8, <2>1
    <3> QED BY <2>1, <2>3, <3>1, <3>2
  <2>4. CASE b = c /\ s = c /\ d # c
    <3>1. PICK i \in Slots : view[c][i] = d
      BY <2>4 DEF Targets
    <3>2. i <= slot[c] /\ i # slot[c]
      BY <1>1, <1>12, <2>1, <2>4, <3>1 DEF GoldInv, Views
    <3>3. ~(slot[c] <= i)
      BY <1>1, <3>2, GoldChatAssumption DEF Slots
    <3>4. Heard(d, c) = Read(c)
      BY <2>1, <2>4, <3>1, <3>3 DEF GoldInv, Passing, Passed
    <3>5. Heard(d, c)' = Read(c) /\ Heard(c, c)' = Read(c)
      BY <1>7, <1>10, <2>1, <2>4, <3>4
    <3> QED BY <1>3, <2>4, <3>5
  <2>5. CASE b = c /\ s = c /\ d = c
    BY <1>3, <1>10, <2>5
  <2> QED BY <2>2, <2>3, <2>4, <2>5
<1>15. InOrderWithoutGaps'
  <2>1. From(Got(s), c) + 1 = m.n
    BY <1>2, <1>3, <1>9 DEF Heard
  <2>2. Ranked(Got(s)')
    BY <1>2, <1>3, <1>6, <2>1, RankedAppended
  <2>3. \A d \in Clients : Ranked(Got(d)')
    BY <1>3, <1>5, <2>2
  <2> QED BY <2>3 DEF InOrderWithoutGaps, Ranked
<1> QED BY <1>13, <1>14, <1>15

LEMMA NextTraffic ==
    ASSUME GoldInv, [Next]_goldVars
    PROVE  Passing' /\ Echoes' /\ InOrderWithoutGaps'
<1>1. Shapes' /\ Shapes
  BY NextShapes DEF GoldInv
<1>2. \A c \in Clients : Read(c)' \in Nat /\ Read(c) \in Nat
  <2>1. \A c \in Clients : /\ sentBy'[c] \in Nat /\ up'[c] \in Seq(Message)
                           /\ Len(up'[c]) <= sentBy'[c]
    BY <1>1 DEF Shapes
  <2>2. \A c \in Clients : Len(up'[c]) \in Nat
    BY <2>1, LenProperties
  <2>3. \A c \in Clients : Read(c)' \in Nat
    BY <2>1, <2>2 DEF Read
  <2> QED BY <1>1, <2>3, ReadIsNumber
<1>3. ASSUME UNCHANGED <<conn, seen, down>>
      PROVE  \A d \in Clients : Got(d)' = Got(d) /\ (conn'[d] = "open" <=> conn[d] = "open")
  BY <1>3 DEF Got
<1>4. ASSUME NEW c \in Clients, Read(c)' = Read(c), view'[c] = view[c],
             handler'[c] = handler[c], slot'[c] = slot[c]
      PROVE  KeepsPassed(c)
  <2>1. \A i \in Slots : Passed(c, i)' = Passed(c, i)
    BY <1>4 DEF Passed
  <2> QED BY <1>2, <1>4, <2>1 DEF KeepsPassed
<1>5. CASE UNCHANGED goldVars
  <2>1. \A c \in Clients : KeepsPassed(c)
    BY <1>4, <1>5 DEF goldVars, Read
  <2> QED BY <1>1, <1>2, <1>3, <1>5, <2>1, QuietStep DEF goldVars
<1>6. CASE \E c \in Clients : Connect(c)
  <2>1. UNCHANGED <<conn, seen, down, sentBy, up, handler, view, slot>>
    BY <1>6 DEF Connect, handlerVars
  <2>2. \A c \in Clients : KeepsPassed(c)
    BY <1>4, <2>1 DEF Read
  <2> QED BY <1>1, <1>2, <1>3, <2>1, <2>2, QuietStep
<1>7. ASSUME NEW e \in Clients, Send(e) PROVE Passing' /\ Echoes' /\ InOrderWithoutGaps'
  <2>1. /\ Read(e)' = Read(e)
        /\ \A c \in Clients : c # e => up'[c] = up[c] /\ sentBy'[c] = sentBy[c]
        /\ UNCHANGED <<conn, seen, down, handler, view, slot>>
    BY <1>1, <1>7, SendKeepsRead DEF handlerVars
  <2>2. \A c \in Clients : Read(c)' = Read(c)
    BY <2>1 DEF Read
  <2>3. \A c \in Clients : KeepsPassed(c)
    BY <1>4, <2>1, <2>2
  <2> QED BY <1>1, <1>2, <1>3, <2>1, <2>3, QuietStep
<1>8. ASSUME NEW e \in Clients, Show(e) PROVE Passing' /\ Echoes' /\ InOrderWithoutGaps'
  <2>1. /\ seen' = [seen EXCEPT ![e] = Append(@, Head(down[e]))]
        /\ down' = [down EXCEPT ![e] = Tail(@)] /\ down[e] # << >>
        /\ UNCHANGED <<conn, sentBy, up, handler, view, slot>>
    BY <1>8 DEF Show, handlerVars
  <2>2. \A d \in Clients : Got(d)' = Got(d)
    <3>1. \A d \in Clients : seen[d] \in Seq(Message) /\ down[d] \in Seq(Message)
      BY <1>1 DEF Shapes
    <3>2. Append(seen[e], Head(down[e])) \o Tail(down[e]) = seen[e] \o down[e]
      BY <2>1, <3>1, MovedOver
    <3>3. seen'[e] = Append(seen[e], Head(down[e])) /\ down'[e] = Tail(down[e])
      BY <1>1, <2>1 DEF Shapes
    <3>4. \A d \in Clients : d # e => seen'[d] = seen[d] /\ down'[d] = down[d]
      BY <1>1, <2>1 DEF Shapes
    <3> QED BY <3>2, <3>3, <3>4 DEF Got
  <2>3. \A c \in Clients : KeepsPassed(c)
    BY <1>4, <2>1 DEF Read
  <2> QED BY <1>1, <1>2, <2>1, <2>2, <2>3, QuietStep
<1>9. CASE Accept
  <2>1. PICK e \in Clients : AcceptsOne(e) /\ handler[e] = "none"
    BY <1>9, AcceptResult
  <2>2. UNCHANGED <<conn, seen, down, sentBy, up, slot>>
    BY <2>1 DEF AcceptsOne, clientVars
  <2>3. \A c \in Clients : Read(c)' = Read(c)
    BY <2>2 DEF Read
  <2>4. KeepsPassed(e)
    <3>1. Read(e) = 0
      BY <2>1 DEF GoldInv, Reading
    <3>2. handler'[e] \in {"none", "recv"}
      BY <1>1, <2>1 DEF AcceptsOne, Shapes
    <3>3. \A i \in Slots : Passed(e, i)' = 0
      BY <2>3, <3>1, <3>2 DEF Passed
    <3> QED BY <2>3, <3>1, <3>3 DEF KeepsPassed
  <2>5. ASSUME NEW c \in Clients, c # e PROVE KeepsPassed(c)
    <3>1. view'[c] = view[c] /\ handler'[c] = handler[c]
      <4>1. \/ /\ handler' = [handler EXCEPT ![e] = "recv"]
               /\ view' = [view EXCEPT ![e] = TableWith(e)]
            \/ handler' = handler /\ view' = view
        BY <2>1 DEF AcceptsOne
      <4>2. /\ handler \in [Clients -> {"none", "recv", "send", "gone", "killed"}]
            /\ view \in [Clients -> [Slots -> Clients \cup {Free}]]
        BY <1>1 DEF Shapes
      <4> QED BY <2>5, <4>1, <4>2
    <3> QED BY <1>4, <2>2, <2>3, <3>1
  <2> QED BY <1>1, <1>2, <1>3, <2>2, <2>4, <2>5, QuietStep
<1>10. ASSUME NEW e \in Clients, Receive(e) PROVE Passing' /\ Echoes' /\ InOrderWithoutGaps'
  <2>1. /\ Read(e)' = Read(e) + 1 /\ handler[e] = "recv" /\ handler'[e] = "send" /\ slot'[e] = 1
        /\ \A d \in Clients : d # e => up'[d] = up[d] /\ handler'[d] = handler[d]
                                       /\ slot'[d] = slot[d]
        /\ UNCHANGED <<sentBy, seen, conn, down, view>>
    BY <1>1, <1>10, ReceiveReads DEF GoldInv
  <2>2. KeepsPassed(e)
    <3>1. \A i \in Slots : Passed(e, i) = Read(e)
      BY <2>1 DEF Passed
    <3>2. \A i \in Slots : Passed(e, i)' = Read(e)' - 1
      BY <2>1 DEF Passed, Slots
    <3>3. Read(e)' >= Read(e) /\ Read(e)' - 1 = Read(e)
      BY <1>2, <2>1
    <3> QED BY <2>1, <3>1, <3>2, <3>3 DEF KeepsPassed
  <2>3. ASSUME NEW c \in Clients, c # e PROVE KeepsPassed(c)
    <3>1. Read(c)' = Read(c)
      BY <2>1, <2>3 DEF Read
    <3> QED BY <1>4, <2>1, <2>3, <3>1
  <2> QED BY <1>1, <1>2, <1>3, <2>1, <2>2, <2>3, QuietStep
<1>11. ASSUME NEW e \in Clients, Disconnect(e) PROVE Passing' /\ Echoes' /\ InOrderWithoutGaps'
  <2>1. /\ handler[e] = "recv" /\ conn[e] # "open" /\ handler'[e] = "gone"
        /\ \A i \in Slots : view'[e][i] = IF view[e][i] = e THEN Free ELSE view[e][i]
        /\ \A d \in Clients : d # e => view'[d] = view[d] /\ handler'[d] = handler[d]
        /\ UNCHANGED <<sentBy, seen, conn, down, up, slot>>
    BY <1>1, <1>11 DEF Disconnect, clientVars, Shapes
  <2>2. \A c \in Clients : Read(c)' = Read(c)
    BY <2>1 DEF Read
  <2>3. KeepsPassed(e)
    <3>1. \A i \in Slots : Passed(e, i)' = Passed(e, i)
      BY <2>1, <2>2 DEF Passed
    <3> QED BY <2>1, <2>2, <3>1 DEF KeepsPassed
  <2>4. \A c \in Clients : c # e => KeepsPassed(c)
    BY <1>4, <2>1, <2>2
  <2> QED BY <1>1, <1>2, <1>3, <2>1, <2>3, <2>4, QuietStep
<1>12. ASSUME NEW e \in Clients, Leave(e) PROVE Passing' /\ Echoes' /\ InOrderWithoutGaps'
  BY <1>12, LeaveStep
<1>13. ASSUME NEW e \in Clients, Broadcast(e) PROVE Passing' /\ Echoes' /\ InOrderWithoutGaps'
  <2>1. \A c \in Clients : Read(c)' = Read(c) /\ view'[c] = view[c]
    BY <1>13, RoundPasses
  <2>2. \A c \in Clients : c # e => KeepsPassed(c)
    BY <1>2, <1>13, <2>1, RoundPasses DEF KeepsPassed
  <2>3. UNCHANGED <<seen, view>>
    BY <1>13, BroadcastResult DEF clientVars
  <2>4. CASE Killed(e)
    <3>1. KeepsPassed(e)
      BY <1>2, <1>13, <2>1, <2>4, RoundPasses DEF KeepsPassed
    <3> QED BY <1>1, <1>2, <1>3, <2>2, <2>3, <2>4, <3>1, QuietStep DEF Killed
  <2>5. CASE Moves(e) /\ view[e][slot[e]] = Free /\ UNCHANGED <<conn, down>>
    <3>1. KeepsPassed(e)
      BY <1>2, <1>13, <2>1, <2>5, RoundPasses DEF KeepsPassed
    <3> QED BY <1>1, <1>2, <1>3, <2>2, <2>3, <2>5, <3>1, QuietStep
  <2>6. CASE /\ Moves(e) /\ view[e][slot[e]] \in Clients
             /\ Deliver(view[e][slot[e]], msg[e])
    <3> DEFINE s == view[e][slot[e]]
    <3>1. CASE conn[s] = "open"
      BY <1>13, <2>6, <3>1, DeliverStep
    <3>2. CASE conn[s] # "open"
      <4>1. \A d \in Clients : conn'[d] = "open" <=> conn[d] = "open"
        <5>1. conn' = IF conn[s] = "fin" THEN [conn EXCEPT ![s] = "reset"] ELSE conn
          BY <2>6 DEF Deliver
        <5>2. conn \in [Clients -> {"open", "fin", "reset"}]
          BY <1>1 DEF Shapes
        <5> HIDE DEF s
        <5> QED BY <3>2, <5>1, <5>2
      <4>2. \A d \in Clients : Got(d)' = Got(d)
        BY <2>3, <2>6, <3>2 DEF Deliver, Got
      <4>3. KeepsPassed(e)
        BY <1>2, <1>13, <2>1, <2>6, <3>2, RoundPasses DEF KeepsPassed
      <4> QED BY <1>1, <1>2, <2>2, <4>1, <4>2, <4>3, QuietStep
    <3> QED BY <3>1, <3>2
  <2> QED BY <1>13, <2>4, <2>5, <2>6, BroadcastResult
<1> QED
  BY <1>5, <1>6, <1>7, <1>8, <1>9, <1>10, <1>11, <1>12, <1>13 DEF Next

LEMMA NextGoldInv == GoldInv /\ [Next]_goldVars => GoldInv'
  BY NextShapes, NextWaiting, NextTable, NextViews, NextReading, NextTraffic DEF GoldInv

-----------------------------------------------------------------------------
(* The inductive invariant of the chat. *)
THEOREM GoldChatSound == Spec => []GoldInv
<1> QED BY InitGoldInv, NextGoldInv, PTL DEF Spec

(* Type correctness: among others, no sending loop leaves clients[].       *)
THEOREM GoldChatTypeCorrect == Spec => []TypeOK
<1>1. GoldInv => TypeOK
  BY DEF GoldInv, Shapes, Reading, TypeOK
<1> QED BY <1>1, GoldChatSound, PTL

(* Every client gets everybody's messages in order, without gap and        *)
(* without repetition, although several handlers send to its socket at a   *)
(* time, clients leave, handlers are killed and fork() fails.              *)
THEOREM InOrderForAll == Spec => []InOrderWithoutGaps
<1>1. GoldInv => InOrderWithoutGaps
  BY DEF GoldInv
<1> QED BY <1>1, GoldChatSound, PTL

(* A client that has its own message back knows that everybody whom its    *)
(* handler serves has it.                                                  *)
THEOREM EchoMeansReceived == Spec => []EchoIsReceipt
<1>1. GoldInv => EchoIsReceipt
  <2> SUFFICES ASSUME GoldInv, NEW c \in Clients, NEW d \in Targets(c), client[d] = "in"
               PROVE  Heard(d, c) >= Heard(c, c)
    BY DEF EchoIsReceipt
  <2>1. d \in Clients
    BY DEF Targets, GoldInv, Shapes
  <2>2. conn[d] = "open"
    BY <2>1 DEF GoldInv, Shapes
  <2> QED BY <2>2 DEF GoldInv, Echoes
<1> QED BY <1>1, GoldChatSound, PTL

=============================================================================
