-------------------------- MODULE TwoWayChatProofs --------------------------
(***************************************************************************)
(* Proofs about TwoWayChat: what the broadcaster sends on to the client it *)
(* serves is, unit for unit and in its place, the stream that the handlers *)
(* wrote, but for the units that snprintf() loses.                         *)
(***************************************************************************)
EXTENDS TwoWayChat, SequenceTheorems, TLAPS

Unit == [from : Clients, n : Nat, part : Nat]
Sent == Unit \cup {Lost}
Elements == Clients \cup {Empty, Stdin}

Shapes ==
    /\ client \in [Clients -> {"off", "in", "left"}]
    /\ conn \in [Clients -> {"open", "fin", "error", "reset", "gone"}]
    /\ sent \in [Clients -> Nat]
    /\ arr \in [Slots -> Elements]
    /\ handler \in [Clients -> {"none", "recv", "write", "exit", "done"}]
    /\ msg \in [Clients -> Seq(Unit)]
    /\ pipe \in Seq(Unit) /\ written \in Seq(Unit)
    /\ cast \in {"none", "up", "dead"}
    /\ castArr \in [Slots -> Elements]
    /\ chunk \in Seq(Unit)
    /\ heard \in [Clients -> Seq(Sent)]
    /\ unread \in [Clients -> 0..SockCap]

(* The pipe and the broadcaster's buffer hold no more than they can.       *)
Bounded == Len(pipe) <= PipeCap /\ Len(chunk) <= ReadCap

(* Both arrays hold accepted clients only, and a client that has not left  *)
(* has not closed its connection.                                          *)
Accepted ==
    \A c \in Clients :
        /\ Serves(arr, c) \/ Serves(castArr, c) => client[c] # "off"
        /\ client[c] # "left" => conn[c] = "open"
        /\ handler[c] # "none" => client[c] # "off"

(* Before the first client nothing has been written. *)
Unused ==
    (\A c \in Clients : client[c] = "off") =>
        /\ pipe = << >> /\ written = << >> /\ chunk = << >>
        /\ \A c \in Clients : heard[c] = << >>

TwoWayInv == Shapes /\ Bounded /\ Accepted /\ Unused /\ StreamInPlace

-----------------------------------------------------------------------------
(* Sequences. *)

LEMMA Associative ==
    \A x, y, z \in Seq(Sent) : (x \o y) \o z = x \o (y \o z)
  BY ConcatAssociative

LEMMA UnitsAreSent == Seq(Unit) \subseteq Seq(Sent)
<1>1. Unit \subseteq Sent
  BY DEF Sent
<1> QED BY <1>1

(* What is in place stays in place when both are continued alike.          *)
LEMMA Continued ==
    ASSUME NEW s \in Seq(Sent), NEW t \in Seq(Unit), NEW m \in Seq(Unit), InPlace(s, t)
    PROVE  InPlace(s \o m, t \o m)
<1>1. m \in Seq(Sent) /\ t \in Seq(Sent)
  BY UnitsAreSent
<1>2. Len(s) \in Nat /\ Len(t) = Len(s) /\ Len(m) \in Nat
  BY <1>1, LenProperties DEF InPlace
<1>3. /\ Len(s \o m) = Len(s) + Len(m) /\ Len(t \o m) = Len(t) + Len(m)
      /\ \A i \in 1..(Len(s) + Len(m)) :
             (s \o m)[i] = IF i <= Len(s) THEN s[i] ELSE m[i - Len(s)]
      /\ \A i \in 1..(Len(t) + Len(m)) :
             (t \o m)[i] = IF i <= Len(t) THEN t[i] ELSE m[i - Len(t)]
  BY <1>1, ConcatProperties
<1>4. ASSUME NEW i \in 1..Len(t \o m) PROVE (s \o m)[i] \in {(t \o m)[i], Lost}
  <2>1. i \in 1..(Len(t) + Len(m)) /\ i \in Nat /\ i >= 1
    BY <1>2, <1>3
  <2>2. CASE i <= Len(t)
    <3>1. s[i] \in {t[i], Lost}
      BY <1>2, <2>1, <2>2 DEF InPlace
    <3> QED BY <1>2, <1>3, <2>1, <2>2, <3>1
  <2>3. CASE ~(i <= Len(t))
    BY <1>2, <1>3, <2>1, <2>3
  <2> QED BY <2>2, <2>3
<1> QED BY <1>2, <1>3, <1>4 DEF InPlace

LEMMA GarbledType ==
    ASSUME NEW c \in Seq(Unit), NEW kept
    PROVE  /\ Garbled(c, kept) \in Seq(Sent) /\ Len(Garbled(c, kept)) = Len(c)
           /\ \A i \in 1..Len(c) : Garbled(c, kept)[i] \in {c[i], Lost}
<1>1. Len(c) \in Nat /\ \A i \in 1..Len(c) : c[i] \in Unit
  BY LenProperties
<1>2. \A i \in 1..Len(c) : (IF i \in kept THEN c[i] ELSE Lost) \in Sent
  BY <1>1 DEF Sent
<1>3. Garbled(c, kept) \in Seq(Sent)
  BY <1>1, <1>2, IsASeq DEF Garbled
<1>4. Len(Garbled(c, kept)) = Len(c)
  BY <1>1, <1>3, LenProperties DEF Garbled
<1> QED BY <1>1, <1>3, <1>4 DEF Garbled

(* What snprintf() leaves of a read is in the place of the read.           *)
LEMMA GarbledInPlace ==
    ASSUME NEW h \in Seq(Sent), NEW c \in Seq(Unit), NEW p \in Seq(Unit), NEW w \in Seq(Unit),
           NEW kept, InPlace((h \o c) \o p, w)
    PROVE  InPlace((h \o Garbled(c, kept)) \o p, w)
<1> DEFINE g == Garbled(c, kept)
<1>1. /\ g \in Seq(Sent) /\ Len(g) = Len(c)
      /\ \A i \in 1..Len(c) : g[i] \in {c[i], Lost}
  BY GarbledType
<1> HIDE DEF g
<1>2. /\ c \in Seq(Sent) /\ p \in Seq(Sent)
      /\ Len(h) \in Nat /\ Len(c) \in Nat /\ Len(p) \in Nat /\ Len(w) \in Nat
  BY UnitsAreSent, LenProperties
<1>3. /\ h \o c \in Seq(Sent) /\ Len(h \o c) = Len(h) + Len(c)
      /\ \A i \in 1..(Len(h) + Len(c)) :
             (h \o c)[i] = IF i <= Len(h) THEN h[i] ELSE c[i - Len(h)]
  BY <1>2, ConcatProperties
<1>4. /\ h \o g \in Seq(Sent) /\ Len(h \o g) = Len(h) + Len(g)
      /\ \A i \in 1..(Len(h) + Len(g)) :
             (h \o g)[i] = IF i <= Len(h) THEN h[i] ELSE g[i - Len(h)]
  <2>1. g \in Seq(Sent)
    BY <1>1
  <2> QED BY <2>1, ConcatProperties
<1>5. /\ Len((h \o c) \o p) = Len(h \o c) + Len(p)
      /\ \A i \in 1..(Len(h \o c) + Len(p)) :
             ((h \o c) \o p)[i] = IF i <= Len(h \o c) THEN (h \o c)[i] ELSE p[i - Len(h \o c)]
  BY <1>2, <1>3, ConcatProperties
<1>6. /\ Len((h \o g) \o p) = Len(h \o g) + Len(p)
      /\ \A i \in 1..(Len(h \o g) + Len(p)) :
             ((h \o g) \o p)[i] = IF i <= Len(h \o g) THEN (h \o g)[i] ELSE p[i - Len(h \o g)]
  BY <1>2, <1>4, ConcatProperties
<1>7. Len(w) = Len(h) + Len(c) + Len(p)
  BY <1>2, <1>3, <1>5 DEF InPlace
<1>8. Len((h \o g) \o p) = Len(w)
  BY <1>1, <1>2, <1>4, <1>6, <1>7
<1>9. ASSUME NEW i \in 1..Len(w) PROVE ((h \o g) \o p)[i] \in {w[i], Lost}
  <2>1. ((h \o c) \o p)[i] \in {w[i], Lost}
    BY DEF InPlace
  <2>2. i \in Nat /\ 1 <= i /\ i <= Len(h) + Len(c) + Len(p)
    BY <1>2, <1>7
  <2>3. CASE i <= Len(h)
    <3>1. ((h \o c) \o p)[i] = h[i]
      BY <1>2, <1>3, <1>5, <2>2, <2>3
    <3>2. ((h \o g) \o p)[i] = h[i]
      BY <1>1, <1>2, <1>4, <1>6, <2>2, <2>3
    <3> QED BY <2>1, <3>1, <3>2
  <2>4. CASE ~(i <= Len(h)) /\ i <= Len(h) + Len(c)
    <3>1. ((h \o c) \o p)[i] = c[i - Len(h)]
      BY <1>2, <1>3, <1>5, <2>2, <2>4
    <3>2. ((h \o g) \o p)[i] = g[i - Len(h)]
      BY <1>1, <1>2, <1>4, <1>6, <2>2, <2>4
    <3>3. i - Len(h) \in 1..Len(c)
      BY <1>2, <2>2, <2>4
    <3>4. g[i - Len(h)] \in {c[i - Len(h)], Lost}
      BY <1>1, <3>3
    <3> QED BY <2>1, <3>1, <3>2, <3>4
  <2>5. CASE ~(i <= Len(h) + Len(c))
    <3>1. ((h \o c) \o p)[i] = p[i - (Len(h) + Len(c))]
      BY <1>2, <1>3, <1>5, <2>2, <2>5
    <3>2. ((h \o g) \o p)[i] = p[i - (Len(h) + Len(c))]
      BY <1>1, <1>2, <1>4, <1>6, <2>2, <2>5
    <3> QED BY <2>1, <3>1, <3>2
  <2> QED BY <2>3, <2>4, <2>5
<1> QED BY <1>8, <1>9 DEF InPlace, g

(* A read() takes the front of the pipe, at most ReadCap units, and leaves *)
(* what is behind it.                                                      *)
LEMMA ReadCuts ==
    ASSUME NEW p \in Seq(Unit)
    PROVE  /\ SubSeq(p, 1, Taken(p)) \in Seq(Unit) /\ Rest(p) \in Seq(Unit)
           /\ Len(SubSeq(p, 1, Taken(p))) <= ReadCap
           /\ Len(Rest(p)) <= Len(p)
           /\ SubSeq(p, 1, Taken(p)) \o Rest(p) = p
<1>1. Len(p) \in Nat /\ Taken(p) \in 0..Len(p) /\ Taken(p) <= ReadCap
  BY LenProperties, TwoWayChatAssumption DEF Taken
<1>2. \A i \in 1..Len(p) : p[i] \in Unit
  BY LenProperties
<1> DEFINE k == Taken(p)
<1>3. k \in 0..Len(p) /\ k <= ReadCap
  BY <1>1
<1> HIDE DEF k
<1>4. /\ SubSeq(p, 1, k) \in Seq(Unit)
      /\ Len(SubSeq(p, 1, k)) = IF 1 <= k THEN k - 1 + 1 ELSE 0
  <2>1. 1 \in Int /\ k \in Int /\ \A i \in 1..k : p[i] \in Unit
    BY <1>1, <1>2, <1>3
  <2> QED BY <2>1, SubSeqProperties
<1>5. /\ SubSeq(p, k + 1, Len(p)) \in Seq(Unit)
      /\ Len(SubSeq(p, k + 1, Len(p))) =
             IF k + 1 <= Len(p) THEN Len(p) - (k + 1) + 1 ELSE 0
  <2>1. k + 1 \in Int /\ Len(p) \in Int /\ \A i \in (k + 1)..Len(p) : p[i] \in Unit
    BY <1>1, <1>2, <1>3
  <2> QED BY <2>1, SubSeqProperties
<1>6. SubSeq(p, 1, k) \o SubSeq(p, k + 1, Len(p)) = p
  <2>1. 1 \in 1..(Len(p) + 1) /\ k \in (1 - 1)..Len(p) /\ Len(p) \in k..Len(p)
    BY <1>1, <1>3
  <2>2. SubSeq(p, 1, k) \o SubSeq(p, k + 1, Len(p)) = SubSeq(p, 1, Len(p))
    BY <2>1, ConcatAdjacentSubSeq
  <2> QED BY <2>2, SubSeqFull
<1>7. Len(SubSeq(p, 1, k)) <= ReadCap
  BY <1>1, <1>3, <1>4, TwoWayChatAssumption
<1>8. Len(SubSeq(p, k + 1, Len(p))) <= Len(p)
  BY <1>1, <1>3, <1>5
<1> QED BY <1>4, <1>5, <1>6, <1>7, <1>8 DEF Rest, k

-----------------------------------------------------------------------------
(* The invariant. *)

LEMMA InitTwoWayInv == Init => TwoWayInv
<1> SUFFICES ASSUME Init PROVE TwoWayInv
  OBVIOUS
<1>1. << >> \in Seq(Unit) /\ Len(<< >>) = 0
  OBVIOUS
<1>2. InitialArr \in [Slots -> Elements]
  BY DEF InitialArr, Elements
<1>3. Shapes
  BY <1>1, <1>2, TwoWayChatAssumption DEF Init, Shapes
<1>4. Bounded
  BY <1>1, TwoWayChatAssumption DEF Init, Bounded
<1>5. \A c \in Clients : ~Serves(InitialArr, c)
  BY TwoWayChatAssumption DEF Serves, InitialArr
<1>6. Accepted /\ Unused /\ StreamInPlace
  BY <1>5 DEF Init, Accepted, Unused, StreamInPlace, InPlace
<1> QED BY <1>3, <1>4, <1>6 DEF TwoWayInv

(* Whoever is in the array after an accept() was in it before, or is the   *)
(* client accepted.                                                        *)
LEMMA ArrWithResult ==
    ASSUME Shapes, NEW c \in Clients
    PROVE  /\ ArrWith(c) \in [Slots -> Elements]
           /\ \A d \in Clients : Serves(ArrWith(c), d) => d = c \/ Serves(arr, d)
<1> DEFINE first == CHOOSE i \in Slots : arr[i] = Empty /\ \A j \in 1..(i-1) : arr[j] # Empty
<1>1. ArrWith(c) \in {arr, [arr EXCEPT ![first] = c]}
  BY DEF ArrWith
<1> HIDE DEF first
<1>2. arr \in [Slots -> Elements] /\ c \in Elements
  BY DEF Shapes, Elements
<1>3. [arr EXCEPT ![first] = c] \in [Slots -> Elements]
  BY <1>2
<1>4. \A i \in Slots : [arr EXCEPT ![first] = c][i] = IF i = first THEN c ELSE arr[i]
  BY <1>2
<1> QED BY <1>1, <1>2, <1>3, <1>4 DEF Serves

LEMMA AcceptKeepsInv ==
    ASSUME TwoWayInv, NEW c \in Clients, Accept(c)
    PROVE  TwoWayInv'
<1>1. /\ client[c] = "off" /\ client' = [client EXCEPT ![c] = "in"]
      /\ arr' = ArrWith(c)
      /\ UNCHANGED <<conn, sent, msg, pipe, written, chunk, heard, unread>>
  BY DEF Accept, pipeVars
<1>2. Shapes /\ client \in [Clients -> {"off", "in", "left"}]
  BY DEF TwoWayInv, Shapes
<1>3. /\ handler' \in [Clients -> {"none", "recv", "write", "exit", "done"}]
      /\ \A d \in Clients : d # c => handler'[d] = handler[d]
  <2>1. PICK forked \in BOOLEAN :
            handler' = [handler EXCEPT ![c] = IF forked THEN "recv" ELSE "none"]
    BY DEF Accept
  <2>2. handler \in [Clients -> {"none", "recv", "write", "exit", "done"}]
    BY <1>2 DEF Shapes
  <2> QED BY <2>1, <2>2
<1>4. \/ /\ \A d \in Clients : client[d] = "off"
         /\ cast' \in {"up", "dead"} /\ castArr' = ArrWith(c)
      \/ cast' = cast /\ castArr' = castArr
  BY DEF Accept
<1>5. /\ ArrWith(c) \in [Slots -> Elements]
      /\ \A d \in Clients : Serves(ArrWith(c), d) => d = c \/ Serves(arr, d)
  BY <1>2, ArrWithResult
<1>6. Shapes'
  BY <1>1, <1>2, <1>3, <1>4, <1>5 DEF Shapes
<1>7. Bounded' /\ Unused'
  <2>1. client'[c] = "in"
    BY <1>1, <1>2
  <2> QED BY <1>1, <2>1 DEF TwoWayInv, Bounded, Unused
<1>8. Accepted'
  <2>1. \A d \in Clients : client'[d] = IF d = c THEN "in" ELSE client[d]
    BY <1>1, <1>2
  <2>2. \A d \in Clients : Serves(arr', d) \/ Serves(castArr', d) =>
                               d = c \/ Serves(arr, d) \/ Serves(castArr, d)
    BY <1>1, <1>4, <1>5
  <2> QED BY <1>1, <1>3, <2>1, <2>2 DEF TwoWayInv, Accepted
<1>9. StreamInPlace'
  <2>1. CASE \A d \in Clients : client[d] = "off"
    <3>1. /\ pipe' = << >> /\ chunk' = << >> /\ written' = << >>
          /\ \A d \in Clients : heard'[d] = << >>
      BY <1>1, <2>1 DEF TwoWayInv, Unused
    <3>2. << >> \o << >> \o << >> = << >>
      OBVIOUS
    <3>3. InPlace(<< >>, << >>)
      BY DEF InPlace
    <3> QED BY <3>1, <3>2, <3>3 DEF StreamInPlace
  <2>2. CASE ~\A d \in Clients : client[d] = "off"
    <3>1. cast' = cast /\ castArr' = castArr
      BY <1>4, <2>2
    <3>2. ~Serves(castArr, c)
      BY <1>1 DEF TwoWayInv, Accepted
    <3>3. \A d \in Clients : d # c => client'[d] = client[d]
      BY <1>1, <1>2
    <3> QED BY <1>1, <3>1, <3>2, <3>3 DEF TwoWayInv, StreamInPlace
  <2> QED BY <2>1, <2>2
<1> QED BY <1>6, <1>7, <1>8, <1>9 DEF TwoWayInv

LEMMA HandlerKeepsInv ==
    ASSUME TwoWayInv, NEW c \in Clients,
           Receive(c) \/ ReceiveError(c) \/ Disconnect(c) \/ Leave(c) \/ ClientReads(c)
    PROVE  TwoWayInv'
<1>1. /\ UNCHANGED <<arr, pipe, written, cast, castArr, chunk, heard>>
      /\ \A d \in Clients : client'[d] = "off" <=> client[d] = "off"
      /\ \A d \in Clients : client'[d] = "in" => client[d] = "in"
      /\ \A d \in Clients : client'[d] # "left" /\ conn[d] = "open" =>
                                  client[d] # "left" /\ conn'[d] = "open"
      /\ \A d \in Clients : client'[d] # "left" => client[d] # "left"
      /\ \A d \in Clients : handler'[d] # "none" => handler[d] # "none"
  <2>1. CASE Receive(c) \/ Disconnect(c) \/ Leave(c)
    BY <2>1 DEF Receive, Disconnect, Leave, clientVars, pipeVars, castVars, handlerVars,
       TwoWayInv, Shapes
  <2>2. CASE ReceiveError(c) \/ ClientReads(c)
    BY <2>2 DEF ReceiveError, ClientReads, clientVars, pipeVars, castVars, handlerVars,
       TwoWayInv, Shapes
  <2> QED BY <2>1, <2>2
<1>2. Shapes'
  <2>1. CASE Receive(c)
    <3>1. PICK s \in Sizes : msg' = [msg EXCEPT ![c] =
              [k \in 1..s |-> [from |-> c, n |-> sent[c] + 1, part |-> k]]]
      BY <2>1 DEF Receive
    <3>2. s \in Nat /\ sent[c] \in Nat
      BY TwoWayChatAssumption DEF TwoWayInv, Shapes
    <3>3. [k \in 1..s |-> [from |-> c, n |-> sent[c] + 1, part |-> k]] \in Seq(Unit)
      <4>1. \A k \in 1..s : [from |-> c, n |-> sent[c] + 1, part |-> k] \in Unit
        BY <3>2 DEF Unit
      <4> QED BY <3>2, <4>1, IsASeq
    <3>4. msg' \in [Clients -> Seq(Unit)]
      BY <3>1, <3>3 DEF TwoWayInv, Shapes
    <3>5. /\ sent' \in [Clients -> Nat]
          /\ handler' \in [Clients -> {"none", "recv", "write", "exit", "done"}]
          /\ UNCHANGED <<client, conn, unread>>
      <4>1. /\ sent' = [sent EXCEPT ![c] = sent[c] + 1]
            /\ \E next \in {"write", "exit"} : handler' = [handler EXCEPT ![c] = next]
            /\ UNCHANGED <<client, conn, unread>>
        BY <2>1 DEF Receive, castVars
      <4> QED BY <3>2, <4>1 DEF TwoWayInv, Shapes
    <3> QED BY <1>1, <3>4, <3>5 DEF TwoWayInv, Shapes
  <2>2. CASE Disconnect(c)
    BY <1>1, <2>2 DEF Disconnect, clientVars, castVars, TwoWayInv, Shapes
  <2>3. CASE Leave(c)
    <3>1. /\ client' \in [Clients -> {"off", "in", "left"}]
          /\ conn' \in [Clients -> {"open", "fin", "error", "reset", "gone"}]
          /\ UNCHANGED <<sent, handler, msg, unread>>
      BY <2>3 DEF Leave, handlerVars, castVars, TwoWayInv, Shapes
    <3> QED BY <1>1, <3>1 DEF TwoWayInv, Shapes
  <2>4. CASE ReceiveError(c)
    <3>1. /\ conn' \in [Clients -> {"open", "fin", "error", "reset", "gone"}]
          /\ handler' \in [Clients -> {"none", "recv", "write", "exit", "done"}]
          /\ msg' \in [Clients -> Seq(Unit)]
          /\ UNCHANGED <<client, sent, unread>>
      BY <2>4, EmptySeq DEF ReceiveError, castVars, TwoWayInv, Shapes
    <3> QED BY <1>1, <3>1 DEF TwoWayInv, Shapes
  <2>5. CASE ClientReads(c)
    <3>1. /\ unread' = [unread EXCEPT ![c] = unread[c] - 1] /\ unread[c] > 0
          /\ UNCHANGED <<client, conn, sent, handler, msg>>
      BY <2>5 DEF ClientReads, clientVars, handlerVars
    <3>2. unread[c] - 1 \in 0..SockCap
      BY <3>1, TwoWayChatAssumption DEF TwoWayInv, Shapes
    <3>3. unread' \in [Clients -> 0..SockCap]
      BY <3>1, <3>2 DEF TwoWayInv, Shapes
    <3> QED BY <1>1, <3>1, <3>3 DEF TwoWayInv, Shapes
  <2> QED BY <2>1, <2>2, <2>3, <2>4, <2>5
<1>3. Bounded' /\ Unused' /\ StreamInPlace'
  BY <1>1 DEF TwoWayInv, Bounded, Unused, StreamInPlace
<1>4. Accepted'
  BY <1>1 DEF TwoWayInv, Accepted
<1> QED BY <1>2, <1>3, <1>4 DEF TwoWayInv

LEMMA WriteKeepsInv ==
    ASSUME TwoWayInv, NEW c \in Clients, Write(c)
    PROVE  TwoWayInv'
<1>1. /\ handler[c] # "none" /\ Len(pipe) + Len(msg[c]) <= PipeCap
      /\ pipe' = pipe \o msg[c] /\ written' = written \o msg[c]
      /\ UNCHANGED <<client, conn, sent, arr, cast, castArr, chunk, heard, unread>>
      /\ msg' = [msg EXCEPT ![c] = << >>]
      /\ handler' = [handler EXCEPT ![c] = IF @ = "exit" THEN "done" ELSE "recv"]
  BY DEF Write, clientVars, castVars
<1>2. /\ pipe \in Seq(Unit) /\ written \in Seq(Unit) /\ msg[c] \in Seq(Unit) /\ chunk \in Seq(Unit)
      /\ \A d \in Clients : heard[d] \in Seq(Sent)
      /\ << >> \in Seq(Unit)
  BY EmptySeq DEF TwoWayInv, Shapes
<1>3. /\ pipe' \in Seq(Unit) /\ written' \in Seq(Unit)
      /\ Len(pipe') = Len(pipe) + Len(msg[c])
  BY <1>1, <1>2, ConcatProperties
<1>4. /\ msg' \in [Clients -> Seq(Unit)]
      /\ handler' \in [Clients -> {"none", "recv", "write", "exit", "done"}]
      /\ \A d \in Clients : handler'[d] # "none" => handler[d] # "none"
  BY <1>1, <1>2 DEF TwoWayInv, Shapes
<1>5. Shapes'
  BY <1>1, <1>3, <1>4 DEF TwoWayInv, Shapes
<1>6. Bounded'
  BY <1>1, <1>3 DEF TwoWayInv, Bounded
<1>7. Accepted' /\ Unused'
  BY <1>1, <1>4 DEF TwoWayInv, Accepted, Unused
<1>8. StreamInPlace'
  <2> SUFFICES ASSUME NEW d \in Clients, client[d] = "in", cast = "up", Serves(castArr, d)
               PROVE  InPlace(heard[d] \o chunk \o pipe', written')
    BY <1>1 DEF StreamInPlace
  <2>1. InPlace(heard[d] \o chunk \o pipe, written)
    BY DEF TwoWayInv, StreamInPlace
  <2>2. pipe \in Seq(Sent) /\ msg[c] \in Seq(Sent) /\ chunk \in Seq(Sent)
    BY <1>2, UnitsAreSent
  <2>3. heard[d] \o chunk \in Seq(Sent)
    BY <1>2, <2>2, ConcatProperties
  <2>4. (heard[d] \o chunk) \o pipe \in Seq(Sent)
    BY <2>2, <2>3, ConcatProperties
  <2>5. InPlace(((heard[d] \o chunk) \o pipe) \o msg[c], written \o msg[c])
    BY <1>2, <2>1, <2>4, Continued
  <2>6. ((heard[d] \o chunk) \o pipe) \o msg[c] = (heard[d] \o chunk) \o (pipe \o msg[c])
    BY <2>2, <2>3, Associative
  <2> QED BY <1>1, <2>5, <2>6
<1> QED BY <1>5, <1>6, <1>7, <1>8 DEF TwoWayInv

LEMMA CastReadKeepsInv ==
    ASSUME TwoWayInv, CastRead
    PROVE  TwoWayInv'
<1>1. /\ chunk = << >> /\ chunk' = SubSeq(pipe, 1, Taken(pipe)) /\ pipe' = Rest(pipe)
      /\ UNCHANGED <<client, conn, sent, arr, handler, msg, written, cast, castArr, heard, unread>>
  BY DEF CastRead, clientVars, handlerVars
<1>2. pipe \in Seq(Unit) /\ Len(pipe) \in Nat /\ Len(pipe) <= PipeCap
      /\ \A d \in Clients : heard[d] \in Seq(Sent)
  BY LenProperties DEF TwoWayInv, Shapes, Bounded
<1>3. /\ chunk' \in Seq(Unit) /\ pipe' \in Seq(Unit) /\ Len(chunk') <= ReadCap
      /\ Len(pipe') <= Len(pipe) /\ chunk' \o pipe' = pipe /\ Len(pipe') \in Nat
  BY <1>1, <1>2, ReadCuts, LenProperties
<1>4. Shapes'
  BY <1>1, <1>3 DEF TwoWayInv, Shapes
<1>5. Bounded'
  BY <1>2, <1>3, TwoWayChatAssumption DEF Bounded
<1>6. Accepted'
  BY <1>1 DEF TwoWayInv, Accepted
<1>7. Unused'
  <2> SUFFICES ASSUME \A c \in Clients : client[c] = "off"
               PROVE  /\ pipe' = << >> /\ written' = << >> /\ chunk' = << >>
                      /\ \A c \in Clients : heard'[c] = << >>
    BY <1>1 DEF Unused
  <2>1. pipe = << >> /\ written = << >> /\ \A c \in Clients : heard[c] = << >>
    BY DEF TwoWayInv, Unused
  <2>2. chunk' = << >> /\ pipe' = << >>
    BY <1>3, <2>1, ConcatSimplifications
  <2> QED BY <1>1, <2>1, <2>2
<1>8. StreamInPlace'
  <2> SUFFICES ASSUME NEW d \in Clients, client[d] = "in", cast = "up", Serves(castArr, d)
               PROVE  InPlace(heard[d] \o chunk' \o pipe', written)
    BY <1>1 DEF StreamInPlace
  <2>1. InPlace(heard[d] \o chunk \o pipe, written)
    BY DEF TwoWayInv, StreamInPlace
  <2>2. heard[d] \o chunk = heard[d]
    BY <1>1, <1>2, ConcatEmptySeq
  <2>3. (heard[d] \o chunk') \o pipe' = heard[d] \o (chunk' \o pipe')
    <3>1. heard[d] \in Seq(Sent) /\ chunk' \in Seq(Sent) /\ pipe' \in Seq(Sent)
      BY <1>2, <1>3, UnitsAreSent
    <3> QED BY <3>1, Associative
  <2> QED BY <1>3, <2>1, <2>2, <2>3
<1> QED BY <1>4, <1>5, <1>6, <1>7, <1>8 DEF TwoWayInv

LEMMA CastSendKeepsInv ==
    ASSUME TwoWayInv, CastSend
    PROVE  TwoWayInv'
<1> DEFINE To(d) == d \in {c \in Clients : Serves(castArr, c)}
           Open(d) == d \in {c \in {e \in Clients : Serves(castArr, e)} : conn[c] = "open"}
<1>1. /\ chunk' = << >> /\ cast = "up" /\ cast' \in {"up", "dead"}
      /\ conn' = [c \in Clients |->
             IF To(c) /\ conn[c] \in {"fin", "error"} THEN "reset" ELSE conn[c]]
      /\ \A c \in Clients : Open(c) => unread[c] < SockCap
      /\ unread' = [c \in Clients |-> IF Open(c) THEN unread[c] + 1 ELSE unread[c]]
      /\ UNCHANGED <<client, sent, arr, handler, msg, pipe, written, castArr>>
  BY DEF CastSend, handlerVars, pipeVars
<1>2. PICK kept : heard' = [c \in Clients |-> IF Open(c)
                                THEN heard[c] \o Garbled(chunk, kept) ELSE heard[c]]
  BY DEF CastSend
<1>3. \A c \in Clients : /\ To(c) <=> Serves(castArr, c)
                         /\ Open(c) <=> Serves(castArr, c) /\ conn[c] = "open"
  OBVIOUS
<1> HIDE DEF To, Open
<1>4. chunk \in Seq(Unit) /\ pipe \in Seq(Unit) /\ written \in Seq(Unit)
      /\ << >> \in Seq(Unit) /\ Len(<< >>) = 0
  BY EmptySeq DEF TwoWayInv, Shapes
<1>5. \A c \in Clients : heard[c] \in Seq(Sent) /\ heard[c] \o Garbled(chunk, kept) \in Seq(Sent)
  <2>1. Garbled(chunk, kept) \in Seq(Sent)
    BY <1>4, GarbledType
  <2>2. \A c \in Clients : heard[c] \in Seq(Sent)
    BY DEF TwoWayInv, Shapes
  <2> QED BY <2>1, <2>2, ConcatProperties
<1>6. Shapes'
  <2>1. heard' \in [Clients -> Seq(Sent)]
    BY <1>2, <1>5
  <2>2. conn' \in [Clients -> {"open", "fin", "error", "reset", "gone"}]
    BY <1>1 DEF TwoWayInv, Shapes
  <2>3. \A c \in Clients : unread[c] \in 0..SockCap
    BY DEF TwoWayInv, Shapes
  <2>4. \A c \in Clients : (IF Open(c) THEN unread[c] + 1 ELSE unread[c]) \in 0..SockCap
    BY <1>1, <2>3, TwoWayChatAssumption
  <2>5. unread' \in [Clients -> 0..SockCap]
    BY <1>1, <2>4
  <2> QED BY <1>1, <1>4, <2>1, <2>2, <2>5 DEF TwoWayInv, Shapes
<1>7. Bounded'
  BY <1>1, <1>4, TwoWayChatAssumption DEF TwoWayInv, Bounded
<1>8. Accepted'
  BY <1>1 DEF TwoWayInv, Accepted
<1>9. Unused'
  <2> SUFFICES ASSUME \A c \in Clients : client[c] = "off"
               PROVE  /\ pipe = << >> /\ written = << >>
                      /\ \A c \in Clients : heard'[c] = << >>
    BY <1>1 DEF Unused
  <2>1. \A c \in Clients : ~Open(c)
    BY <1>3 DEF TwoWayInv, Accepted
  <2> QED BY <1>2, <2>1 DEF TwoWayInv, Unused
<1>10. StreamInPlace'
  <2> SUFFICES ASSUME NEW d \in Clients, client[d] = "in", Serves(castArr, d)
               PROVE  InPlace(heard'[d] \o chunk' \o pipe, written)
    BY <1>1 DEF StreamInPlace
  <2>1. InPlace((heard[d] \o chunk) \o pipe, written)
    BY <1>1 DEF TwoWayInv, StreamInPlace
  <2>2. heard'[d] = heard[d] \o Garbled(chunk, kept)
    BY <1>2, <1>3 DEF TwoWayInv, Accepted
  <2>3. (heard[d] \o Garbled(chunk, kept)) \o << >> = heard[d] \o Garbled(chunk, kept)
    BY <1>5, ConcatEmptySeq
  <2>4. InPlace((heard[d] \o Garbled(chunk, kept)) \o pipe, written)
    BY <1>4, <1>5, <2>1, GarbledInPlace
  <2> QED BY <1>1, <2>2, <2>3, <2>4
<1> QED BY <1>6, <1>7, <1>8, <1>9, <1>10 DEF TwoWayInv

LEMMA NextTwoWayInv == TwoWayInv /\ [Next]_vars => TwoWayInv'
<1> SUFFICES ASSUME TwoWayInv, [Next]_vars PROVE TwoWayInv'
  OBVIOUS
<1>1. CASE UNCHANGED vars
  BY <1>1 DEF vars, clientVars, handlerVars, pipeVars, castVars, TwoWayInv, Shapes, Bounded,
     Accepted, Unused, StreamInPlace
<1> QED
  BY <1>1, AcceptKeepsInv, HandlerKeepsInv, WriteKeepsInv, CastReadKeepsInv, CastSendKeepsInv
     DEF Next

(* The inductive invariant of the chat. *)
THEOREM TwoWayChatSound == Spec => []TwoWayInv
<1> QED BY InitTwoWayInv, NextTwoWayInv, PTL DEF Spec

(* Type correctness: pipe and buffer never hold more than they can.        *)
THEOREM TwoWayTypeCorrect == Spec => []TypeOK
<1>1. TwoWayInv => TypeOK
  BY DEF TwoWayInv, Shapes, Bounded, Elements, TypeOK
<1> QED BY <1>1, TwoWayChatSound, PTL

(* Wherever the reads cut what the handlers write into the pipe, what the *)
(* client served is sent has every unit at its place, once and in order:   *)
(* only what snprintf() writes over or cuts off is missing.                *)
THEOREM SentInPlace == Spec => []StreamInPlace
<1>1. TwoWayInv => StreamInPlace
  BY DEF TwoWayInv
<1> QED BY <1>1, TwoWayChatSound, PTL

=============================================================================
