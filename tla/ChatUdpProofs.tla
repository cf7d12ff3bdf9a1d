---------------------------- MODULE ChatUdpProofs -----------------------------
(***************************************************************************)
(* Theorems about module ChatUdp, for every number of users, of entries in *)
(* clients[] and of places in the sockets.                                 *)
(***************************************************************************)
EXTENDS ChatUdp, SequenceTheorems, TLAPS

-----------------------------------------------------------------------------
(* The inductive invariant, in parts. *)

Shapes ==
    /\ TypeOK
    /\ cursor <= Len(clients) + 1
    /\ Broadcasting => current \in Message

(* No message is taken twice: those that wait are not the ones taken, and  *)
(* those a user will type are none of both.                                *)
NoneTwice(s) == \A i, j \in 1..Len(s) : s[i] = s[j] => i = j

AlreadyTyped(m) == m.n <= typed[m.from]

Fresh ==
    /\ \A i \in 1..Len(inbox) : AlreadyTyped(inbox[i])
    /\ \A i \in 1..Len(screen) : AlreadyTyped(screen[i])
    /\ NoneTwice(inbox) /\ NoneTwice(screen)
    /\ \A i \in 1..Len(inbox) : \A j \in 1..Len(screen) : inbox[i] # screen[j]

(* Those in the table have spoken, and those who have spoken are in it or  *)
(* it is full.                                                             *)
HasSpoken(u) == \E j \in 1..Len(screen) : screen[j].from = u

Enrolment ==
    /\ NoneTwice(clients)
    /\ \A u \in Users : Known(u) => HasSpoken(u)
    /\ \A u \in Users : HasSpoken(u) => Known(u) \/ Len(clients) >= MaxClients
    /\ screen # << >> => current = screen[Len(screen)]

(* What u has printed and what waits in its socket: messages for u in the  *)
(* order in which they were taken, and not yet the one it is due.          *)
Got(u) == seen[u] \o mail[u]

IsFor(u, m) ==
    \E i \in 1..Len(screen) :
        screen[i] = m /\ m.from # u /\ \E j \in 1..(i-1) : screen[j].from = u

GotInOrder(u) ==
    /\ \A k \in 1..Len(Got(u)) : IsFor(u, Got(u)[k])
    /\ \A l \in 1..Len(Got(u)) : \A k \in 1..(l-1) : TakenBefore(Got(u)[k], Got(u)[l])

IsDue(u) == \E i \in cursor..Len(clients) : clients[i] = u

NotYet(u) == IsDue(u) => \A k \in 1..Len(Got(u)) : Got(u)[k] # current

InOrder == \A u \in Users : GotInOrder(u) /\ NotYet(u)

OrderInv == Shapes /\ Fresh /\ Enrolment /\ InOrder

(* What u should get it has, or is about to be handed. *)
NothingLost ==
    \A u \in Users \ missed : \A m \in Meant(u) :
        \/ \E k \in 1..Len(Got(u)) : Got(u)[k] = m
        \/ m = current /\ IsDue(u)

(* Nobody is handed anything before being in the table. *)
HandedToKnown == \A u \in Users : Len(Got(u)) > 0 => Known(u)

-----------------------------------------------------------------------------
(* Sequences. *)

(* To read the first of t and to note it down loses nothing.               *)
LEMMA MovedOver ==
    ASSUME NEW S, NEW s \in Seq(S), NEW t \in Seq(S), t # << >>
    PROVE  /\ Append(s, Head(t)) \in Seq(S) /\ Tail(t) \in Seq(S)
           /\ Append(s, Head(t)) \o Tail(t) = s \o t
<1> DEFINE a == Append(s, Head(t))
           b == Tail(t)
<1>1. /\ Head(t) \in S /\ b \in Seq(S) /\ Len(b) = Len(t) - 1
      /\ \A i \in 1..Len(b) : b[i] = t[i+1]
      /\ Len(s) \in Nat /\ Len(t) \in Nat /\ Head(t) = t[1]
  BY HeadTailProperties, LenProperties
<1>2. /\ a \in Seq(S) /\ Len(a) = Len(s) + 1
      /\ \A i \in 1..Len(s) : a[i] = s[i]
      /\ a[Len(s) + 1] = t[1]
  BY <1>1, AppendProperties
<1> HIDE DEF a, b
<1>3. /\ a \o b \in Seq(S) /\ Len(a \o b) = Len(a) + Len(b)
      /\ \A i \in 1..Len(a) + Len(b) : (a \o b)[i] = IF i <= Len(a) THEN a[i] ELSE b[i - Len(a)]
  BY <1>1, <1>2, ConcatProperties
<1>4. /\ s \o t \in Seq(S) /\ Len(s \o t) = Len(s) + Len(t)
      /\ \A i \in 1..Len(s) + Len(t) : (s \o t)[i] = IF i <= Len(s) THEN s[i] ELSE t[i - Len(s)]
  BY ConcatProperties
<1>5. ASSUME NEW i \in 1..Len(s) + Len(t) PROVE (a \o b)[i] = (s \o t)[i]
  <2>1. CASE i <= Len(s)
    BY <1>1, <1>2, <1>3, <1>4, <2>1
  <2>2. CASE i = Len(s) + 1
    BY <1>1, <1>2, <1>3, <1>4, <2>2
  <2>3. CASE i > Len(s) + 1
    <3>1. i - Len(a) \in 1..Len(b) /\ i - Len(a) + 1 = i - Len(s)
      BY <1>1, <1>2, <2>3
    <3>2. b[i - Len(a)] = t[i - Len(s)]
      BY <1>1, <3>1
    <3>3. (a \o b)[i] = b[i - Len(a)] /\ (s \o t)[i] = t[i - Len(s)]
      BY <1>1, <1>2, <1>3, <1>4, <2>3
    <3> QED BY <3>2, <3>3
  <2>4. i <= Len(s) \/ i = Len(s) + 1 \/ i > Len(s) + 1
    BY <1>1
  <2> QED BY <2>1, <2>2, <2>3, <2>4
<1>6. Len(a \o b) = Len(s \o t) /\ Len(s \o t) = Len(s) + Len(t)
  BY <1>1, <1>2, <1>3, <1>4
<1>7. a \o b = s \o t
  BY <1>3, <1>4, <1>5, <1>6, SeqEqual
<1> QED BY <1>1, <1>2, <1>7 DEF a, b

LEMMA AppendedBehind ==
    ASSUME NEW S, NEW s \in Seq(S), NEW t \in Seq(S), NEW e \in S
    PROVE  s \o Append(t, e) = Append(s \o t, e)
<1>1. Append(t, e) = t \o <<e>> /\ <<e>> \in Seq(S) /\ s \o t \in Seq(S)
  BY AppendIsConcat, ConcatProperties
<1>2. Append(s \o t, e) = (s \o t) \o <<e>>
  BY <1>1, AppendIsConcat
<1> QED BY <1>1, <1>2, ConcatAssociative

-----------------------------------------------------------------------------
(* Type correctness. *)

(* recvfrom() of m: what becomes of the sequences. *)
Takes(m) ==
    /\ Len(inbox) \in Nat \ {0} /\ Len(screen) \in Nat /\ Len(clients) \in Nat
    /\ inbox[1] = m
    /\ inbox' \in Seq(Message) /\ Len(inbox') = Len(inbox) - 1
    /\ \A i \in 1..Len(inbox') : inbox'[i] = inbox[i+1]
    /\ screen' \in Seq(Message) /\ Len(screen') = Len(screen) + 1
    /\ \A i \in 1..Len(screen) : screen'[i] = screen[i]
    /\ screen'[Len(screen) + 1] = m
    /\ current' = m /\ cursor' = 1
    /\ UNCHANGED <<mail, seen, typed, missed>>

Enrols(u) ==
    /\ clients' \in Seq(Users) /\ Len(clients') <= MaxClients /\ Len(clients) \in Nat
    /\ \A i \in 1..Len(clients) : clients'[i] = clients[i]
    /\ \/ clients' = clients /\ (Known(u) \/ Len(clients) >= MaxClients)
       \/ /\ ~Known(u) /\ Len(clients) < MaxClients
          /\ Len(clients') = Len(clients) + 1
          /\ clients'[Len(clients) + 1] = u

LEMMA TakeResult ==
    ASSUME Shapes, Take
    PROVE  \E m \in Message : m.from \in Users /\ Takes(m) /\ Enrols(m.from)
<1>1. /\ inbox \in Seq(Message) /\ inbox # << >>
      /\ clients \in Seq(Users) /\ Len(clients) <= MaxClients /\ MaxClients \in Nat
      /\ screen \in Seq(Message)
  BY ChatUdpAssumption DEF Shapes, TypeOK, Take
<1>2. /\ Len(inbox) \in Nat \ {0} /\ Len(screen) \in Nat /\ Len(clients) \in Nat
      /\ Head(inbox) = inbox[1]
      /\ Tail(inbox) \in Seq(Message) /\ Len(Tail(inbox)) = Len(inbox) - 1
      /\ \A i \in 1..Len(Tail(inbox)) : Tail(inbox)[i] = inbox[i+1]
  BY <1>1, EmptySeq, LenProperties, HeadTailProperties
<1>3. PICK m \in Message : m = inbox[1]
  BY <1>1, <1>2, HeadTailProperties
<1>4. m.from \in Users
  BY <1>3 DEF Message
<1>5. /\ screen' = Append(screen, m) /\ clients' = Enrolled(m.from)
      /\ inbox' = Tail(inbox) /\ current' = m /\ cursor' = 1
      /\ UNCHANGED <<mail, seen, typed, missed>>
  BY <1>2, <1>3 DEF Take
<1>6. /\ screen' \in Seq(Message) /\ Len(screen') = Len(screen) + 1
      /\ \A i \in 1..Len(screen) : screen'[i] = screen[i]
      /\ screen'[Len(screen) + 1] = m
  BY <1>1, <1>3, <1>5, AppendProperties
<1>7. Enrols(m.from)
  <2>1. CASE ~Known(m.from) /\ Len(clients) < MaxClients
    <3>1. clients' = Append(clients, m.from)
      BY <1>5, <2>1 DEF Enrolled
    <3>2. /\ clients' \in Seq(Users) /\ Len(clients') = Len(clients) + 1
          /\ \A i \in 1..Len(clients) : clients'[i] = clients[i]
          /\ clients'[Len(clients) + 1] = m.from
      BY <1>1, <1>4, <3>1, AppendProperties
    <3> QED BY <1>1, <1>2, <2>1, <3>2 DEF Enrols
  <2>2. CASE ~(~Known(m.from) /\ Len(clients) < MaxClients)
    <3>1. clients' = clients
      BY <1>5, <2>2 DEF Enrolled
    <3> QED BY <1>1, <1>2, <2>2, <3>1 DEF Enrols
  <2> QED BY <2>1, <2>2
<1> QED BY <1>2, <1>3, <1>4, <1>5, <1>6, <1>7 DEF Takes

(* One round of the sending loop. *)
Hands(u) ==
    /\ Len(clients) \in Nat /\ cursor \in 1..Len(clients) /\ clients[cursor] = u
    /\ cursor' = cursor + 1
    /\ \/ UNCHANGED <<mail, missed>> /\ u = current.from
       \/ u # current.from /\ UNCHANGED mail /\ missed' = missed \cup {u}
       \/ /\ u # current.from /\ UNCHANGED missed
          /\ mail' = [mail EXCEPT ![u] = Append(mail[u], current)]
          /\ Len(mail[u]) < MailCap
    /\ UNCHANGED <<inbox, clients, current, seen, typed, screen>>

LEMMA HandOnResult ==
    ASSUME Shapes, HandOn
    PROVE  \E u \in Users : Hands(u)
<1>1. clients \in Seq(Users) /\ Len(clients) \in Nat /\ cursor \in 1..Len(clients)
  BY LenProperties, ChatUdpAssumption DEF Shapes, TypeOK, HandOn, Broadcasting
<1>2. clients[cursor] \in Users
  BY <1>1, ElementOfSeq
<1> QED BY <1>1, <1>2 DEF HandOn, Hands, NextCursor

(* A line is sent. *)
Types(u, m) ==
    /\ m = [from |-> u, n |-> typed[u] + 1] /\ m \in Message
    /\ Len(inbox) \in Nat /\ inbox' \in Seq(Message) /\ Len(inbox') <= InboxCap
    /\ \A i \in 1..Len(inbox) : inbox'[i] = inbox[i]
    /\ \/ inbox' = inbox
       \/ Len(inbox') = Len(inbox) + 1 /\ inbox'[Len(inbox) + 1] = m
    /\ typed' = [typed EXCEPT ![u] = typed[u] + 1]
    /\ typed' \in [Users -> 0..MaxMsgs]
    /\ UNCHANGED <<clients, current, cursor, mail, seen, screen, missed>>

LEMMA TypeResult ==
    ASSUME Shapes, NEW u \in Users, Type(u)
    PROVE  \E m \in Message : Types(u, m)
<1> DEFINE m == [from |-> u, n |-> typed[u] + 1]
<1>1. /\ typed[u] \in Nat /\ typed[u] + 1 \in 1..MaxMsgs
      /\ typed' = [typed EXCEPT ![u] = typed[u] + 1]
      /\ typed' \in [Users -> 0..MaxMsgs]
  <2>1. /\ typed \in [Users -> 0..MaxMsgs] /\ MaxMsgs \in Nat /\ typed[u] < MaxMsgs
        /\ typed' = [typed EXCEPT ![u] = typed[u] + 1]
    BY ChatUdpAssumption DEF Shapes, TypeOK, Type
  <2>2. typed[u] \in Nat /\ typed[u] + 1 \in 1..MaxMsgs /\ typed[u] + 1 \in 0..MaxMsgs
    BY <2>1
  <2> QED BY <2>1, <2>2
<1>2. m \in Message
  BY <1>1 DEF Message
<1>3. /\ inbox \in Seq(Message) /\ Len(inbox) \in Nat /\ Len(inbox) <= InboxCap
      /\ inbox' = IF Len(inbox) < InboxCap THEN Append(inbox, m) ELSE inbox
      /\ InboxCap \in Nat
  BY LenProperties, ChatUdpAssumption DEF Shapes, TypeOK, Type
<1> HIDE DEF m
<1>4. CASE Len(inbox) < InboxCap
  <2>1. /\ inbox' \in Seq(Message) /\ Len(inbox') = Len(inbox) + 1
        /\ \A i \in 1..Len(inbox) : inbox'[i] = inbox[i]
        /\ inbox'[Len(inbox) + 1] = m
    BY <1>2, <1>3, <1>4, AppendProperties
  <2>2. Len(inbox') <= InboxCap
    BY <1>3, <1>4, <2>1
  <2> QED BY <1>1, <1>2, <1>3, <2>1, <2>2 DEF Types, Type, m
<1>5. CASE ~(Len(inbox) < InboxCap)
  BY <1>1, <1>2, <1>3, <1>5 DEF Types, Type, m
<1> QED BY <1>4, <1>5

LEMMA NextShapes == Shapes /\ [Next]_chatVars => Shapes'
<1> SUFFICES ASSUME Shapes, [Next]_chatVars PROVE Shapes'
  OBVIOUS
<1>1. ASSUME NEW u \in Users, Type(u) PROVE Shapes'
  BY <1>1, TypeResult DEF Types, Shapes, TypeOK, Broadcasting
<1>2. ASSUME NEW u \in Users, Show(u) PROVE Shapes'
  <2>1. /\ mail[u] \in Seq(Message) /\ mail[u] # << >> /\ seen[u] \in Seq(Message)
        /\ Len(mail[u]) <= MailCap /\ MailCap \in Nat
    BY <1>2, ChatUdpAssumption DEF Shapes, TypeOK, Show
  <2>2. /\ Append(seen[u], Head(mail[u])) \in Seq(Message)
        /\ Tail(mail[u]) \in Seq(Message) /\ Len(Tail(mail[u])) = Len(mail[u]) - 1
        /\ Len(mail[u]) \in Nat
    BY <2>1, MovedOver, HeadTailProperties, LenProperties
  <2>3. /\ seen' \in [Users -> Seq(Message)] /\ mail' \in [Users -> Seq(Message)]
        /\ \A v \in Users : Len(mail'[v]) <= MailCap
    BY <1>2, <2>1, <2>2 DEF Shapes, TypeOK, Show
  <2> QED BY <1>2, <2>3 DEF Shapes, TypeOK, Show, Broadcasting
<1>3. CASE Take
  <2>1. PICK m \in Message : Takes(m) /\ Enrols(m.from)
    BY <1>3, TakeResult
  <2>2. cursor' \in 1..(MaxClients + 1) /\ cursor' <= Len(clients') + 1
    BY <2>1, ChatUdpAssumption, LenProperties DEF Takes, Enrols
  <2>3. Len(inbox') <= InboxCap
    BY <2>1, ChatUdpAssumption DEF Takes, Shapes, TypeOK
  <2> QED BY <2>1, <2>2, <2>3 DEF Takes, Enrols, Shapes, TypeOK
<1>4. CASE HandOn
  <2>1. PICK u \in Users : Hands(u)
    BY <1>4, HandOnResult
  <2>2. /\ cursor' \in 1..(MaxClients + 1) /\ cursor' <= Len(clients') + 1
        /\ Broadcasting
    BY <2>1, ChatUdpAssumption DEF Hands, Shapes, TypeOK, Broadcasting
  <2>3. mail' \in [Users -> Seq(Message)] /\ \A v \in Users : Len(mail'[v]) <= MailCap
    <3>1. CASE mail' = mail
      BY <3>1 DEF Shapes, TypeOK
    <3>2. CASE mail' # mail
      <4>1. /\ mail' = [mail EXCEPT ![u] = Append(mail[u], current)]
            /\ Len(mail[u]) < MailCap /\ mail[u] \in Seq(Message)
        BY <2>1, <3>2 DEF Hands, Shapes, TypeOK
      <4>2. current \in Message
        BY <2>2 DEF Shapes
      <4>3. Append(mail[u], current) \in Seq(Message) /\ Len(Append(mail[u], current)) <= MailCap
        BY <4>1, <4>2, AppendProperties, LenProperties, ChatUdpAssumption
      <4> QED BY <4>1, <4>3 DEF Shapes, TypeOK
    <3> QED BY <3>1, <3>2
  <2>4. missed' \subseteq Users
    BY <2>1 DEF Hands, Shapes, TypeOK
  <2> QED BY <2>1, <2>2, <2>3, <2>4 DEF Hands, Shapes, TypeOK
<1>5. CASE UNCHANGED chatVars
  BY <1>5 DEF chatVars, Shapes, TypeOK, Broadcasting
<1> QED BY <1>1, <1>2, <1>3, <1>4, <1>5 DEF Next

-----------------------------------------------------------------------------
(* No message is taken twice. *)

LEMMA TypeKeepsFresh ==
    ASSUME Shapes, Fresh, NEW u \in Users, Type(u)
    PROVE  Fresh'
<1>1. PICK m \in Message : Types(u, m)
  BY TypeResult
<1>2. /\ inbox \in Seq(Message) /\ screen \in Seq(Message) /\ screen' = screen
      /\ typed \in [Users -> Nat] /\ typed' \in [Users -> Nat]
      /\ typed'[u] = typed[u] + 1 /\ \A v \in Users : typed[v] <= typed'[v]
      /\ m.from = u /\ m.n = typed[u] + 1
  <2>1. /\ inbox \in Seq(Message) /\ screen \in Seq(Message) /\ screen' = screen
        /\ typed \in [Users -> 0..MaxMsgs] /\ typed' \in [Users -> 0..MaxMsgs]
        /\ typed' = [typed EXCEPT ![u] = typed[u] + 1] /\ MaxMsgs \in Nat
        /\ m.from = u /\ m.n = typed[u] + 1
    BY <1>1, ChatUdpAssumption DEF Shapes, TypeOK, Types
  <2>2. \A v \in Users : typed[v] \in Nat /\ typed[v] <= typed'[v]
    BY <2>1
  <2> QED BY <2>1, <2>2
<1>3. \A d \in Message : AlreadyTyped(d) => d # m /\ d.n <= typed'[d.from]
  BY <1>2 DEF AlreadyTyped, Message
<1>4. /\ \A i \in 1..Len(inbox) : inbox[i] \in Message
      /\ \A i \in 1..Len(screen) : screen[i] \in Message
  BY <1>2, ElementOfSeq
<1>5. ASSUME NEW i \in 1..Len(inbox')
      PROVE  \/ i \in 1..Len(inbox) /\ inbox'[i] = inbox[i] /\ inbox[i] # m
             \/ inbox'[i] = m /\ i = Len(inbox) + 1
  BY <1>1, <1>3, <1>4 DEF Types, Fresh
<1>6. ASSUME NEW i \in 1..Len(inbox') PROVE inbox'[i].n <= typed'[inbox'[i].from]
  <2>1. CASE i \in 1..Len(inbox) /\ inbox'[i] = inbox[i]
    BY <1>3, <1>4, <2>1 DEF Fresh
  <2>2. CASE inbox'[i] = m
    BY <1>2, <2>2
  <2> QED BY <1>5, <2>1, <2>2
<1>7. \A i \in 1..Len(screen) : screen[i].n <= typed'[screen[i].from] /\ screen[i] # m
  BY <1>3, <1>4 DEF Fresh
<1>8. NoneTwice(inbox')
  <2> SUFFICES ASSUME NEW i \in 1..Len(inbox'), NEW j \in 1..Len(inbox'), inbox'[i] = inbox'[j]
               PROVE  i = j
    BY DEF NoneTwice
  <2> QED BY <1>5 DEF Fresh, NoneTwice
<1>9. \A i \in 1..Len(inbox') : \A j \in 1..Len(screen) : inbox'[i] # screen[j]
  BY <1>5, <1>7 DEF Fresh
<1> QED BY <1>2, <1>6, <1>7, <1>8, <1>9 DEF Fresh, AlreadyTyped, NoneTwice

LEMMA TakeKeepsFresh ==
    ASSUME Shapes, Fresh, Take
    PROVE  Fresh'
<1>1. PICK m \in Message : Takes(m)
  BY TakeResult
<1>2. \A i \in 1..Len(inbox') : i + 1 \in 1..Len(inbox) /\ inbox'[i] = inbox[i+1] /\ inbox'[i] # m
  <2> SUFFICES ASSUME NEW i \in 1..Len(inbox')
               PROVE  i + 1 \in 1..Len(inbox) /\ inbox'[i] = inbox[i+1] /\ inbox'[i] # m
    OBVIOUS
  <2>1. i + 1 \in 1..Len(inbox) /\ inbox'[i] = inbox[i+1] /\ 1 \in 1..Len(inbox) /\ i + 1 # 1
    BY <1>1 DEF Takes
  <2> QED BY <1>1, <2>1 DEF Takes, Fresh, NoneTwice
<1>3. \A j \in 1..Len(screen') : \/ j \in 1..Len(screen) /\ screen'[j] = screen[j]
                                 \/ j = Len(screen) + 1 /\ screen'[j] = m
  BY <1>1 DEF Takes
<1>4. AlreadyTyped(m) /\ \A j \in 1..Len(screen) : screen[j] # m
  <2>1. 1 \in 1..Len(inbox) /\ inbox[1] = m
    BY <1>1 DEF Takes
  <2> QED BY <2>1 DEF Fresh
<1>5. typed' = typed
  BY <1>1 DEF Takes
<1>6. \A i \in 1..Len(inbox') : inbox'[i].n <= typed[inbox'[i].from]
  BY <1>2 DEF Fresh, AlreadyTyped
<1>7. \A i \in 1..Len(screen') : screen'[i].n <= typed[screen'[i].from]
  BY <1>3, <1>4 DEF Fresh, AlreadyTyped
<1>8. NoneTwice(screen')
  BY <1>1, <1>3, <1>4 DEF Fresh, NoneTwice
<1>9. NoneTwice(inbox')
  <2> SUFFICES ASSUME NEW i \in 1..Len(inbox'), NEW j \in 1..Len(inbox'), inbox'[i] = inbox'[j]
               PROVE  i = j
    BY DEF NoneTwice
  <2>1. i + 1 = j + 1
    BY <1>2 DEF Fresh, NoneTwice
  <2> QED BY <2>1
<1>10. \A i \in 1..Len(inbox') : \A j \in 1..Len(screen') : inbox'[i] # screen'[j]
  BY <1>2, <1>3 DEF Fresh
<1> QED BY <1>5, <1>6, <1>7, <1>8, <1>9, <1>10 DEF Fresh, AlreadyTyped, NoneTwice

LEMMA NextFresh ==
    ASSUME Shapes, Fresh, [Next]_chatVars
    PROVE  Fresh'
<1>1. CASE UNCHANGED <<inbox, screen, typed>>
  BY <1>1 DEF Fresh, NoneTwice, AlreadyTyped
<1> QED
  BY <1>1, TypeKeepsFresh, TakeKeepsFresh DEF Next, chatVars, Show, HandOn

-----------------------------------------------------------------------------
(* The table of clients. *)

LEMMA TakeKeepsEnrolment ==
    ASSUME Shapes, Enrolment, NEW m \in Message, Takes(m), m.from \in Users, Enrols(m.from)
    PROVE  Enrolment'
<1>1. Len(clients) \in Nat /\ Len(clients') \in Nat /\ clients \in Seq(Users)
  BY LenProperties DEF Enrols, Shapes, TypeOK
<1>2. NoneTwice(clients')
  <2>1. CASE clients' = clients
    BY <2>1 DEF Enrolment, NoneTwice
  <2>2. CASE ~Known(m.from) /\ Len(clients') = Len(clients) + 1
    BY <1>1, <2>2 DEF Enrols, Enrolment, NoneTwice, Known
  <2> QED BY <2>1, <2>2 DEF Enrols
<1>3. \A u \in Users : Known(u) => Known(u)'
  BY <1>1 DEF Enrols, Known
<1>4. \A u \in Users : HasSpoken(u) => HasSpoken(u)'
  BY DEF Takes, HasSpoken
<1>5. \A u \in Users : HasSpoken(u)' => HasSpoken(u) \/ u = m.from
  BY DEF Takes, HasSpoken
<1>6. \A u \in Users : u = m.from => HasSpoken(u)'
  BY DEF Takes, HasSpoken
<1>7. \A u \in Users : Known(u)' => Known(u) \/ u = m.from
  BY <1>1 DEF Enrols, Known
<1>8. \A u \in Users : u = m.from => Known(u)' \/ Len(clients') >= MaxClients
  BY <1>1, <1>3 DEF Enrols, Known
<1>9. Len(clients) <= Len(clients') /\ MaxClients \in Nat
  BY <1>1, ChatUdpAssumption DEF Enrols
<1>10. \A u \in Users : HasSpoken(u)' => Known(u)' \/ Len(clients') >= MaxClients
  BY <1>1, <1>3, <1>5, <1>8, <1>9 DEF Enrolment
<1>11. current' = screen'[Len(screen')]
  BY DEF Takes
<1> QED BY <1>2, <1>4, <1>6, <1>7, <1>10, <1>11 DEF Enrolment, NoneTwice

LEMMA NextEnrolment ==
    ASSUME Shapes, Enrolment, [Next]_chatVars
    PROVE  Enrolment'
<1>1. CASE UNCHANGED <<clients, screen, current>>
  BY <1>1 DEF Enrolment, NoneTwice, Known, HasSpoken
<1>2. CASE Take
  BY <1>2, TakeResult, TakeKeepsEnrolment
<1> QED
  BY <1>1, <1>2 DEF Next, chatVars, Type, Show, HandOn

-----------------------------------------------------------------------------
(* What the users have got. *)

LEMMA GotIsSeq ==
    ASSUME Shapes, NEW u \in Users
    PROVE  /\ seen[u] \in Seq(Message) /\ mail[u] \in Seq(Message)
           /\ Got(u) \in Seq(Message) /\ Len(Got(u)) \in Nat
<1>1. seen[u] \in Seq(Message) /\ mail[u] \in Seq(Message)
  BY DEF Shapes, TypeOK
<1>2. Got(u) \in Seq(Message)
  BY <1>1, ConcatProperties DEF Got
<1> QED BY <1>1, <1>2, LenProperties

(* As the screen grows everything keeps its place. *)
LEMMA PlacesKept ==
    ASSUME Len(screen) \in Nat, Len(screen') \in Nat, Len(screen) <= Len(screen'),
           \A i \in 1..Len(screen) : screen'[i] = screen[i]
    PROVE  /\ \A u, d : IsFor(u, d) => IsFor(u, d)'
           /\ \A d, e : TakenBefore(d, e) => TakenBefore(d, e)'
  BY DEF IsFor, TakenBefore

LEMMA ShowKeepsGot ==
    ASSUME Shapes, NEW u \in Users, Show(u)
    PROVE  \A v \in Users : Got(v)' = Got(v)
<1>1. /\ mail[u] \in Seq(Message) /\ mail[u] # << >> /\ seen[u] \in Seq(Message)
      /\ seen' = [seen EXCEPT ![u] = Append(seen[u], Head(mail[u]))]
      /\ mail' = [mail EXCEPT ![u] = Tail(mail[u])]
      /\ seen \in [Users -> Seq(Message)] /\ mail \in [Users -> Seq(Message)]
  BY DEF Shapes, TypeOK, Show
<1>2. seen'[u] \o mail'[u] = seen[u] \o mail[u]
  BY <1>1, MovedOver
<1>3. \A v \in Users \ {u} : seen'[v] = seen[v] /\ mail'[v] = mail[v]
  BY <1>1
<1> QED BY <1>2, <1>3 DEF Got

(* A round of the sending loop hands the message to its user, or lets the  *)
(* user miss it.                                                           *)
LEMMA HandOnGot ==
    ASSUME Shapes, NEW u \in Users, Hands(u)
    PROVE  /\ current \in Message
           /\ \A v \in Users \ {u} : Got(v)' = Got(v)
           /\ \/ Got(u)' = Got(u) /\ (u = current.from \/ u \in missed')
              \/ Got(u)' = Append(Got(u), current) /\ u # current.from
<1>1. /\ current \in Message
      /\ seen \in [Users -> Seq(Message)] /\ mail \in [Users -> Seq(Message)]
      /\ seen' = seen
  <2>1. Broadcasting
    BY DEF Hands, Broadcasting
  <2> QED BY <2>1 DEF Shapes, TypeOK, Hands
<1>2. CASE mail' = mail
  BY <1>1, <1>2 DEF Got, Hands
<1>3. CASE u # current.from /\ mail' = [mail EXCEPT ![u] = Append(mail[u], current)]
  <2>1. mail'[u] = Append(mail[u], current) /\ \A v \in Users \ {u} : mail'[v] = mail[v]
    BY <1>1, <1>3
  <2>2. seen[u] \o Append(mail[u], current) = Append(seen[u] \o mail[u], current)
    BY <1>1, AppendedBehind
  <2> QED BY <1>1, <1>3, <2>1, <2>2 DEF Got
<1> QED BY <1>2, <1>3 DEF Hands

LEMMA HandOnKeepsOrder ==
    ASSUME Shapes, Enrolment, InOrder, HandOn
    PROVE  InOrder'
<1>1. PICK u \in Users : Hands(u)
  BY HandOnResult
<1>2. /\ current \in Message
      /\ \A v \in Users \ {u} : Got(v)' = Got(v)
      /\ \/ Got(u)' = Got(u)
         \/ Got(u)' = Append(Got(u), current) /\ u # current.from
  BY <1>1, HandOnGot
<1>3. /\ IsDue(u) /\ Known(u) /\ ~IsDue(u)'
      /\ \A v \in Users : IsDue(v)' => IsDue(v)
      /\ screen' = screen /\ current' = current
  <2>1. Len(clients) \in Nat /\ cursor \in 1..Len(clients) /\ cursor' = cursor + 1
        /\ clients' = clients /\ clients[cursor] = u
    BY <1>1 DEF Hands
  <2> QED BY <1>1, <2>1 DEF Hands, IsDue, Known, Enrolment, NoneTwice
<1>4. /\ \A v, d : IsFor(v, d)' <=> IsFor(v, d)
      /\ \A d, e : TakenBefore(d, e)' <=> TakenBefore(d, e)
  BY <1>3 DEF IsFor, TakenBefore
<1>5. ASSUME NEW v \in Users, Got(v)' = Got(v) PROVE GotInOrder(v)'
  <2>1. GotInOrder(v)
    BY DEF InOrder
  <2> QED BY <1>4, <1>5, <2>1 DEF GotInOrder
<1>6. ASSUME Got(u)' = Append(Got(u), current), u # current.from PROVE GotInOrder(u)'
  <2>1. /\ Got(u) \in Seq(Message) /\ Len(Got(u)) \in Nat
        /\ Len(Got(u)') = Len(Got(u)) + 1
        /\ \A k \in 1..Len(Got(u)) : Got(u)'[k] = Got(u)[k]
        /\ Got(u)'[Len(Got(u)) + 1] = current
    BY <1>2, <1>6, GotIsSeq, AppendProperties
  <2>2. screen \in Seq(Message) /\ Len(screen) \in Nat \ {0} /\ screen[Len(screen)] = current
    BY <1>3, LenProperties, EmptySeq DEF Enrolment, HasSpoken, Shapes, TypeOK
  <2>3. IsFor(u, current)
    <3>1. PICK j \in 1..Len(screen) : screen[j].from = u
      BY <1>3 DEF Enrolment, HasSpoken
    <3>2. j \in 1..(Len(screen) - 1)
      BY <1>6, <2>2, <3>1
    <3> QED BY <1>6, <2>2, <3>1, <3>2 DEF IsFor
  <2>4. ASSUME NEW k \in 1..Len(Got(u)) PROVE TakenBefore(Got(u)[k], current) /\ IsFor(u, Got(u)[k])
    <3>1. IsFor(u, Got(u)[k]) /\ Got(u)[k] # current
      BY <1>3 DEF InOrder, GotInOrder, NotYet
    <3>2. PICK i \in 1..Len(screen) : screen[i] = Got(u)[k]
      BY <3>1 DEF IsFor
    <3>3. i \in 1..(Len(screen) - 1)
      BY <2>2, <3>1, <3>2
    <3>4. TakenBefore(Got(u)[k], current)
      BY <2>2, <3>2, <3>3 DEF TakenBefore
    <3> QED BY <3>1, <3>4
  <2>5. ASSUME NEW k \in 1..Len(Got(u)') PROVE IsFor(u, Got(u)'[k])
    BY <2>1, <2>3, <2>4
  <2>6. ASSUME NEW l \in 1..Len(Got(u)'), NEW k \in 1..(l-1)
        PROVE  TakenBefore(Got(u)'[k], Got(u)'[l])
    <3>1. CASE l \in 1..Len(Got(u))
      BY <2>1, <3>1 DEF InOrder, GotInOrder
    <3>2. CASE l = Len(Got(u)) + 1
      BY <2>1, <2>4, <3>2
    <3> QED BY <2>1, <3>1, <3>2
  <2> QED BY <1>4, <2>5, <2>6 DEF GotInOrder
<1>7. ASSUME NEW v \in Users PROVE NotYet(v)'
  BY <1>2, <1>3 DEF InOrder, NotYet
<1> QED BY <1>2, <1>5, <1>6, <1>7 DEF InOrder

LEMMA TakeKeepsOrder ==
    ASSUME Shapes, Fresh, InOrder, NEW m \in Message, Takes(m)
    PROVE  InOrder'
<1>1. \A v \in Users : Got(v)' = Got(v)
  BY DEF Takes, Got
<1>2. /\ \A u, d : IsFor(u, d) => IsFor(u, d)'
      /\ \A d, e : TakenBefore(d, e) => TakenBefore(d, e)'
  BY PlacesKept DEF Takes
<1>3. ASSUME NEW v \in Users PROVE GotInOrder(v)'
  BY <1>1, <1>2 DEF InOrder, GotInOrder
<1>4. ASSUME NEW v \in Users PROVE NotYet(v)'
  <2>1. current' = m /\ 1 \in 1..Len(inbox) /\ inbox[1] = m
    BY DEF Takes
  <2>2. \A i \in 1..Len(screen) : screen[i] # m
    BY <2>1 DEF Fresh
  <2>3. \A k \in 1..Len(Got(v)) : Got(v)[k] # m
    BY <2>2 DEF InOrder, GotInOrder, IsFor
  <2> QED BY <1>1, <2>1, <2>3 DEF NotYet
<1> QED BY <1>3, <1>4 DEF InOrder

LEMMA NextInOrder ==
    ASSUME OrderInv, [Next]_chatVars
    PROVE  InOrder'
<1> USE DEF OrderInv
<1>1. ASSUME UNCHANGED <<screen, clients, cursor, current>>,
             \A v \in Users : Got(v)' = Got(v)
      PROVE  InOrder'
  <2>1. /\ \A v, d : IsFor(v, d)' <=> IsFor(v, d)
        /\ \A d, e : TakenBefore(d, e)' <=> TakenBefore(d, e)
        /\ \A v : IsDue(v)' <=> IsDue(v)
    BY <1>1 DEF IsFor, TakenBefore, IsDue
  <2>2. \A v \in Users : GotInOrder(v)'
    BY <1>1, <2>1 DEF InOrder, GotInOrder
  <2>3. \A v \in Users : NotYet(v)'
    BY <1>1, <2>1 DEF InOrder, NotYet
  <2> QED BY <2>2, <2>3 DEF InOrder
<1>2. CASE Take
  BY <1>2, TakeResult, TakeKeepsOrder
<1>3. CASE HandOn
  BY <1>3, HandOnKeepsOrder
<1>4. ASSUME NEW u \in Users, Show(u) PROVE InOrder'
  BY <1>1, <1>4, ShowKeepsGot DEF Show
<1>5. ASSUME NEW u \in Users, Type(u) PROVE InOrder'
  BY <1>1, <1>5 DEF Type, Got
<1>6. CASE UNCHANGED chatVars
  BY <1>1, <1>6 DEF chatVars, Got
<1> QED BY <1>2, <1>3, <1>4, <1>5, <1>6 DEF Next

LEMMA InitOrderInv == Init => OrderInv
<1> SUFFICES ASSUME Init PROVE OrderInv
  OBVIOUS
<1>1. /\ Len(inbox) = 0 /\ Len(clients) = 0 /\ Len(screen) = 0 /\ cursor = 1
      /\ \A S : << >> \in Seq(S)
      /\ screen = << >> /\ inbox = << >> /\ clients = << >> /\ current = NoMessage
      /\ mail = [u \in Users |-> << >>] /\ seen = [u \in Users |-> << >>]
      /\ typed = [u \in Users |-> 0] /\ missed = {}
  BY EmptySeq DEF Init, ClientInit
<1>2. MaxClients \in Nat /\ InboxCap \in Nat /\ MailCap \in Nat /\ MaxMsgs \in Nat
  BY ChatUdpAssumption
<1>3. Shapes
  BY <1>1, <1>2 DEF Shapes, TypeOK, Broadcasting
<1>4. Fresh /\ Enrolment
  BY <1>1 DEF Fresh, Enrolment, NoneTwice, Known, HasSpoken
<1>5. \A u \in Users : Len(Got(u)) = 0
  BY <1>1, ConcatEmptySeq DEF Got
<1>6. InOrder
  BY <1>5 DEF InOrder, GotInOrder, NotYet
<1> QED BY <1>3, <1>4, <1>6 DEF OrderInv

LEMMA NextOrderInv == OrderInv /\ [Next]_chatVars => OrderInv'
  BY NextShapes, NextFresh, NextEnrolment, NextInOrder DEF OrderInv

(* The inductive invariant of the chat. *)
THEOREM ChatSound == Spec => []OrderInv
<1> QED BY InitOrderInv, NextOrderInv, PTL DEF Spec

(* Type correctness: the sockets and the table never outgrow their arrays. *)
THEOREM ChatTypeCorrect == Spec => []TypeOK
<1>1. OrderInv => TypeOK
  BY DEF OrderInv, Shapes
<1> QED BY <1>1, ChatSound, PTL

-----------------------------------------------------------------------------
(* The chat is a room with one order of messages. *)

LEMMA TakeIsPost ==
    ASSUME OrderInv, Take
    PROVE  Room!Next
<1>1. PICK m \in Message : Takes(m)
  BY TakeResult DEF OrderInv
<1>2. 1 \in 1..Len(inbox) /\ inbox[1] = m /\ inbox # << >> /\ Head(inbox) = m
  BY <1>1, HeadTailProperties DEF Takes, OrderInv, Shapes, TypeOK, Take
<1>3. /\ \A i \in 1..Len(screen) : screen[i] # m
      /\ screen' = Append(screen, m) /\ seen' = seen
  BY <1>2 DEF OrderInv, Fresh, Take
<1> QED BY <1>1, <1>3 DEF Room!Next, Room!Post

LEMMA ShowIsSee ==
    ASSUME OrderInv, NEW u \in Users, Show(u)
    PROVE  Room!Next
<1> DEFINE n == Len(seen[u]) + 1
           m == Got(u)[n]
<1>1. /\ seen[u] \in Seq(Message) /\ mail[u] \in Seq(Message) /\ mail[u] # << >>
      /\ Len(seen[u]) \in Nat /\ Len(mail[u]) \in Nat \ {0}
      /\ Head(mail[u]) = mail[u][1]
  BY GotIsSeq, LenProperties, EmptySeq, HeadTailProperties DEF OrderInv, Show
<1> HIDE DEF n, m
<1>2. /\ Len(Got(u)) = Len(seen[u]) + Len(mail[u])
      /\ \A k \in 1..Len(seen[u]) : Got(u)[k] = seen[u][k]
      /\ m = mail[u][1]
  <2>1. /\ Len(Got(u)) = Len(seen[u]) + Len(mail[u])
        /\ \A k \in 1..Len(seen[u]) + Len(mail[u]) :
              Got(u)[k] = IF k <= Len(seen[u]) THEN seen[u][k] ELSE mail[u][k - Len(seen[u])]
    BY <1>1, ConcatProperties DEF Got
  <2>2. /\ n \in 1..Len(seen[u]) + Len(mail[u]) /\ ~(n <= Len(seen[u]))
        /\ n - Len(seen[u]) = 1
    <3>1. \A a \in Nat, b \in Nat \ {0} : a+1 \in 1..a+b /\ ~(a+1 <= a) /\ (a+1) - a = 1
      OBVIOUS
    <3> QED BY ONLY <1>1, <3>1 DEF n
  <2>3. Got(u)[n] = mail[u][1]
    BY <2>1, <2>2
  <2>4. \A k \in 1..Len(seen[u]) : k \in 1..Len(seen[u]) + Len(mail[u]) /\ k <= Len(seen[u])
    <3>1. \A a \in Nat, b \in Nat : \A k \in 1..a : k \in 1..a+b /\ k <= a
      OBVIOUS
    <3>2. Len(seen[u]) \in Nat /\ Len(mail[u]) \in Nat
      BY <1>1
    <3> QED BY ONLY <3>1, <3>2
  <2>5. \A k \in 1..Len(seen[u]) : Got(u)[k] = seen[u][k]
    BY <2>1, <2>4
  <2> QED BY <2>1, <2>3, <2>5 DEF m
<1>3. n \in 1..Len(Got(u)) /\ \A k \in 1..Len(seen[u]) : k \in 1..(n-1)
  <2>1. \A a \in Nat, b \in Nat \ {0} : a+1 \in 1..a+b /\ \A k \in 1..a : k \in 1..((a+1)-1)
    OBVIOUS
  <2>2. Len(Got(u)) = Len(seen[u]) + Len(mail[u])
    BY <1>2
  <2> QED BY ONLY <1>1, <2>1, <2>2 DEF n
<1>4. seen' = [seen EXCEPT ![u] = Append(seen[u], m)] /\ screen' = screen
  BY <1>1, <1>2 DEF Show
<1>5. GotInOrder(u) /\ NoneTwice(screen)
  BY DEF OrderInv, InOrder, Fresh
<1>6. PICK i \in 1..Len(screen) : screen[i] = m /\ m.from # u /\ \E j \in 1..(i-1) : screen[j].from = u
  BY <1>3, <1>5 DEF GotInOrder, IsFor, m
<1>7. ASSUME NEW k \in 1..Len(seen[u])
      PROVE  \E j \in 1..(i-1) : screen[j] = seen[u][k]
  <2>1. TakenBefore(Got(u)[k], m)
    BY <1>3, <1>5 DEF GotInOrder, m
  <2>2. PICK i2 \in 1..Len(screen) : screen[i2] = m /\ \E j \in 1..(i2-1) : screen[j] = Got(u)[k]
    BY <2>1 DEF TakenBefore
  <2>3. i2 = i
    BY <1>5, <1>6, <2>2 DEF NoneTwice
  <2> QED BY <1>2, <2>2, <2>3
<1>8. Room!See(u, i)
  BY <1>4, <1>6, <1>7 DEF Room!See
<1> QED BY <1>8 DEF Room!Next

(* The chat server over its lossy sockets implements ChatRoom: all users   *)
(* see subsequences of one order of messages, the order in which the       *)
(* server took them, each from the user's own first message on.            *)
THEOREM ImplementsChatRoom == Spec => OneOrder
<1>1. Init => Room!Init
  BY DEF Init, ClientInit, Room!Init
<1>2. OrderInv /\ [Next]_chatVars => [Room!Next]_(Room!roomVars)
  <2> SUFFICES ASSUME OrderInv, [Next]_chatVars PROVE [Room!Next]_(Room!roomVars)
    OBVIOUS
  <2>1. CASE UNCHANGED <<screen, seen>>
    BY <2>1 DEF Room!roomVars
  <2> QED
    BY <2>1, TakeIsPost, ShowIsSee DEF Next, chatVars, Type, HandOn
<1> QED BY <1>1, <1>2, ChatSound, PTL DEF Spec, OneOrder, Room!Spec

-----------------------------------------------------------------------------
(* Nobody misses anything but for a full socket. *)

LEMMA InitNothingLost == Init => NothingLost
  BY EmptySeq DEF Init, NothingLost, Meant

LEMMA TakeLosesNothing ==
    ASSUME OrderInv, NothingLost, Take
    PROVE  NothingLost'
<1>1. PICK m \in Message : m.from \in Users /\ Takes(m) /\ Enrols(m.from)
  BY TakeResult DEF OrderInv
<1>2. SUFFICES ASSUME NEW u \in Users, u \notin missed, NEW d \in Meant(u)'
               PROVE  \/ \E k \in 1..Len(Got(u)') : Got(u)'[k] = d
                      \/ d = current' /\ IsDue(u)'
  BY <1>1 DEF NothingLost, Takes
<1>3. PICK i \in 1..Len(screen') :
         /\ screen'[i] = d /\ d.from # u /\ Known(u)'
         /\ \E j \in 1..(i-1) : screen'[j].from = u
  BY <1>2 DEF Meant
<1>4. /\ i \in 1..(Len(screen) + 1) /\ Len(screen) \in Nat
      /\ \E j \in 1..(i-1) : j \in 1..Len(screen) /\ screen[j].from = u
  <2>1. i \in 1..(Len(screen) + 1) /\ Len(screen) \in Nat
    BY <1>1, <1>3 DEF Takes
  <2>2. \A j \in 1..(i-1) : j \in 1..Len(screen)
    BY <2>1
  <2> QED BY <1>1, <1>3, <2>1, <2>2 DEF Takes
<1>5. Known(u)
  <2>1. Known(u) \/ Len(clients) >= MaxClients
    BY <1>4 DEF OrderInv, Enrolment, HasSpoken
  <2>2. CASE clients' = clients
    BY <1>3, <2>2 DEF Known
  <2>3. CASE Len(clients) < MaxClients
    BY <2>1, <2>3, ChatUdpAssumption, <1>1 DEF Enrols
  <2> QED BY <1>1, <2>2, <2>3 DEF Enrols
<1>6. CASE i \in 1..Len(screen)
  <2>1. d \in Meant(u)
    <3>1. screen[i] = d
      BY <1>1, <1>3, <1>6 DEF Takes
    <3>2. \E j \in 1..(i-1) : screen[j].from = u
      BY <1>4
    <3> QED BY <1>3, <1>5, <1>6, <3>1, <3>2 DEF Meant
  <2>2. ~IsDue(u)
    BY <1>1, LenProperties, ChatUdpAssumption
       DEF OrderInv, Shapes, TypeOK, Take, Broadcasting, IsDue, Enrols
  <2>3. \E k \in 1..Len(Got(u)) : Got(u)[k] = d
    BY <1>2, <2>1, <2>2 DEF NothingLost
  <2> QED BY <1>1, <2>3 DEF Takes, Got
<1>7. CASE i = Len(screen) + 1
  <2>1. d = current'
    BY <1>1, <1>3, <1>7 DEF Takes
  <2>2. IsDue(u)'
    BY <1>1, <1>3 DEF Takes, Known, IsDue
  <2> QED BY <2>1, <2>2
<1> QED BY <1>4, <1>6, <1>7

LEMMA HandOnLosesNothing ==
    ASSUME OrderInv, NothingLost, HandOn
    PROVE  NothingLost'
<1>1. PICK u \in Users : Hands(u)
  BY HandOnResult DEF OrderInv
<1>2. /\ current \in Message
      /\ \A v \in Users \ {u} : Got(v)' = Got(v)
      /\ \/ Got(u)' = Got(u) /\ (u = current.from \/ u \in missed')
         \/ Got(u)' = Append(Got(u), current) /\ u # current.from
  BY <1>1, HandOnGot DEF OrderInv
<1>3. SUFFICES ASSUME NEW v \in Users, v \notin missed', NEW d \in Meant(v)'
               PROVE  \/ \E k \in 1..Len(Got(v)') : Got(v)'[k] = d
                      \/ d = current' /\ IsDue(v)'
  BY DEF NothingLost
<1>4. d \in Meant(v) /\ v \notin missed /\ current' = current /\ d.from # v
  BY <1>1, <1>3 DEF Meant, Known, Hands
<1>5. \/ \E k \in 1..Len(Got(v)) : Got(v)[k] = d
      \/ d = current /\ IsDue(v)
  BY <1>4 DEF NothingLost
<1>6. CASE v # u
  <2>1. IsDue(v) => IsDue(v)'
    BY <1>1, <1>6, ChatUdpAssumption DEF Hands, IsDue
  <2> QED BY <1>2, <1>4, <1>5, <1>6, <2>1
<1>7. CASE v = u
  <2>1. CASE Got(u)' = Append(Got(u), current)
    <3>1. Got(u) \in Seq(Message) /\ Len(Got(u)) \in Nat
      BY GotIsSeq DEF OrderInv
    <3>2. /\ Len(Got(u)') = Len(Got(u)) + 1
          /\ \A k \in 1..Len(Got(u)) : Got(u)'[k] = Got(u)[k]
          /\ Got(u)'[Len(Got(u)) + 1] = current
      BY <1>2, <2>1, <3>1, AppendProperties
    <3> QED BY <1>5, <1>7, <3>1, <3>2
  <2>2. CASE Got(u)' = Got(u) /\ u = current.from
    BY <1>4, <1>5, <1>7, <2>2
  <2> QED BY <1>2, <1>3, <1>7, <2>1, <2>2
<1> QED BY <1>6, <1>7

LEMMA NextNothingLost ==
    ASSUME OrderInv, NothingLost, [Next]_chatVars
    PROVE  NothingLost'
<1>1. ASSUME UNCHANGED <<screen, clients, cursor, current, missed>>,
             \A v \in Users : Got(v)' = Got(v)
      PROVE  NothingLost'
  <2>1. \A v : (IsDue(v)' <=> IsDue(v)) /\ Meant(v)' = Meant(v)
    BY <1>1 DEF IsDue, Meant, Known
  <2> QED BY <1>1, <2>1 DEF NothingLost
<1>2. ASSUME NEW u \in Users, Show(u) PROVE NothingLost'
  BY <1>1, <1>2, ShowKeepsGot DEF Show, OrderInv
<1>3. ASSUME NEW u \in Users, Type(u) PROVE NothingLost'
  BY <1>1, <1>3 DEF Type, Got
<1>4. CASE UNCHANGED chatVars
  BY <1>1, <1>4 DEF chatVars, Got
<1> QED BY <1>2, <1>3, <1>4, TakeLosesNothing, HandOnLosesNothing DEF Next

LEMMA NextHandedToKnown ==
    ASSUME OrderInv, HandedToKnown, [Next]_chatVars
    PROVE  HandedToKnown'
<1>1. ASSUME UNCHANGED clients, \A v \in Users : Got(v)' = Got(v)
      PROVE  HandedToKnown'
  BY <1>1 DEF HandedToKnown, Known
<1>2. CASE Take
  <2>1. PICK m \in Message : Takes(m) /\ Enrols(m.from)
    BY <1>2, TakeResult DEF OrderInv
  <2>2. \A v \in Users : Got(v)' = Got(v)
    BY <2>1 DEF Takes, Got
  <2>3. Len(clients) \in Nat /\ Len(clients') \in Nat
    BY <2>1, LenProperties DEF Enrols
  <2>4. \A v \in Users : Known(v) => Known(v)'
    BY <2>1, <2>3 DEF Enrols, Known
  <2> QED BY <2>2, <2>4 DEF HandedToKnown
<1>3. CASE HandOn
  <2>1. PICK u \in Users : Hands(u)
    BY <1>3, HandOnResult DEF OrderInv
  <2>2. \A v \in Users \ {u} : Got(v)' = Got(v)
    BY <2>1, HandOnGot DEF OrderInv
  <2>3. Known(u)' /\ \A v \in Users : Known(v) => Known(v)'
    BY <2>1 DEF Hands, Known
  <2> QED BY <2>2, <2>3 DEF HandedToKnown
<1>4. ASSUME NEW u \in Users, Show(u) PROVE HandedToKnown'
  BY <1>1, <1>4, ShowKeepsGot DEF Show, OrderInv
<1>5. ASSUME NEW u \in Users, Type(u) PROVE HandedToKnown'
  BY <1>1, <1>5 DEF Type, Got
<1>6. CASE UNCHANGED chatVars
  BY <1>1, <1>6 DEF chatVars, Got
<1> QED BY <1>2, <1>3, <1>4, <1>5, <1>6 DEF Next

LEMMA InitHandedToKnown == Init => HandedToKnown
<1> SUFFICES ASSUME Init PROVE HandedToKnown
  OBVIOUS
<1>1. \A u \in Users : Got(u) = << >>
  BY ConcatEmptySeq, EmptySeq DEF Init, ClientInit, Got
<1> QED BY <1>1, EmptySeq DEF HandedToKnown

(* The message that is due is for u and comes after all that u has got.    *)
LEMMA DueIsNext ==
    ASSUME OrderInv, NEW u \in Users, IsDue(u), u # current.from
    PROVE  /\ IsFor(u, current)
           /\ \A d : IsFor(u, d) /\ d # current => TakenBefore(d, current)
<1>1. Len(clients) \in Nat /\ cursor \in Nat /\ cursor >= 1
  BY LenProperties, ChatUdpAssumption DEF OrderInv, Shapes, TypeOK
<1>2. Known(u)
  BY <1>1 DEF IsDue, Known
<1>3. PICK j \in 1..Len(screen) : screen[j].from = u
  BY <1>2 DEF OrderInv, Enrolment, HasSpoken
<1>4. Len(screen) \in Nat \ {0} /\ screen[Len(screen)] = current
  BY <1>3, LenProperties, EmptySeq DEF OrderInv, Enrolment, Shapes, TypeOK
<1>5. \A i \in 1..Len(screen) : screen[i] # current => i \in 1..(Len(screen) - 1)
  BY <1>4
<1>6. screen[j] # current
  BY <1>3
<1>7. IsFor(u, current)
  BY <1>3, <1>4, <1>5, <1>6 DEF IsFor
<1>8. ASSUME NEW d, IsFor(u, d), d # current PROVE TakenBefore(d, current)
  <2>1. PICK i \in 1..Len(screen) : screen[i] = d
    BY <1>8 DEF IsFor
  <2> QED BY <1>4, <1>5, <1>8, <2>1 DEF TakenBefore
<1> QED BY <1>7, <1>8

(* What Way(u) consists of. *)
LEMMA WayIs ==
    ASSUME OrderInv, NEW u \in Users
    PROVE  LET w == Way(u)
               g == Got(u)
               due == IsDue(u) /\ u # current.from
           IN  /\ Len(g) \in Nat /\ Len(w) \in Nat
               /\ Len(w) = IF due THEN Len(g) + 1 ELSE Len(g)
               /\ \A k \in 1..Len(g) : w[k] = g[k]
               /\ due => w[Len(g) + 1] = current
<1>1. /\ seen[u] \in Seq(Message) /\ mail[u] \in Seq(Message)
      /\ Got(u) \in Seq(Message) /\ Len(Got(u)) \in Nat
  BY GotIsSeq DEF OrderInv
<1>2. CASE IsDue(u) /\ u # current.from
  <2>1. current \in Message
    <3>1. Len(clients) \in Nat /\ cursor \in Nat
      BY LenProperties, ChatUdpAssumption DEF OrderInv, Shapes, TypeOK
    <3>2. cursor <= Len(clients)
      BY <1>2, <3>1 DEF IsDue
    <3> QED BY <3>2 DEF OrderInv, Shapes, Broadcasting
  <2>2. Way(u) = Got(u) \o <<current>>
    BY <1>2 DEF Way, Got, Due, IsDue
  <2>3. Way(u) = Append(Got(u), current)
    BY <1>1, <2>1, <2>2, AppendIsConcat
  <2> QED BY <1>1, <1>2, <2>1, <2>3, AppendProperties
<1>3. CASE ~(IsDue(u) /\ u # current.from)
  <2>1. Way(u) = Got(u) \o << >>
    BY <1>3 DEF Way, Got, Due, IsDue
  <2>2. Way(u) = Got(u)
    BY <1>1, <2>1, ConcatEmptySeq
  <2> QED BY <1>1, <1>3, <2>2
<1> QED BY <1>2, <1>3

(* A registered user whose socket was never full has got, or is about to   *)
(* be handed, every message the server took from others since the user's   *)
(* first, each once and in the order in which they were taken.             *)
THEOREM NothingGoesMissing == Spec => []NothingMissing
<1>1. Spec => []NothingLost
  BY InitNothingLost, NextNothingLost, ChatSound, PTL DEF Spec
<1>2. OrderInv /\ NothingLost /\ HandedToKnown => NothingMissing
  <2> SUFFICES ASSUME OrderInv, NothingLost, HandedToKnown, NEW u \in Users, u \notin missed
               PROVE  /\ {Way(u)[k] : k \in 1..Len(Way(u))} = Meant(u)
                      /\ \A l \in 1..Len(Way(u)) : \A k \in 1..(l-1) :
                            TakenBefore(Way(u)[k], Way(u)[l])
    BY DEF NothingMissing
  <2> DEFINE w == Way(u)
             g == Got(u)
  <2>1. /\ Len(g) \in Nat /\ Len(w) \in Nat
        /\ Len(w) = IF IsDue(u) /\ u # current.from THEN Len(g) + 1 ELSE Len(g)
        /\ \A k \in 1..Len(g) : w[k] = g[k]
        /\ IsDue(u) /\ u # current.from => w[Len(g) + 1] = current
    BY WayIs
  <2>2. /\ \A k \in 1..Len(g) : IsFor(u, g[k])
        /\ \A l \in 1..Len(g) : \A k \in 1..(l-1) : TakenBefore(g[k], g[l])
        /\ IsDue(u) => \A k \in 1..Len(g) : g[k] # current
    BY DEF OrderInv, InOrder, GotInOrder, NotYet
  <2>3. Len(g) > 0 \/ IsDue(u) => Known(u)
    <3>1. cursor \in Nat /\ cursor >= 1 /\ Len(clients) \in Nat
      BY LenProperties, ChatUdpAssumption DEF OrderInv, Shapes, TypeOK
    <3> QED BY <3>1 DEF HandedToKnown, IsDue, Known
  <2>4. \A d : d \in Meant(u) <=> Known(u) /\ IsFor(u, d)
    BY DEF Meant, IsFor
  <2> HIDE DEF w, g
  <2>5. ASSUME NEW l \in 1..Len(w)
        PROVE  \/ l \in 1..Len(g) /\ w[l] = g[l]
               \/ l = Len(g) + 1 /\ IsDue(u) /\ u # current.from /\ w[l] = current
    BY <2>1
  <2>6. ASSUME NEW l \in 1..Len(w) PROVE w[l] \in Meant(u)
    <3>1. CASE l \in 1..Len(g) /\ w[l] = g[l]
      BY <2>1, <2>2, <2>3, <2>4, <3>1
    <3>2. CASE IsDue(u) /\ u # current.from /\ w[l] = current
      BY <2>3, <2>4, <3>2, DueIsNext
    <3> QED BY <2>5, <3>1, <3>2
  <2>7. ASSUME NEW d \in Meant(u) PROVE \E l \in 1..Len(w) : w[l] = d
    <3>1. CASE \E k \in 1..Len(g) : g[k] = d
      BY <2>1, <3>1
    <3>2. CASE d = current /\ IsDue(u)
      <4>1. u # current.from
        BY <2>4, <3>2 DEF IsFor
      <4> QED BY <2>1, <3>2, <4>1
    <3> QED BY <3>1, <3>2 DEF NothingLost, g
  <2>8. ASSUME NEW l \in 1..Len(w), NEW k \in 1..(l-1) PROVE TakenBefore(w[k], w[l])
    <3>1. k \in 1..Len(g) /\ w[k] = g[k]
      BY <2>1, <2>5
    <3>2. CASE l \in 1..Len(g) /\ w[l] = g[l]
      BY <2>2, <3>1, <3>2
    <3>3. CASE IsDue(u) /\ u # current.from /\ w[l] = current
      BY <2>2, <3>1, <3>3, DueIsNext
    <3> QED BY <2>5, <3>2, <3>3
  <2>9. {w[k] : k \in 1..Len(w)} = Meant(u)
    BY <2>6, <2>7
  <2> QED BY <2>8, <2>9 DEF w
<1>3. Spec => []HandedToKnown
  BY InitHandedToKnown, NextHandedToKnown, ChatSound, PTL DEF Spec
<1> QED BY <1>1, <1>2, <1>3, ChatSound, PTL

=============================================================================
