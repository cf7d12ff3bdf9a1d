--------------------------- MODULE ChatHistoryProofs ---------------------------
(***************************************************************************)
(* Theorems about module ChatHistory, for every number of users, of        *)
(* entries in clients[] and of places in the sockets, and for every number *)
(* of kills.                                                               *)
(***************************************************************************)
EXTENDS ChatHistory, SequenceTheorems, TLAPS

-----------------------------------------------------------------------------
(* The inductive invariant, in parts. *)

Line == Datagram \cup {EmptyLine}
Entry == [kind : {"live", "old"}, line : Line]

Shapes ==
    /\ TypeOK
    /\ mail \in [Users -> Seq(Entry)] /\ seen \in [Users -> Seq(Entry)]
    /\ sent \in [Users -> Nat] /\ asked \in [Users -> Nat]
    /\ missed \subseteq Users
    /\ logFailures \in Nat
    /\ phase # "recv" => current \in Datagram
    /\ phase = "log" => cursor = 1

NoneTwice == \A i, j \in 1..Len(clients) : clients[i] = clients[j] => i = j

(* While a message is handed on it is the last but one line of the log.    *)
Logged ==
    logFailures = 0 /\ phase = "send" =>
        Len(file) >= 2 /\ file[Len(file) - 1] = current

(* How far in the log u's messages go: not to the one that is being handed *)
(* on, if the loop has not come to u yet.                                  *)
Served(u) == \E i \in 1..(cursor - 1) : clients[i] = u

Reach(u) == IF phase = "send" /\ ~Served(u) THEN Len(file) - 2 ELSE Len(file)

ToldInTime ==
    logFailures = 0 =>
        \A u \in Users : \E pos \in [Told(u) -> 1..Reach(u)] : InLog(u, pos)

HistoryInv == Shapes /\ NoneTwice /\ Logged /\ ToldInTime /\ ReplayIsTheLog

-----------------------------------------------------------------------------
(* Sequences. *)

(* To read the first of t and to note it down loses nothing.               *)
LEMMA MovedOver ==
    ASSUME NEW S, NEW s \in Seq(S), NEW t \in Seq(S), t # << >>
    PROVE  /\ Append(s, Head(t)) \in Seq(S) /\ Tail(t) \in Seq(S)
           /\ Append(s, Head(t)) \o Tail(t) = s \o t
<1> DEFINE a == Append(s, Head(t))
           b == Tail(t)
<1>1. /\ Head(t) \in S /\ b \in Seq(S) /\ Len(b) = Len(t) - 1
      /\ \A i \in 1..Len(b) : b[i] = t[i+1]
      /\ Len(s) \in Nat /\ Len(t) \in Nat /\ Head(t) = t[1]
  BY HeadTailProperties, LenProperties
<1>2. /\ a \in Seq(S) /\ Len(a) = Len(s) + 1
      /\ \A i \in 1..Len(s) : a[i] = s[i]
      /\ a[Len(s) + 1] = t[1]
  BY <1>1, AppendProperties
<1> HIDE DEF a, b
<1>3. /\ a \o b \in Seq(S) /\ Len(a \o b) = Len(a) + Len(b)
      /\ \A i \in 1..Len(a) + Len(b) : (a \o b)[i] = IF i <= Len(a) THEN a[i] ELSE b[i - Len(a)]
  BY <1>1, <1>2, ConcatProperties
<1>4. /\ s \o t \in Seq(S) /\ Len(s \o t) = Len(s) + Len(t)
      /\ \A i \in 1..Len(s) + Len(t) : (s \o t)[i] = IF i <= Len(s) THEN s[i] ELSE t[i - Len(s)]
  BY ConcatProperties
<1>5. ASSUME NEW i \in 1..Len(s) + Len(t) PROVE (a \o b)[i] = (s \o t)[i]
  <2>1. CASE i <= Len(s)
    BY <1>1, <1>2, <1>3, <1>4, <2>1
  <2>2. CASE i = Len(s) + 1
    BY <1>1, <1>2, <1>3, <1>4, <2>2
  <2>3. CASE i > Len(s) + 1
    <3>1. i - Len(a) \in 1..Len(b) /\ i - Len(a) + 1 = i - Len(s)
      BY <1>1, <1>2, <2>3
    <3>2. b[i - Len(a)] = t[i - Len(s)]
      BY <1>1, <3>1
    <3>3. (a \o b)[i] = b[i - Len(a)] /\ (s \o t)[i] = t[i - Len(s)]
      BY <1>1, <1>2, <1>3, <1>4, <2>3
    <3> QED BY <3>2, <3>3
  <2>4. i <= Len(s) \/ i = Len(s) + 1 \/ i > Len(s) + 1
    BY <1>1
  <2> QED BY <2>1, <2>2, <2>3, <2>4
<1>6. Len(a \o b) = Len(s \o t) /\ Len(s \o t) = Len(s) + Len(t)
  BY <1>1, <1>2, <1>3, <1>4
<1>7. a \o b = s \o t
  BY <1>3, <1>4, <1>5, <1>6, SeqEqual
<1> QED BY <1>1, <1>2, <1>7 DEF a, b

LEMMA AppendedBehind ==
    ASSUME NEW S, NEW s \in Seq(S), NEW t \in Seq(S), NEW e \in S
    PROVE  s \o Append(t, e) = Append(s \o t, e)
<1>1. Append(t, e) = t \o <<e>> /\ <<e>> \in Seq(S) /\ s \o t \in Seq(S)
  BY AppendIsConcat, ConcatProperties
<1>2. Append(s \o t, e) = (s \o t) \o <<e>>
  BY <1>1, AppendIsConcat
<1> QED BY <1>1, <1>2, ConcatAssociative

-----------------------------------------------------------------------------
(* Type correctness. *)

(* The caps, and the shape of the sockets of a user. *)
LEMMA GotIsSeq ==
    ASSUME Shapes, NEW u \in Users
    PROVE  /\ seen[u] \in Seq(Entry) /\ mail[u] \in Seq(Entry)
           /\ Got(u) \in Seq(Entry) /\ Len(Got(u)) \in Nat
<1>1. seen[u] \in Seq(Entry) /\ mail[u] \in Seq(Entry)
  BY DEF Shapes
<1>2. Got(u) \in Seq(Entry)
  BY <1>1, ConcatProperties DEF Got
<1> QED BY <1>1, <1>2, LenProperties

(* A datagram is put in a socket, or lost. *)
LEMMA SendToResult ==
    ASSUME NEW S, NEW box \in Seq(S), NEW cap \in Nat, Len(box) <= cap, NEW d \in S
    PROVE  /\ SendTo(box, cap, d) \in Seq(S) /\ Len(SendTo(box, cap, d)) <= cap
           /\ Len(box) >= cap => SendTo(box, cap, d) = box
           /\ Len(box) < cap => SendTo(box, cap, d) = Append(box, d)
<1>1. Len(box) \in Nat /\ Append(box, d) \in Seq(S) /\ Len(Append(box, d)) = Len(box) + 1
  BY LenProperties, AppendProperties
<1>2. CASE Len(box) < cap
  BY <1>1, <1>2 DEF SendTo
<1>3. CASE Len(box) >= cap
  BY <1>1, <1>3 DEF SendTo
<1> QED BY <1>1, <1>2, <1>3

LEMMA SayKeepsShapes ==
    ASSUME Shapes, NEW u \in Users, Say(u) \/ Ask(u)
    PROVE  Shapes'
<1>1. PICK d \in Datagram : inbox' = SendTo(inbox, InboxCap, d)
  <2>1. sent[u] + 1 \in Nat /\ 0 \in Nat
    BY DEF Shapes
  <2>2. [from |-> u, n |-> sent[u] + 1] \in Datagram /\ [from |-> u, n |-> 0] \in Datagram
    BY <2>1 DEF Datagram
  <2> QED BY <2>2 DEF Say, Ask
<1>2. inbox' \in Seq(Datagram) /\ Len(inbox') <= InboxCap
  BY <1>1, SendToResult, ChatHistoryAssumption DEF Shapes, TypeOK
<1>3. sent' \in [Users -> Nat] /\ asked' \in [Users -> Nat]
  <2>1. sent \in [Users -> Nat] /\ asked \in [Users -> Nat]
    BY DEF Shapes
  <2>2. \/ sent' = [sent EXCEPT ![u] = sent[u] + 1] /\ asked' = asked
        \/ asked' = [asked EXCEPT ![u] = asked[u] + 1] /\ sent' = sent
    BY DEF Say, Ask
  <2> QED BY <2>1, <2>2
<1>4. UNCHANGED <<clients, phase, current, cursor, file, mail, seen, missed, logFailures>>
  BY DEF Say, Ask, serverVars, bounds
<1> QED BY <1>2, <1>3, <1>4 DEF Shapes, TypeOK

LEMMA ReadKeepsShapes ==
    ASSUME Shapes, NEW u \in Users, Read(u)
    PROVE  Shapes' /\ \A v \in Users : Got(v)' = Got(v)
<1>1. /\ mail \in [Users -> Seq(Entry)] /\ seen \in [Users -> Seq(Entry)]
      /\ mail[u] \in Seq(Entry) /\ seen[u] \in Seq(Entry) /\ mail[u] # << >>
      /\ seen' = [seen EXCEPT ![u] = Append(seen[u], Head(mail[u]))]
      /\ mail' = [mail EXCEPT ![u] = Tail(mail[u])]
      /\ Len(mail[u]) <= MailCap /\ MailCap \in Nat
  BY ChatHistoryAssumption DEF Shapes, TypeOK, Read
<1>2. /\ Append(seen[u], Head(mail[u])) \in Seq(Entry) /\ Tail(mail[u]) \in Seq(Entry)
      /\ Append(seen[u], Head(mail[u])) \o Tail(mail[u]) = seen[u] \o mail[u]
  BY <1>1, MovedOver
<1>3. Len(Tail(mail[u])) <= MailCap
  <2>1. Len(mail[u]) \in Nat /\ Len(Tail(mail[u])) = Len(mail[u]) - 1
    BY <1>1, LenProperties, HeadTailProperties
  <2> QED BY <1>1, <2>1
<1>4. /\ seen' \in [Users -> Seq(Entry)] /\ mail' \in [Users -> Seq(Entry)]
      /\ \A v \in Users : Len(mail'[v]) <= MailCap
  BY <1>1, <1>2, <1>3 DEF Shapes, TypeOK
<1>5. UNCHANGED <<inbox, clients, phase, current, cursor, file, sent, asked, missed, logFailures>>
  BY DEF Read, serverVars, bounds
<1>6. Shapes'
  BY <1>4, <1>5 DEF Shapes, TypeOK
<1>7. \A v \in Users : Got(v)' = Got(v)
  <2>1. seen'[u] \o mail'[u] = seen[u] \o mail[u]
    BY <1>1, <1>2
  <2>2. \A v \in Users \ {u} : seen'[v] = seen[v] /\ mail'[v] = mail[v]
    BY <1>1
  <2> QED BY <2>1, <2>2 DEF Got
<1> QED BY <1>6, <1>7

(* recvfrom() and add_client(). *)
Takes(d) ==
    /\ d.from \in Users
    /\ phase = "recv" /\ phase' \in {"log", "replay"} /\ current' = d /\ cursor' = 1
    /\ inbox' \in Seq(Datagram) /\ Len(inbox') <= InboxCap
    /\ clients' \in Seq(Users) /\ Len(clients') <= MaxClients
    /\ \/ clients' = clients
       \/ /\ ~IsKnown(d.from)
          /\ Len(clients) \in Nat /\ Len(clients') = Len(clients) + 1
          /\ \A i \in 1..Len(clients) : clients'[i] = clients[i]
          /\ clients'[Len(clients) + 1] = d.from
    /\ UNCHANGED <<file, seen, sent, asked, mail, missed, logFailures>>

LEMMA TakeResult ==
    ASSUME Shapes, Take
    PROVE  \E d \in Datagram : Takes(d)
<1>1. /\ inbox \in Seq(Datagram) /\ inbox # << >> /\ Len(inbox) <= InboxCap /\ InboxCap \in Nat
      /\ clients \in Seq(Users) /\ Len(clients) <= MaxClients /\ MaxClients \in Nat
      /\ Len(clients) \in Nat
  BY ChatHistoryAssumption, LenProperties DEF Shapes, TypeOK, Take
<1>2. /\ Head(inbox) \in Datagram /\ Tail(inbox) \in Seq(Datagram)
      /\ Len(Tail(inbox)) = Len(inbox) - 1 /\ Len(inbox) \in Nat
  BY <1>1, HeadTailProperties, LenProperties
<1>3. PICK d \in Datagram : d = Head(inbox)
  BY <1>2
<1>4. d.from \in Users
  BY DEF Datagram
<1>5. /\ phase = "recv" /\ phase' \in {"log", "replay"} /\ current' = d /\ cursor' = 1
      /\ inbox' = Tail(inbox) /\ clients' = Enrolled(d.from)
      /\ UNCHANGED <<file, seen, sent, asked, mail, missed, logFailures>>
  BY <1>3 DEF Take, NextPhase, FirstRound, userVars, bounds
<1>6. CASE ~IsKnown(d.from) /\ Len(clients) < MaxClients
  <2>1. clients' = Append(clients, d.from)
    BY <1>5, <1>6 DEF Enrolled
  <2>2. /\ clients' \in Seq(Users) /\ Len(clients') = Len(clients) + 1
        /\ \A i \in 1..Len(clients) : clients'[i] = clients[i]
        /\ clients'[Len(clients) + 1] = d.from
    BY <1>1, <1>4, <2>1, AppendProperties
  <2>3. Len(inbox') <= InboxCap /\ Len(clients') <= MaxClients
    BY <1>1, <1>2, <1>5, <1>6, <2>2
  <2>4. Takes(d)
    BY <1>1, <1>2, <1>4, <1>5, <1>6, <2>2, <2>3 DEF Takes
  <2> QED BY <2>4
<1>7. CASE ~(~IsKnown(d.from) /\ Len(clients) < MaxClients)
  <2>1. clients' = clients
    BY <1>5, <1>7 DEF Enrolled
  <2> QED BY <1>1, <1>2, <1>4, <1>5, <2>1 DEF Takes
<1> QED BY <1>6, <1>7

LEMMA TakeKeepsShapes ==
    ASSUME Shapes, NEW d \in Datagram, Takes(d)
    PROVE  Shapes'
<1>1. phase' \in {"recv", "log", "send", "replay"} /\ phase' # "send"
  BY DEF Takes
<1>2. Len(file) \in Nat /\ file' = file /\ cursor' = 1
  BY LenProperties DEF Takes, Shapes, TypeOK
<1>3. 1 \in 1..(Len(file) + 1)
  BY <1>2
<1> QED BY <1>1, <1>2, <1>3 DEF Takes, Shapes, TypeOK

(* log_message(): two lines more, or none. *)
Logs ==
    /\ phase = "log" /\ phase' = "send" /\ cursor = 1 /\ Len(file) \in Nat
    /\ \/ /\ file' \in Seq(Line) /\ Len(file') = Len(file) + 2
          /\ \A i \in 1..Len(file) : file'[i] = file[i]
          /\ file'[Len(file) + 1] = current
          /\ logFailures' = logFailures
       \/ file' = file /\ logFailures' = logFailures + 1
    /\ UNCHANGED <<inbox, clients, current, cursor, mail, seen, sent, asked, missed>>

LEMMA LogResult ==
    ASSUME Shapes, Log
    PROVE  Logs
<1>1. /\ file \in Seq(Line) /\ Len(file) \in Nat /\ current \in Line /\ EmptyLine \in Line
      /\ cursor = 1 /\ phase = "log"
  BY LenProperties DEF Shapes, TypeOK, Log, Line
<1>2. /\ phase' = "send"
      /\ \/ file' = file \o <<current, EmptyLine>> /\ logFailures' = logFailures
         \/ file' = file /\ logFailures' = logFailures + 1
      /\ UNCHANGED <<inbox, clients, current, cursor, mail, seen, sent, asked, missed>>
  BY DEF Log, userVars
<1> DEFINE two == <<current, EmptyLine>>
<1>3. two \in Seq(Line) /\ Len(two) = 2 /\ two[1] = current
  BY <1>1
<1> HIDE DEF two
<1>4. \/ /\ file' \in Seq(Line) /\ Len(file') = Len(file) + 2
         /\ \A i \in 1..Len(file) : file'[i] = file[i]
         /\ file'[Len(file) + 1] = current
         /\ logFailures' = logFailures
      \/ file' = file /\ logFailures' = logFailures + 1
  <2>1. CASE file' = file \o two /\ logFailures' = logFailures
    <3>1. /\ file' \in Seq(Line) /\ Len(file') = Len(file) + 2
          /\ \A i \in 1..Len(file) : file'[i] = file[i]
          /\ file'[Len(file) + 1] = current
      <4>1. /\ file' \in Seq(Line) /\ Len(file') = Len(file) + Len(two)
            /\ \A i \in 1..(Len(file) + Len(two)) :
                   file'[i] = IF i <= Len(file) THEN file[i] ELSE two[i - Len(file)]
        BY <1>1, <1>3, <2>1, ConcatProperties
      <4>2. \A i \in 1..Len(file) : file'[i] = file[i]
        BY <1>1, <1>3, <4>1
      <4>3. file'[Len(file) + 1] = current
        BY <1>1, <1>3, <4>1
      <4> QED BY <1>3, <4>1, <4>2, <4>3
    <3> QED BY <2>1, <3>1
  <2> QED BY <1>2, <2>1 DEF two
<1> QED BY <1>1, <1>2, <1>4 DEF Logs

LEMMA LogKeepsShapes ==
    ASSUME Shapes, Logs
    PROVE  Shapes'
<1>1. file' \in Seq(Line) /\ logFailures' \in Nat
  BY DEF Logs, Shapes, TypeOK, Line
<1>2. Len(clients) \in Nat /\ cursor' \in 1..(Len(clients') + 1)
  BY LenProperties DEF Logs, Shapes, TypeOK
<1>3. phase' = "send" /\ current \in Datagram
  BY DEF Logs, Shapes
<1>4. UNCHANGED <<inbox, clients, current, cursor, mail, seen, sent, asked, missed>>
  BY DEF Logs
<1> QED BY <1>1, <1>2, <1>3, <1>4 DEF Shapes, TypeOK, Line

(* sendto(): what becomes of the socket and of what u has got. *)
LEMMA HandToResult ==
    ASSUME Shapes, NEW u \in Users, NEW e \in Entry, HandTo(u, e), seen' = seen
    PROVE  /\ mail' \in [Users -> Seq(Entry)]
           /\ \A v \in Users : Len(mail'[v]) <= MailCap
           /\ missed' \subseteq Users /\ missed \subseteq missed'
           /\ \A v \in Users \ {u} : Got(v)' = Got(v)
           /\ \/ Got(u)' = Got(u) /\ u \in missed'
              \/ Got(u)' = Append(Got(u), e)
<1>1. /\ mail \in [Users -> Seq(Entry)] /\ seen \in [Users -> Seq(Entry)]
      /\ mail[u] \in Seq(Entry) /\ seen[u] \in Seq(Entry) /\ missed \subseteq Users
      /\ \A v \in Users : Len(mail[v]) <= MailCap
      /\ MailCap \in Nat /\ Len(mail[u]) \in Nat
  BY ChatHistoryAssumption, LenProperties DEF Shapes, TypeOK
<1>2. /\ mail' = [mail EXCEPT ![u] = SendTo(mail[u], MailCap, e)]
      /\ missed' = IF Len(mail[u]) < MailCap THEN missed ELSE missed \cup {u}
  BY DEF HandTo
<1>3. /\ SendTo(mail[u], MailCap, e) \in Seq(Entry)
      /\ Len(SendTo(mail[u], MailCap, e)) <= MailCap
      /\ Len(mail[u]) >= MailCap => SendTo(mail[u], MailCap, e) = mail[u]
      /\ Len(mail[u]) < MailCap => SendTo(mail[u], MailCap, e) = Append(mail[u], e)
  BY <1>1, SendToResult
<1>4. /\ mail' \in [Users -> Seq(Entry)]
      /\ \A v \in Users : Len(mail'[v]) <= MailCap
      /\ mail'[u] = SendTo(mail[u], MailCap, e)
      /\ \A v \in Users \ {u} : mail'[v] = mail[v]
  BY <1>1, <1>2, <1>3
<1>5. missed' \subseteq Users /\ missed \subseteq missed'
  BY <1>1, <1>2
<1>6. \A v \in Users \ {u} : Got(v)' = Got(v)
  BY <1>4 DEF Got
<1>7. CASE Len(mail[u]) < MailCap
  <2>1. Got(u)' = seen[u] \o Append(mail[u], e)
    BY <1>3, <1>4, <1>7 DEF Got
  <2>2. seen[u] \o Append(mail[u], e) = Append(seen[u] \o mail[u], e)
    BY <1>1, AppendedBehind
  <2> QED BY <1>4, <1>5, <1>6, <2>1, <2>2 DEF Got
<1>8. CASE Len(mail[u]) >= MailCap
  <2>1. Got(u)' = Got(u) /\ u \in missed'
    BY <1>1, <1>2, <1>3, <1>4, <1>8 DEF Got
  <2> QED BY <1>4, <1>5, <1>6, <2>1
<1> QED BY <1>1, <1>7, <1>8

(* A round of the loop of broadcast_message(). *)
Hands(u) ==
    /\ Len(clients) \in Nat /\ cursor \in 1..Len(clients) /\ clients[cursor] = u
    /\ phase = "send" /\ phase' = "send" /\ cursor' = cursor + 1
    /\ current \in Datagram /\ Live(current) \in Entry
    /\ \/ u = current.from /\ UNCHANGED <<mail, missed>>
       \/ u # current.from /\ HandTo(u, Live(current))
    /\ UNCHANGED <<inbox, clients, current, file, seen, sent, asked, logFailures>>

(* The end of one of the two loops. *)
Returns ==
    /\ phase' = "recv"
    /\ UNCHANGED <<inbox, clients, current, cursor, file, mail, seen, sent, asked,
                   missed, logFailures>>

LEMMA HandOnResult ==
    ASSUME Shapes, HandOn
    PROVE  Returns \/ \E u \in Users : Hands(u)
<1>1. /\ clients \in Seq(Users) /\ Len(clients) \in Nat /\ phase = "send"
      /\ cursor \in 1..(Len(clients) + 1) /\ current \in Datagram
      /\ UNCHANGED <<inbox, clients, current, file, seen, sent, asked, logFailures>>
  BY LenProperties DEF Shapes, TypeOK, HandOn, userVars, bounds
<1>2. CASE cursor > Len(clients)
  BY <1>1, <1>2 DEF HandOn, Returns
<1>3. CASE ~(cursor > Len(clients))
  <2>1. cursor \in 1..Len(clients)
    BY <1>1, <1>3
  <2>2. PICK u \in Users : u = clients[cursor]
    BY <1>1, <2>1, ElementOfSeq
  <2>3. Live(current) \in Entry
    BY <1>1 DEF Live, Entry, Line
  <2>4. /\ cursor' = cursor + 1 /\ phase' = phase
        /\ \/ u = current.from /\ UNCHANGED <<mail, missed>>
           \/ u # current.from /\ HandTo(u, Live(current))
    BY <1>3, <2>2 DEF HandOn, NextClient
  <2> QED BY <1>1, <2>1, <2>2, <2>3, <2>4 DEF Hands
<1> QED BY <1>2, <1>3

(* A round of the loop of send_history(). *)
Replays(u) ==
    /\ current \in Datagram /\ current.from = u /\ Len(file) \in Nat
    /\ phase = "replay" /\ phase' = "replay" /\ cursor \in 1..Len(file) /\ cursor' = cursor + 1
    /\ Old(file[cursor]) \in Entry /\ HandTo(u, Old(file[cursor]))
    /\ UNCHANGED <<inbox, clients, current, file, seen, sent, asked, logFailures>>

LEMMA ReplayResult ==
    ASSUME Shapes, Replay
    PROVE  Returns \/ \E u \in Users : Replays(u)
<1>1. /\ file \in Seq(Line) /\ Len(file) \in Nat /\ phase = "replay"
      /\ cursor \in 1..(Len(file) + 1) /\ current \in Datagram
      /\ UNCHANGED <<inbox, clients, current, file, seen, sent, asked, logFailures>>
  BY LenProperties DEF Shapes, TypeOK, Replay, userVars, bounds, Line
<1>2. CASE cursor > Len(file)
  BY <1>1, <1>2 DEF Replay, Returns
<1>3. CASE ~(cursor > Len(file))
  <2>1. cursor \in 1..Len(file)
    BY <1>1, <1>3
  <2>2. PICK u \in Users : u = current.from
    BY <1>1 DEF Datagram
  <2>3. Old(file[cursor]) \in Entry
    <3>1. file[cursor] \in Line
      BY <1>1, <2>1, ElementOfSeq
    <3> QED BY <3>1 DEF Old, Entry
  <2>4. cursor' = cursor + 1 /\ phase' = phase /\ HandTo(u, Old(file[cursor]))
    BY <1>3, <2>2 DEF Replay
  <2> QED BY <1>1, <2>1, <2>2, <2>3, <2>4 DEF Replays
<1> QED BY <1>2, <1>3

(* A round of either loop, seen from the sockets. *)
Sends(u) ==
    /\ mail' \in [Users -> Seq(Entry)]
    /\ \A v \in Users : Len(mail'[v]) <= MailCap
    /\ missed' \subseteq Users /\ missed \subseteq missed'
    /\ \A v \in Users \ {u} : Got(v)' = Got(v)

LEMMA HandsResult ==
    ASSUME Shapes, NEW u \in Users, Hands(u)
    PROVE  /\ Sends(u)
           /\ \/ Got(u)' = Got(u)
              \/ u # current.from /\ Got(u)' = Append(Got(u), Live(current))
<1>1. CASE UNCHANGED <<mail, missed>>
  <2>1. seen' = seen
    BY DEF Hands
  <2> QED BY <1>1, <2>1 DEF Sends, Got, Shapes, TypeOK
<1>2. CASE u # current.from /\ HandTo(u, Live(current))
  <2>1. PICK e \in Entry : e = Live(current)
    BY DEF Hands
  <2>2. HandTo(u, e) /\ seen' = seen
    BY <1>2, <2>1 DEF Hands
  <2> QED BY <1>2, <2>1, <2>2, HandToResult DEF Sends
<1> QED BY <1>1, <1>2 DEF Hands

LEMMA ReplaysResult ==
    ASSUME Shapes, NEW u \in Users, Replays(u)
    PROVE  /\ Sends(u)
           /\ \/ Got(u)' = Got(u) /\ u \in missed'
              \/ Got(u)' = Append(Got(u), Old(file[cursor]))
<1>1. PICK e \in Entry : e = Old(file[cursor])
  BY DEF Replays
<1>2. HandTo(u, e) /\ seen' = seen
  BY <1>1 DEF Replays
<1> QED BY <1>1, <1>2, HandToResult DEF Sends

LEMMA SendsKeepsShapes ==
    ASSUME Shapes, NEW u \in Users, Sends(u), Hands(u) \/ Replays(u)
    PROVE  Shapes'
<1>1. /\ mail' \in [Users -> Seq(Entry)] /\ missed' \subseteq Users
      /\ \A v \in Users : Len(mail'[v]) <= MailCap
  BY DEF Sends
<1>2. /\ phase' = phase /\ phase \in {"send", "replay"} /\ cursor' = cursor + 1
      /\ UNCHANGED <<inbox, clients, current, file, seen, sent, asked, logFailures>>
  BY DEF Hands, Replays
<1>3. /\ phase = "send" => cursor \in 1..Len(clients) /\ Len(clients) \in Nat
      /\ phase = "replay" => cursor \in 1..Len(file) /\ Len(file) \in Nat
  BY DEF Hands, Replays
<1>4. /\ phase' = "send" => cursor' \in 1..(Len(clients') + 1)
      /\ phase' = "replay" => cursor' \in 1..(Len(file') + 1)
  BY <1>2, <1>3
<1> QED BY <1>1, <1>2, <1>4 DEF Shapes, TypeOK

LEMMA NextShapes == Shapes /\ [Next]_historyVars => Shapes'
<1> SUFFICES ASSUME Shapes, [Next]_historyVars PROVE Shapes'
  OBVIOUS
<1>1. ASSUME NEW u \in Users, Say(u) \/ Ask(u) \/ Read(u) PROVE Shapes'
  BY <1>1, SayKeepsShapes, ReadKeepsShapes
<1>2. CASE Take
  BY <1>2, TakeResult, TakeKeepsShapes
<1>3. CASE Log
  BY <1>3, LogResult, LogKeepsShapes
<1>4. CASE Returns
  BY <1>4 DEF Returns, Shapes, TypeOK
<1>5. CASE HandOn
  BY <1>4, <1>5, HandOnResult, HandsResult, SendsKeepsShapes
<1>6. CASE Replay
  BY <1>4, <1>6, ReplayResult, ReplaysResult, SendsKeepsShapes
<1>7. CASE Crash
  <2>1. /\ inbox' = << >> /\ clients' = << >> /\ phase' = "recv" /\ current' = Nothing
        /\ cursor' = 1 /\ UNCHANGED <<file, mail, seen, sent, asked, missed, logFailures>>
    BY <1>7 DEF Crash, userVars
  <2>2. /\ << >> \in Seq(Datagram) /\ << >> \in Seq(Users) /\ Len(<< >>) = 0
        /\ InboxCap \in Nat /\ MaxClients \in Nat
    BY ChatHistoryAssumption, EmptySeq
  <2>3. /\ inbox' \in Seq(Datagram) /\ Len(inbox') <= InboxCap
        /\ clients' \in Seq(Users) /\ Len(clients') <= MaxClients
    BY <2>1, <2>2
  <2> QED BY <2>1, <2>3 DEF Shapes, TypeOK
<1>8. CASE UNCHANGED historyVars
  BY <1>8 DEF historyVars, serverVars, userVars, bounds, Shapes, TypeOK
<1> QED BY <1>1, <1>2, <1>3, <1>5, <1>6, <1>7, <1>8 DEF Next

-----------------------------------------------------------------------------
(* The table and the line that is handed on. *)

LEMMA NextNoneTwice ==
    ASSUME Shapes, NoneTwice, [Next]_historyVars
    PROVE  NoneTwice'
<1>1. CASE clients' = clients
  BY <1>1 DEF NoneTwice
<1>2. CASE Take
  <2>1. PICK d \in Datagram : Takes(d)
    BY <1>2, TakeResult
  <2> QED BY <1>1, <2>1 DEF Takes, NoneTwice, IsKnown
<1>3. CASE Crash
  <2>1. clients' = << >> /\ Len(<< >>) = 0
    BY <1>3 DEF Crash
  <2> QED BY <2>1 DEF NoneTwice
<1>4. ASSUME NEW u \in Users, Say(u) \/ Ask(u) \/ Read(u) PROVE clients' = clients
  BY <1>4 DEF Say, Ask, Read, serverVars
<1>5. ASSUME Log \/ HandOn \/ Replay \/ UNCHANGED historyVars PROVE clients' = clients
  BY <1>5 DEF Log, HandOn, Replay, historyVars, serverVars
<1> QED BY <1>1, <1>2, <1>3, <1>4, <1>5 DEF Next

LEMMA NextLogged ==
    ASSUME Shapes, Logged, [Next]_historyVars
    PROVE  Logged'
<1>1. ASSUME UNCHANGED <<phase, file, current, logFailures>> PROVE Logged'
  BY <1>1 DEF Logged
<1>2. ASSUME phase' # "send" PROVE Logged'
  BY <1>2 DEF Logged
<1>3. CASE Take
  BY <1>2, <1>3, TakeResult DEF Takes
<1>4. CASE Log
  <2>1. Logs /\ logFailures \in Nat
    BY <1>4, LogResult DEF Shapes
  <2>2. CASE logFailures' = logFailures + 1
    BY <2>1, <2>2 DEF Logged
  <2>3. CASE /\ Len(file') = Len(file) + 2
             /\ file'[Len(file) + 1] = current
    <3>1. Len(file) \in Nat /\ current' = current
      BY <2>1 DEF Logs
    <3>2. Len(file') >= 2 /\ Len(file') - 1 = Len(file) + 1
      BY <2>3, <3>1
    <3> QED BY <2>3, <3>1, <3>2 DEF Logged
  <2> QED BY <2>1, <2>2, <2>3 DEF Logs
<1>5. CASE HandOn
  BY <1>1, <1>2, <1>5, HandOnResult DEF Returns, Hands
<1>6. CASE Replay
  BY <1>1, <1>2, <1>6, ReplayResult DEF Returns, Replays
<1>7. CASE Crash
  BY <1>2, <1>7 DEF Crash
<1>8. ASSUME NEW u \in Users, Say(u) \/ Ask(u) \/ Read(u) PROVE Logged'
  BY <1>1, <1>8 DEF Say, Ask, Read, serverVars, bounds
<1>9. CASE UNCHANGED historyVars
  BY <1>1, <1>9 DEF historyVars, serverVars, bounds
<1> QED BY <1>3, <1>4, <1>5, <1>6, <1>7, <1>8, <1>9 DEF Next

-----------------------------------------------------------------------------
(* What was told as it was said is in the log. *)

LEMMA ReachBounds ==
    ASSUME Shapes, NEW u \in Users
    PROVE  /\ Len(file) \in Nat /\ Reach(u) \in Int /\ Reach(u) <= Len(file)
           /\ phase # "send" => Reach(u) = Len(file)
<1>1. Len(file) \in Nat
  BY LenProperties DEF Shapes, TypeOK
<1> QED BY <1>1 DEF Reach

(* Whoever has got nothing new keeps its places in the log, as long as the *)
(* log only grows and the places are within reach.                         *)
LEMMA StillTold ==
    ASSUME NEW u \in Users, Got(u)' = Got(u),
           Len(file) \in Nat, \A i \in 1..Len(file) : file'[i] = file[i],
           Reach(u) \in Int, Reach(u) <= Len(file),
           Reach(u)' \in Int, Reach(u) <= Reach(u)',
           NEW pos \in [Told(u) -> 1..Reach(u)], InLog(u, pos)
    PROVE  pos \in [Told(u)' -> 1..Reach(u)'] /\ InLog(u, pos)'
<1>1. Told(u)' = Told(u)
  BY DEF Told
<1>2. \A i \in Told(u) : pos[i] \in 1..Reach(u)'
  OBVIOUS
<1>3. pos \in [Told(u)' -> 1..Reach(u)']
  BY <1>1, <1>2
<1>4. \A i \in Told(u) : file'[pos[i]] = Got(u)[i].line
  <2>1. \A i \in Told(u) : pos[i] \in 1..Len(file)
    OBVIOUS
  <2> QED BY <2>1 DEF InLog
<1> QED BY <1>1, <1>3, <1>4 DEF InLog

(* A step at which nobody gets anything. *)
LEMMA NobodyToldKeepsTold ==
    ASSUME Shapes, Shapes', ToldInTime,
           \A u \in Users : Got(u)' = Got(u),
           \A i \in 1..Len(file) : file'[i] = file[i],
           logFailures' = 0 => logFailures = 0,
           logFailures' = 0 => \A u \in Users : Reach(u) <= Reach(u)'
    PROVE  ToldInTime'
<1> SUFFICES ASSUME logFailures' = 0, NEW u \in Users
             PROVE  \E pos \in [Told(u)' -> 1..Reach(u)'] : InLog(u, pos)'
  BY DEF ToldInTime
<1>1. PICK pos \in [Told(u) -> 1..Reach(u)] : InLog(u, pos)
  BY DEF ToldInTime
<1>2. /\ Len(file) \in Nat /\ Reach(u) \in Int /\ Reach(u) <= Len(file)
      /\ Reach(u)' \in Int
  <2>1. Reach(u)' \in Int
    <3>1. Len(file') \in Nat
      BY LenProperties DEF Shapes, TypeOK
    <3> QED BY <3>1 DEF Reach
  <2> QED BY <2>1, ReachBounds
<1>3. pos \in [Told(u)' -> 1..Reach(u)'] /\ InLog(u, pos)'
  BY <1>1, <1>2, StillTold
<1> QED BY <1>3

(* The reply to "/history" is not told as it is said. *)
LEMMA ReplayTellsNothing ==
    ASSUME Shapes, NEW u \in Users, NEW e \in Entry, e.kind = "old",
           Got(u)' = Append(Got(u), e), file' = file, Reach(u)' = Reach(u),
           NEW pos \in [Told(u) -> 1..Reach(u)], InLog(u, pos)
    PROVE  pos \in [Told(u)' -> 1..Reach(u)'] /\ InLog(u, pos)'
<1>1. /\ Len(Got(u)) \in Nat /\ Len(Got(u)') = Len(Got(u)) + 1
      /\ \A i \in 1..Len(Got(u)) : Got(u)'[i] = Got(u)[i]
      /\ Got(u)'[Len(Got(u)) + 1] = e
  BY GotIsSeq, AppendProperties
<1>2. 1..Len(Got(u)') = 1..Len(Got(u)) \cup {Len(Got(u)) + 1}
  BY <1>1
<1>3. Told(u)' = Told(u)
  BY <1>1, <1>2 DEF Told
<1>4. \A i \in Told(u) : Got(u)'[i] = Got(u)[i]
  BY <1>1 DEF Told
<1> QED BY <1>3, <1>4 DEF InLog

(* A message that is handed on gets the last place but one. *)
LEMMA HandsTellsTheLastLine ==
    ASSUME Shapes, NEW u \in Users, NEW e \in Entry, e.kind = "live",
           Got(u)' = Append(Got(u), e), file' = file,
           Len(file) \in Nat, Len(file) >= 2, file[Len(file) - 1] = e.line,
           Reach(u) = Len(file) - 2, Reach(u)' = Len(file),
           NEW pos \in [Told(u) -> 1..Reach(u)], InLog(u, pos)
    PROVE  \E p \in [Told(u)' -> 1..Reach(u)'] : InLog(u, p)'
<1>1. /\ Len(Got(u)) \in Nat /\ Len(Got(u)') = Len(Got(u)) + 1
      /\ \A i \in 1..Len(Got(u)) : Got(u)'[i] = Got(u)[i]
      /\ Got(u)'[Len(Got(u)) + 1] = e
  BY GotIsSeq, AppendProperties
<1> DEFINE last == Len(Got(u)) + 1
           p == [i \in Told(u)' |-> IF i = last THEN Len(file) - 1 ELSE pos[i]]
<1>2. 1..Len(Got(u)') = 1..Len(Got(u)) \cup {last}
  BY <1>1
<1>3. Told(u)' = Told(u) \cup {last}
  BY <1>1, <1>2 DEF Told
<1>4. \A i \in Told(u) : i \in 1..Len(Got(u)) /\ i < last
  BY <1>1 DEF Told
<1>5. \A i \in Told(u) : pos[i] \in 1..(Len(file) - 2) /\ p[i] = pos[i]
  BY <1>3, <1>4
<1>6. p[last] = Len(file) - 1
  BY <1>3
<1>7. p \in [Told(u)' -> 1..Reach(u)']
  <2>1. \A i \in Told(u)' : p[i] \in 1..Len(file)
    BY <1>3, <1>5, <1>6
  <2> HIDE DEF last
  <2> QED BY <2>1
<1> HIDE DEF p
<1>8. \A i \in Told(u)' : file'[p[i]] = Got(u)'[i].line
  <2>1. \A i \in Told(u) : file[p[i]] = Got(u)'[i].line
    BY <1>1, <1>4, <1>5 DEF InLog
  <2>2. file[p[last]] = Got(u)'[last].line
    BY <1>1, <1>6
  <2> QED BY <1>3, <2>1, <2>2
<1>9. \A i, j \in Told(u)' : i < j => p[i] < p[j]
  <2> SUFFICES ASSUME NEW i \in Told(u)', NEW j \in Told(u)', i < j PROVE p[i] < p[j]
    OBVIOUS
  <2>1. i \in Told(u)
    BY <1>1, <1>3, <1>4
  <2>2. CASE j \in Told(u)
    BY <1>5, <2>1, <2>2 DEF InLog
  <2>3. CASE j = last
    BY <1>5, <1>6, <2>1, <2>3
  <2> QED BY <1>3, <2>2, <2>3
<1> QED BY <1>7, <1>8, <1>9 DEF InLog

LEMMA HandsKeepsTold ==
    ASSUME Shapes, Shapes', NoneTwice, Logged, ToldInTime, NEW u \in Users, Hands(u)
    PROVE  ToldInTime'
<1>1. /\ Len(clients) \in Nat /\ cursor \in 1..Len(clients) /\ clients[cursor] = u
      /\ phase = "send" /\ phase' = "send" /\ cursor' = cursor + 1 /\ file' = file
      /\ clients' = clients /\ logFailures' = logFailures /\ Len(file) \in Nat
  BY LenProperties DEF Hands, Shapes, TypeOK
<1>2. /\ ~Served(u) /\ Served(u)'
      /\ \A v \in Users : v # u => (Served(v)' <=> Served(v))
  <2>1. \A i \in 1..(cursor - 1) : i \in 1..Len(clients) /\ i # cursor
    BY <1>1
  <2>2. ~Served(u)
    BY <1>1, <2>1 DEF Served, NoneTwice
  <2>3. 1..(cursor' - 1) = 1..(cursor - 1) \cup {cursor}
    BY <1>1
  <2> QED BY <1>1, <2>2, <2>3 DEF Served
<1>3. /\ Reach(u) = Len(file) - 2 /\ Reach(u)' = Len(file)
      /\ \A v \in Users : v # u => Reach(v)' = Reach(v)
  BY <1>1, <1>2 DEF Reach
<1>4. /\ \A v \in Users \ {u} : Got(v)' = Got(v)
      /\ \/ Got(u)' = Got(u)
         \/ Got(u)' = Append(Got(u), Live(current))
  BY HandsResult DEF Sends
<1>5. CASE Got(u)' = Got(u)
  <2>1. \A v \in Users : Got(v)' = Got(v)
    BY <1>4, <1>5
  <2>2. \A v \in Users : Reach(v) <= Reach(v)'
    BY <1>1, <1>3, ReachBounds
  <2> QED BY <1>1, <2>1, <2>2, NobodyToldKeepsTold
<1>6. CASE Got(u)' = Append(Got(u), Live(current))
  <2> SUFFICES ASSUME logFailures' = 0, NEW v \in Users
               PROVE  \E pos \in [Told(v)' -> 1..Reach(v)'] : InLog(v, pos)'
    BY DEF ToldInTime
  <2>1. PICK pos \in [Told(v) -> 1..Reach(v)] : InLog(v, pos)
    BY <1>1 DEF ToldInTime
  <2>2. CASE v = u
    <3>1. PICK e \in Entry : e = Live(current)
      BY DEF Hands
    <3>2. e.kind = "live" /\ e.line = current
      BY <3>1 DEF Live
    <3>3. Len(file) >= 2 /\ file[Len(file) - 1] = e.line
      BY <1>1, <3>2 DEF Logged
    <3>4. Got(u)' = Append(Got(u), e)
      BY <1>6, <3>1
    <3>5. pos \in [Told(u) -> 1..Reach(u)] /\ InLog(u, pos)
      BY <2>1, <2>2
    <3>6. \E p \in [Told(u)' -> 1..Reach(u)'] : InLog(u, p)'
      BY <1>1, <1>3, <3>2, <3>3, <3>4, <3>5, HandsTellsTheLastLine
    <3> QED BY <2>2, <3>6
  <2>3. CASE v # u
    <3>1. /\ Got(v)' = Got(v) /\ Reach(v)' = Reach(v) /\ Reach(v) \in Int
          /\ Reach(v) <= Len(file)
      BY <1>3, <1>4, <2>3, ReachBounds
    <3>2. pos \in [Told(v)' -> 1..Reach(v)'] /\ InLog(v, pos)'
      BY <1>1, <2>1, <3>1, StillTold
    <3> QED BY <3>2
  <2> QED BY <2>2, <2>3
<1> QED BY <1>4, <1>5, <1>6

LEMMA ReplaysKeepsTold ==
    ASSUME Shapes, Shapes', ToldInTime, NEW u \in Users, Replays(u)
    PROVE  ToldInTime'
<1>1. /\ phase = "replay" /\ phase' = "replay" /\ file' = file
      /\ logFailures' = logFailures /\ Len(file) \in Nat
  BY DEF Replays
<1>2. \A v \in Users : Reach(v)' = Reach(v) /\ Reach(v) = Len(file)
  BY <1>1 DEF Reach
<1>3. /\ \A v \in Users \ {u} : Got(v)' = Got(v)
      /\ \/ Got(u)' = Got(u)
         \/ Got(u)' = Append(Got(u), Old(file[cursor]))
  BY ReplaysResult DEF Sends
<1>4. CASE Got(u)' = Got(u)
  <2>1. \A v \in Users : Got(v)' = Got(v)
    BY <1>3, <1>4
  <2>2. \A v \in Users : Reach(v) <= Reach(v)'
    BY <1>1, <1>2
  <2> QED BY <1>1, <2>1, <2>2, NobodyToldKeepsTold
<1>5. CASE Got(u)' = Append(Got(u), Old(file[cursor]))
  <2> SUFFICES ASSUME logFailures' = 0, NEW v \in Users
               PROVE  \E pos \in [Told(v)' -> 1..Reach(v)'] : InLog(v, pos)'
    BY DEF ToldInTime
  <2>1. PICK pos \in [Told(v) -> 1..Reach(v)] : InLog(v, pos)
    BY <1>1 DEF ToldInTime
  <2>2. CASE v = u
    <3>1. PICK e \in Entry : e = Old(file[cursor])
      BY DEF Replays
    <3>2. e.kind = "old" /\ Got(u)' = Append(Got(u), e)
      BY <1>5, <3>1 DEF Old
    <3>3. pos \in [Told(u) -> 1..Reach(u)] /\ InLog(u, pos) /\ Reach(u)' = Reach(u)
      BY <1>2, <2>1, <2>2
    <3>4. pos \in [Told(u)' -> 1..Reach(u)'] /\ InLog(u, pos)'
      BY <1>1, <3>2, <3>3, ReplayTellsNothing
    <3> QED BY <2>2, <3>4
  <2>3. CASE v # u
    <3>1. /\ Got(v)' = Got(v) /\ Reach(v)' = Reach(v) /\ Reach(v) \in Int
          /\ Reach(v) <= Len(file) /\ Reach(v) <= Reach(v)'
      BY <1>1, <1>2, <1>3, <2>3
    <3>2. pos \in [Told(v)' -> 1..Reach(v)'] /\ InLog(v, pos)'
      BY <1>1, <2>1, <3>1, StillTold
    <3> QED BY <3>2
  <2> QED BY <2>2, <2>3
<1> QED BY <1>3, <1>4, <1>5

LEMMA NextToldInTime ==
    ASSUME Shapes, Shapes', NoneTwice, Logged, ToldInTime, [Next]_historyVars
    PROVE  ToldInTime'
<1>1. Len(file) \in Nat /\ logFailures \in Nat
  BY LenProperties DEF Shapes, TypeOK
<1>2. ASSUME \A u \in Users : Got(u)' = Got(u), UNCHANGED <<file, logFailures>>,
             UNCHANGED <<phase, clients, cursor>> \/ phase' # "send"
      PROVE  ToldInTime'
  <2>1. \A u \in Users : Reach(u) <= Reach(u)'
    <3>1. CASE phase' # "send"
      BY <1>1, <1>2, <3>1, ReachBounds DEF Reach
    <3>2. CASE UNCHANGED <<phase, clients, cursor>>
      <4>1. \A u \in Users : Reach(u)' = Reach(u) /\ Reach(u) \in Int
        BY <1>2, <3>2, ReachBounds DEF Reach, Served
      <4> QED BY <4>1
    <3> QED BY <1>2, <3>1, <3>2
  <2> QED BY <1>2, <2>1, NobodyToldKeepsTold
<1>3. ASSUME UNCHANGED <<mail, seen>> PROVE \A u \in Users : Got(u)' = Got(u)
  BY <1>3 DEF Got
<1>4. ASSUME NEW u \in Users, Say(u) \/ Ask(u) PROVE ToldInTime'
  <2>1. UNCHANGED <<mail, seen, file, logFailures, phase, clients, cursor>>
    BY <1>4 DEF Say, Ask, serverVars, bounds
  <2> QED BY <1>2, <1>3, <2>1
<1>5. ASSUME NEW u \in Users, Read(u) PROVE ToldInTime'
  <2>1. UNCHANGED <<file, logFailures, phase, clients, cursor>>
    BY <1>5 DEF Read, serverVars, bounds
  <2> QED BY <1>2, <1>5, <2>1, ReadKeepsShapes
<1>6. CASE Take
  BY <1>2, <1>3, <1>6, TakeResult DEF Takes
<1>7. CASE Log
  <2>1. Logs
    BY <1>7, LogResult
  <2>2. \A u \in Users : Got(u)' = Got(u)
    BY <1>3, <2>1 DEF Logs
  <2>3. \A i \in 1..Len(file) : file'[i] = file[i]
    BY <2>1 DEF Logs
  <2>4. logFailures' = 0 => logFailures = 0 /\ Len(file') = Len(file) + 2
    BY <1>1, <2>1 DEF Logs
  <2>5. logFailures' = 0 => \A u \in Users : Reach(u) <= Reach(u)'
    <3>1. phase # "send" /\ phase' = "send" /\ cursor' = 1
      BY <2>1 DEF Logs
    <3>2. \A u \in Users : ~Served(u)'
      BY <3>1 DEF Served
    <3> QED BY <1>1, <2>4, <3>1, <3>2 DEF Reach
  <2> QED BY <2>2, <2>3, <2>4, <2>5, NobodyToldKeepsTold
<1>8. CASE Returns
  BY <1>2, <1>3, <1>8 DEF Returns
<1>9. CASE HandOn
  BY <1>8, <1>9, HandOnResult, HandsKeepsTold
<1>10. CASE Replay
  BY <1>8, <1>10, ReplayResult, ReplaysKeepsTold
<1>11. CASE Crash
  <2>1. phase' # "send" /\ UNCHANGED <<mail, seen, file, logFailures>>
    BY <1>11 DEF Crash, userVars
  <2> QED BY <1>2, <1>3, <2>1
<1>12. CASE UNCHANGED historyVars
  <2>1. UNCHANGED <<mail, seen, file, logFailures, phase, clients, cursor>>
    BY <1>12 DEF historyVars, serverVars, userVars, bounds
  <2> QED BY <1>2, <1>3, <2>1
<1> QED BY <1>4, <1>5, <1>6, <1>7, <1>9, <1>10, <1>11, <1>12 DEF Next

-----------------------------------------------------------------------------
(* A replay is the log. *)

(* The last n elements of g are f[1], ..., f[n]; with one more of both this *)
(* goes on.                                                                *)
EndsWith(g, n, f) == Len(g) >= n /\ \A i \in 1..n : g[Len(g) - n + i] = f[i]

LEMMA OneLineMore ==
    ASSUME NEW S, NEW g \in Seq(S), NEW e \in S, NEW n \in Nat, NEW f,
           EndsWith(g, n, f), e = f[n + 1]
    PROVE  EndsWith(Append(g, e), n + 1, f)
<1> DEFINE more == Append(g, e)
<1>1. /\ Len(g) \in Nat /\ Len(more) = Len(g) + 1
      /\ \A i \in 1..Len(g) : more[i] = g[i]
      /\ more[Len(g) + 1] = e
  BY LenProperties, AppendProperties
<1> HIDE DEF more
<1>2. ASSUME NEW i \in 1..(n + 1) PROVE more[Len(more) - (n + 1) + i] = f[i]
  <2>1. CASE i = n + 1
    <3>1. Len(more) - (n + 1) + i = Len(g) + 1
      BY <1>1, <2>1
    <3> QED BY <1>1, <2>1, <3>1
  <2>2. CASE i # n + 1
    <3>1. /\ i \in 1..n /\ Len(more) - (n + 1) + i = Len(g) - n + i
          /\ Len(g) - n + i \in 1..Len(g)
      BY <1>1, <2>2 DEF EndsWith
    <3>2. more[Len(g) - n + i] = g[Len(g) - n + i]
      BY <1>1, <3>1
    <3> QED BY <3>1, <3>2 DEF EndsWith
  <2> QED BY <2>1, <2>2
<1>3. Len(more) >= n + 1
  BY <1>1 DEF EndsWith
<1> QED BY <1>2, <1>3 DEF more, EndsWith

LEMMA ReplaysKeepsReplay ==
    ASSUME Shapes, ReplayIsTheLog, NEW u \in Users, Replays(u)
    PROVE  ReplayIsTheLog'
<1>1. /\ phase = "replay" /\ current' = current /\ current.from = u /\ file' = file
      /\ cursor \in Nat \ {0} /\ cursor' = cursor + 1 /\ Len(file) \in Nat
  BY DEF Replays
<1>2. /\ missed \subseteq missed'
      /\ \/ Got(u)' = Got(u) /\ u \in missed'
         \/ Got(u)' = Append(Got(u), Old(file[cursor]))
  BY ReplaysResult DEF Sends
<1>3. CASE u \in missed'
  BY <1>1, <1>3 DEF ReplayIsTheLog
<1>4. CASE u \notin missed' /\ Got(u)' = Append(Got(u), Old(file[cursor]))
  <2>1. PICK g \in Seq(Entry) : g = Got(u)
    BY GotIsSeq
  <2>2. PICK n \in Nat : n = cursor - 1
    BY <1>1
  <2>3. PICK e \in Entry : e = Old(file[cursor])
    BY DEF Replays
  <2>4. PICK f : f = [i \in 1..Len(file) |-> Old(file[i])]
    OBVIOUS
  <2>5. /\ n + 1 = cursor /\ e = f[n + 1]
        /\ \A i \in 1..(n + 1) : f[i] = Old(file[i])
    BY <1>1, <2>2, <2>3, <2>4 DEF Replays
  <2>6. Len(g) >= n /\ \A i \in 1..n : g[Len(g) - n + i] = Old(file[i])
    BY <1>1, <1>2, <1>4, <2>1, <2>2 DEF ReplayIsTheLog
  <2>7. EndsWith(g, n, f)
    BY <2>2, <2>5, <2>6 DEF EndsWith
  <2>8. EndsWith(Append(g, e), n + 1, f)
    BY <2>1, <2>2, <2>3, <2>5, <2>7, OneLineMore
  <2>9. PICK more : more = Append(g, e)
    OBVIOUS
  <2>10. Len(more) >= n + 1 /\ \A i \in 1..(n + 1) : more[Len(more) - (n + 1) + i] = Old(file[i])
    BY <2>5, <2>8, <2>9 DEF EndsWith
  <2>11. /\ cursor' - 1 = n + 1 /\ Got(current.from)' = more /\ file' = file
    BY <1>1, <1>4, <2>1, <2>2, <2>3, <2>9
  <2> QED BY <2>10, <2>11 DEF ReplayIsTheLog
<1> QED BY <1>2, <1>3, <1>4

LEMMA NextReplayIsTheLog ==
    ASSUME Shapes, Shapes', ReplayIsTheLog, [Next]_historyVars
    PROVE  ReplayIsTheLog'
<1>1. ASSUME \A u \in Users : Got(u)' = Got(u),
             UNCHANGED <<phase, current, cursor, file, missed>>
      PROVE  ReplayIsTheLog'
  <2>1. CASE phase = "replay"
    <3>1. current.from \in Users
      BY <2>1 DEF Shapes, Datagram
    <3>2. PICK u \in Users : u = current.from
      BY <3>1
    <3>3. Got(u)' = Got(u) /\ current'.from = u /\ current.from = u
      BY <1>1, <3>2
    <3> QED BY <1>1, <3>3 DEF ReplayIsTheLog
  <2>2. CASE phase # "replay"
    BY <1>1, <2>2 DEF ReplayIsTheLog
  <2> QED BY <2>1, <2>2
<1>2. ASSUME phase' # "replay" PROVE ReplayIsTheLog'
  BY <1>2 DEF ReplayIsTheLog
<1>3. ASSUME NEW u \in Users, Say(u) \/ Ask(u) PROVE ReplayIsTheLog'
  BY <1>1, <1>3 DEF Say, Ask, serverVars, Got
<1>4. ASSUME NEW u \in Users, Read(u) PROVE ReplayIsTheLog'
  BY <1>1, <1>4, ReadKeepsShapes DEF Read, serverVars
<1>5. CASE Take
  <2>1. PICK d \in Datagram : Takes(d)
    BY <1>5, TakeResult
  <2>2. cursor' = 1 /\ current' = d /\ d.from \in Users
    BY <2>1 DEF Takes
  <2>3. Len(Got(d.from)') \in Nat
    <3>1. PICK u \in Users : u = d.from
      BY <2>2
    <3>2. seen'[u] \in Seq(Entry) /\ mail'[u] \in Seq(Entry)
      BY DEF Shapes
    <3>3. Got(u)' \in Seq(Entry)
      BY <3>2, ConcatProperties DEF Got
    <3> QED BY <3>1, <3>3, LenProperties
  <2> QED BY <2>2, <2>3 DEF ReplayIsTheLog
<1>6. CASE Log
  BY <1>2, <1>6 DEF Log
<1>7. CASE HandOn
  BY <1>2, <1>7, HandOnResult DEF Returns, Hands
<1>8. CASE Replay
  BY <1>2, <1>8, ReplayResult, ReplaysKeepsReplay DEF Returns
<1>9. CASE Crash
  BY <1>2, <1>9 DEF Crash
<1>10. CASE UNCHANGED historyVars
  BY <1>1, <1>10 DEF historyVars, serverVars, userVars, Got
<1> QED BY <1>3, <1>4, <1>5, <1>6, <1>7, <1>8, <1>9, <1>10 DEF Next

-----------------------------------------------------------------------------
(* The theorems. *)

LEMMA InitHistoryInv == Init => HistoryInv
<1> SUFFICES ASSUME Init PROVE HistoryInv
  OBVIOUS
<1>1. /\ inbox = << >> /\ clients = << >> /\ file = << >> /\ phase = "recv"
      /\ current = Nothing /\ cursor = 1 /\ missed = {} /\ logFailures = 0
      /\ mail = [u \in Users |-> << >>] /\ seen = [u \in Users |-> << >>]
      /\ sent = [u \in Users |-> 0] /\ asked = [u \in Users |-> 0]
  BY DEF Init
<1>2. Len(<< >>) = 0 /\ \A S : << >> \in Seq(S)
  BY EmptySeq
<1>3. MaxClients \in Nat /\ InboxCap \in Nat /\ MailCap \in Nat
  BY ChatHistoryAssumption
<1>4. Shapes
  <2>1. /\ mail \in [Users -> Seq(Entry)] /\ seen \in [Users -> Seq(Entry)]
        /\ \A u \in Users : Len(mail[u]) <= MailCap
    BY <1>1, <1>2, <1>3
  <2> QED BY <1>1, <1>2, <1>3, <2>1 DEF Shapes, TypeOK
<1>5. \A u \in Users : Told(u) = {}
  <2>1. \A u \in Users : Got(u) = << >>
    BY <1>1, <1>2, ConcatEmptySeq DEF Got
  <2> QED BY <1>2, <2>1 DEF Told
<1>6. ToldInTime
  <2> SUFFICES ASSUME NEW u \in Users PROVE \E pos \in [Told(u) -> 1..Reach(u)] : InLog(u, pos)
    BY DEF ToldInTime
  <2> DEFINE none == [i \in {} |-> 0]
  <2>1. none \in [Told(u) -> 1..Reach(u)] /\ InLog(u, none)
    BY <1>5 DEF InLog
  <2> QED BY <2>1
<1>7. NoneTwice /\ Logged /\ ReplayIsTheLog
  BY <1>1, <1>2 DEF NoneTwice, Logged, ReplayIsTheLog
<1> QED BY <1>4, <1>6, <1>7 DEF HistoryInv

(* However the users, the loops of the server and its kills interleave,    *)
(* the inductive invariant holds: clients[] has nobody twice, what is      *)
(* handed on was logged just before, what a user was told stands in the    *)
(* log in order as far as the sending loop has come, and a replay under    *)
(* way is a beginning of the log.                                          *)
THEOREM HistorySound == Spec => []HistoryInv
<1>1. HistoryInv /\ [Next]_historyVars => HistoryInv'
  BY NextShapes, NextNoneTwice, NextLogged, NextToldInTime, NextReplayIsTheLog DEF HistoryInv
<1> QED BY InitHistoryInv, <1>1, PTL DEF Spec

(* No socket and not the table outgrows its bound, and neither loop runs   *)
(* past the end of what it walks over.                                     *)
THEOREM HistoryTypeCorrect == Spec => []TypeOK
<1>1. HistoryInv => TypeOK
  BY DEF HistoryInv, Shapes
<1> QED BY HistorySound, <1>1, PTL

(* Whatever a user is told as it is said is in chat.log, once and in the   *)
(* order of its being told, also when the server is killed between         *)
(* log_message() and broadcast_message() or in the middle of either.       *)
THEOREM LogRemembers == Spec => []ToldIsLogged
<1>1. HistoryInv => ToldIsLogged
  <2> SUFFICES ASSUME HistoryInv, logFailures = 0, NEW u \in Users
               PROVE  \E pos \in [Told(u) -> 1..Len(file)] : InLog(u, pos)
    BY DEF ToldIsLogged
  <2>1. PICK pos \in [Told(u) -> 1..Reach(u)] : InLog(u, pos)
    BY DEF HistoryInv, ToldInTime
  <2>2. Reach(u) \in Int /\ Reach(u) <= Len(file) /\ Len(file) \in Nat
    BY ReachBounds DEF HistoryInv
  <2>3. pos \in [Told(u) -> 1..Len(file)]
    BY <2>1, <2>2
  <2> QED BY <2>1, <2>3
<1> QED BY HistorySound, <1>1, PTL

(* During send_history() what its user got last is the log from its first  *)
(* line on, without a message between its lines, unless the user's socket  *)
(* was full.                                                               *)
THEOREM ReplayFaithful == Spec => []ReplayIsTheLog
<1>1. HistoryInv => ReplayIsTheLog
  BY DEF HistoryInv
<1> QED BY HistorySound, <1>1, PTL

=============================================================================
