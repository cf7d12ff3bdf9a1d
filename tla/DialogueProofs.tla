---------------------------- MODULE DialogueProofs -----------------------------
(***************************************************************************)
(* Theorems about module Dialogue, for every number of users, of lines and *)
(* of places in the server's socket.                                       *)
(***************************************************************************)
EXTENDS Dialogue, FiniteSetTheorems, SequenceTheorems, TLAPS

-----------------------------------------------------------------------------
(* The inductive invariant, in parts. *)

Datagram == [from : Users, line : Lines]

Kinds == {"time", "count", "answer", "insert second number", "wrong", "won"}
AnswerMsg == [kind : Kinds, number : Nat]

Shapes ==
    /\ program \in Programs
    /\ pc \in {"first", "second", "operator", "closed"}
    /\ client \in Users \cup {Nobody}
    /\ pc = "operator" => client \in Users
    /\ counter \in Nat /\ times \in Nat
    /\ inbox \in Seq(Datagram) /\ Len(inbox) <= InboxCap
    /\ mail \in [Users -> Seq(AnswerMsg)]
    /\ waiting \in [Users -> BOOLEAN]
    /\ typed \in [Users -> Nat]
    /\ asOf \in [Users -> Nat]
    /\ lost \subseteq Users

(* Where the question of u is, or its answer. *)
Asked(u) == \E i \in 1..Len(inbox) : inbox[i].from = u
AtOperator(u) == pc = "operator" /\ client = u
Answered(u) == mail[u] # << >>

AskedOnce == \A i, j \in 1..Len(inbox) : inbox[i].from = inbox[j].from => i = j

AnsweredOnce ==
    \A u \in Users : mail[u] = << >> \/ \E a \in AnswerMsg : mail[u] = <<a>>

(* It is in one place while u waits, and nowhere if it was lost. *)
OnePlace ==
    /\ \A u \in Users :
          /\ ~(Asked(u) /\ AtOperator(u))
          /\ ~(Asked(u) /\ Answered(u))
          /\ ~(AtOperator(u) /\ Answered(u))
          /\ Asked(u) \/ AtOperator(u) \/ Answered(u) <=> waiting[u] /\ u \notin lost
    /\ \A u \in lost : waiting[u]

PlaceInv == Shapes /\ AskedOnce /\ AnsweredOnce /\ OnePlace

(* The counter is ahead of what has been seen by the answers under way.    *)
Timed == {v \in Users : mail[v] # << >> /\ Head(mail[v]).kind = "time"}

Counts ==
    /\ program = "time" => counter = times + Cardinality(Timed)
    /\ \A u \in Users : asOf[u] <= times
    /\ \A u \in Users : mail[u] # << >> =>
          /\ Head(mail[u]).kind \in {"time", "count"} => program = "time"
          /\ Head(mail[u]).kind = "count" =>
                asOf[u] <= Head(mail[u]).number /\ Head(mail[u]).number <= counter

-----------------------------------------------------------------------------
(* What the servers do to their sockets comes to four kinds of steps.      *)

(* recvfrom(): u was the first. *)
First(u) ==
    /\ u \in Users /\ Len(inbox) \in Nat \ {0} /\ inbox[1].from = u
    /\ Head(inbox) = inbox[1] /\ inbox[1] \in Datagram

Unqueued ==
    /\ inbox' \in Seq(Datagram) /\ Len(inbox') = Len(inbox) - 1
    /\ \A i \in 1..Len(inbox') : inbox'[i] = inbox[i+1]

(* The operator has it, or an answer is sent. *)
PassesOn(u) ==
    /\ Unqueued
    /\ pc # "operator" /\ pc' = "operator" /\ client' = u
    /\ UNCHANGED <<mail, lost>>

Replies(u, a) == mail' = [mail EXCEPT ![u] = Append(mail[u], a)]

AnswersNow(u, a) ==
    /\ Unqueued
    /\ pc # "operator" /\ pc' \in {"first", "second"}
    /\ client' = u
    /\ Replies(u, a)
    /\ UNCHANGED lost

(* The server closes its socket, which may hold more. *)
Ends(u) ==
    /\ inbox' = << >> /\ pc # "operator" /\ pc' = "closed" /\ client' = u
    /\ \/ UNCHANGED mail /\ lost' = lost \cup {inbox[i].from : i \in DOMAIN inbox}
       \/ /\ \E a \in AnswerMsg : a.kind = "won" /\ Replies(u, a)
          /\ lost' = lost \cup {inbox[i].from : i \in 2..Len(inbox)}

LEMMA HeadIs ==
    ASSUME Shapes, inbox # << >>
    PROVE  /\ First(Head(inbox).from)
           /\ Tail(inbox) \in Seq(Datagram) /\ Len(Tail(inbox)) = Len(inbox) - 1
           /\ \A i \in 1..Len(Tail(inbox)) : Tail(inbox)[i] = inbox[i+1]
<1>1. inbox \in Seq(Datagram)
  BY DEF Shapes
<1>2. /\ Len(inbox) \in Nat \ {0} /\ Head(inbox) = inbox[1] /\ Head(inbox) \in Datagram
      /\ Tail(inbox) \in Seq(Datagram) /\ Len(Tail(inbox)) = Len(inbox) - 1
      /\ \A i \in 1..Len(Tail(inbox)) : Tail(inbox)[i] = inbox[i+1]
  BY <1>1, EmptySeq, LenProperties, HeadTailProperties
<1>3. Head(inbox).from \in Users
  BY <1>2 DEF Datagram
<1> QED BY <1>2, <1>3 DEF First

(* The steps of the four servers. *)
ServerStep ==
    \E u \in Users :
        /\ First(u)
        /\ \/ PassesOn(u) /\ (Head(inbox).line # "T" \/ program # "time")
           \/ \E a \in AnswerMsg :
                 /\ AnswersNow(u, a)
                 /\ program = "time" =>
                       \/ a.kind = "time" /\ Head(inbox).line = "T"
                       \/ a.kind = "count" /\ Head(inbox).line # "T" /\ a.number = counter'
                 /\ program # "time" => a.kind \notin {"time", "count"}
           \/ Ends(u) /\ program # "time"
        /\ counter' = IF program = "time" THEN Counted(Head(inbox).line) ELSE counter
        /\ UNCHANGED <<program, waiting, typed, times, asOf>>

LEMMA QuestionStep ==
    ASSUME Shapes, TakeQuestion
    PROVE  ServerStep
<1> DEFINE u == Head(inbox).from
           line == Head(inbox).line
<1>1. /\ First(u) /\ Unqueued /\ u \in Users /\ client' = u
      /\ program = "time" /\ pc = "first" /\ counter' = Counted(line)
      /\ UNCHANGED <<program, waiting, typed, lost, times, asOf>>
  BY HeadIs DEF TakeQuestion, Take, Unqueued, First, historyVars
<1>2. counter' \in Nat
  BY <1>1 DEF Counted, Shapes
<1>3. CASE line = "T"
  <2> DEFINE a == [kind |-> "time", number |-> 0]
  <2>1. a \in AnswerMsg /\ a.kind = "time"
    BY DEF AnswerMsg, Kinds
  <2>2. Replies(u, a) /\ pc' = pc
    BY <1>1, <1>3 DEF TakeQuestion, Reply, Answer, Replies
  <2> HIDE DEF a
  <2> QED BY <1>1, <1>3, <2>1, <2>2 DEF ServerStep, AnswersNow
<1>4. CASE line = "N"
  <2> DEFINE a == [kind |-> "count", number |-> counter']
  <2>1. a \in AnswerMsg /\ a.kind = "count" /\ a.number = counter'
    BY <1>2 DEF AnswerMsg, Kinds
  <2>2. Replies(u, a) /\ pc' = pc
    BY <1>1, <1>4 DEF TakeQuestion, Reply, Answer, Replies
  <2> HIDE DEF a
  <2> QED BY <1>1, <1>4, <2>1, <2>2 DEF ServerStep, AnswersNow
<1>5. CASE line \in Lines \ {"T", "N"}
  BY <1>1, <1>5 DEF ServerStep, PassesOn, TakeQuestion
<1> QED BY <1>3, <1>4, <1>5 DEF TakeQuestion

LEMMA FirstStep ==
    ASSUME Shapes, TakeFirst \/ TakeSecond
    PROVE  ServerStep
<1> DEFINE u == Head(inbox).from
<1>1. /\ First(u) /\ Unqueued /\ u \in Users /\ client' = u
      /\ program # "time" /\ pc \in {"first", "second"} /\ counter' = counter
      /\ UNCHANGED <<program, waiting, typed, lost, times, asOf>>
  BY HeadIs DEF TakeFirst, TakeSecond, Take, Unqueued, First, historyVars
<1>2. CASE pc' = "operator" /\ mail' = mail
  BY <1>1, <1>2 DEF ServerStep, PassesOn
<1>3. CASE pc' = "second" /\ Reply(client', "insert second number")
  <2> DEFINE a == [kind |-> "insert second number", number |-> 0]
  <2>1. a \in AnswerMsg /\ a.kind \notin {"time", "count"}
    BY DEF AnswerMsg, Kinds
  <2>2. Replies(u, a)
    BY <1>1, <1>3 DEF Reply, Answer, Replies
  <2> HIDE DEF a
  <2> QED BY <1>1, <1>3, <2>1, <2>2 DEF ServerStep, AnswersNow
<1> QED BY <1>2, <1>3 DEF TakeFirst, TakeSecond

LEMMA EndStep ==
    ASSUME Shapes, Close \/ TakeGuess
    PROVE  ServerStep
<1> DEFINE u == Head(inbox).from
<1>1. /\ First(u) /\ u \in Users /\ client' = u
      /\ program # "time" /\ pc = "first" /\ counter' = counter
      /\ UNCHANGED <<program, waiting, typed, times, asOf>>
  BY HeadIs DEF Close, TakeGuess, First, historyVars
<1>2. CASE Close
  BY <1>1, <1>2 DEF ServerStep, Ends, Close
<1>3. CASE TakeGuess /\ inbox' = Tail(inbox) /\ Reply(client', "wrong") /\ UNCHANGED <<pc, lost>>
  <2> DEFINE a == [kind |-> "wrong", number |-> 0]
  <2>1. a \in AnswerMsg /\ a.kind \notin {"time", "count"}
    BY DEF AnswerMsg, Kinds
  <2>2. Replies(u, a)
    BY <1>1, <1>3 DEF Reply, Answer, Replies
  <2>3. Unqueued
    BY <1>3, HeadIs DEF Unqueued, TakeGuess
  <2> HIDE DEF a
  <2> QED BY <1>1, <1>3, <2>1, <2>2, <2>3 DEF ServerStep, AnswersNow
<1>4. CASE /\ TakeGuess /\ pc' = "closed" /\ inbox' = << >>
           /\ Reply(client', "won")
           /\ lost' = lost \cup {inbox[i].from : i \in 2..Len(inbox)}
  <2> DEFINE a == [kind |-> "won", number |-> 0]
  <2>1. a \in AnswerMsg /\ a.kind = "won"
    BY DEF AnswerMsg, Kinds
  <2>2. Replies(u, a)
    BY <1>1, <1>4 DEF Reply, Answer, Replies
  <2> HIDE DEF a
  <2> QED BY <1>1, <1>4, <2>1, <2>2 DEF ServerStep, Ends
<1> QED BY <1>2, <1>3, <1>4 DEF TakeGuess

(* What an answer finds in the socket it is sent to, and leaves there. *)
LEMMA RepliesTo ==
    ASSUME Shapes, NEW u \in Users, NEW a \in AnswerMsg, Replies(u, a), mail[u] = << >>
    PROVE  /\ mail' \in [Users -> Seq(AnswerMsg)]
           /\ mail'[u] = <<a>> /\ mail'[u] # << >> /\ Head(mail'[u]) = a
           /\ \A v \in Users \ {u} : mail'[v] = mail[v]
<1>1. Append(mail[u], a) = <<a>> /\ <<a>> \in Seq(AnswerMsg) /\ <<a>> # << >> /\ Head(<<a>>) = a
  OBVIOUS
<1> QED BY <1>1 DEF Shapes, Replies

-----------------------------------------------------------------------------
(* One place for every question or answer. *)

LEMMA ServerKeepsPlace ==
    ASSUME PlaceInv, ServerStep
    PROVE  PlaceInv'
<1> USE DEF PlaceInv
<1>1. PICK u \in Users :
        /\ First(u)
        /\ \/ PassesOn(u)
           \/ \E a \in AnswerMsg : AnswersNow(u, a)
           \/ Ends(u)
        /\ counter' \in Nat
        /\ UNCHANGED <<program, waiting, typed, times, asOf>>
  BY DEF ServerStep, Counted, Shapes
<1>2. /\ Asked(u) /\ ~AtOperator(u) /\ ~Answered(u) /\ mail[u] = << >>
      /\ waiting[u] /\ u \notin lost /\ u \in Users
      /\ \A v \in Users \ {u} : Asked(v) <=> \E i \in 2..Len(inbox) : inbox[i].from = v
      /\ \A i \in 2..Len(inbox) : inbox[i].from # u
  <2>1. 1 \in 1..Len(inbox) /\ inbox[1].from = u
    BY <1>1 DEF First
  <2>2. Asked(u)
    BY <2>1 DEF Asked
  <2>3. \A i \in 1..Len(inbox) : i = 1 \/ i \in 2..Len(inbox)
    BY <2>1
  <2>4. \A i \in 2..Len(inbox) : i \in 1..Len(inbox) /\ i # 1
    BY <2>1
  <2>5. \A i \in 2..Len(inbox) : inbox[i].from # u
    BY <2>1, <2>4 DEF AskedOnce
  <2> QED BY <1>1, <2>1, <2>2, <2>3, <2>4, <2>5 DEF OnePlace, Answered, Asked, First
<1>3. pc # "operator"
  BY <1>1 DEF PassesOn, AnswersNow, Ends
<1>4. \A v \in Users : ~AtOperator(v)
  BY <1>3 DEF AtOperator
<1>5. ASSUME Unqueued
      PROVE  /\ inbox' \in Seq(Datagram) /\ Len(inbox') <= InboxCap
             /\ AskedOnce'
             /\ ~Asked(u)' /\ \A v \in Users \ {u} : Asked(v)' <=> Asked(v)
  <2>1. /\ Len(inbox) \in Nat \ {0} /\ Len(inbox') = Len(inbox) - 1
        /\ \A i \in 1..Len(inbox') : inbox'[i] = inbox[i+1]
    BY <1>1, <1>5 DEF First, Unqueued
  <2>2. /\ \A i \in 1..Len(inbox') : i + 1 \in 2..Len(inbox) /\ i + 1 \in 1..Len(inbox)
        /\ \A i \in 2..Len(inbox) : i - 1 \in 1..Len(inbox') /\ (i - 1) + 1 = i
    BY <2>1
  <2>3. Len(inbox') <= InboxCap
    BY <2>1, DialogueAssumption DEF Shapes
  <2>4. AskedOnce'
    <3> SUFFICES ASSUME NEW i \in 1..Len(inbox'), NEW j \in 1..Len(inbox'),
                        inbox'[i].from = inbox'[j].from
                 PROVE  i = j
      BY DEF AskedOnce
    <3>1. i + 1 = j + 1
      BY <2>1, <2>2 DEF AskedOnce
    <3> QED BY <3>1
  <2>5. \A v : Asked(v)' <=> \E i \in 2..Len(inbox) : inbox[i].from = v
    <3> SUFFICES ASSUME NEW v PROVE Asked(v)' <=> \E i \in 2..Len(inbox) : inbox[i].from = v
      OBVIOUS
    <3>1. ASSUME NEW i \in 1..Len(inbox'), inbox'[i].from = v
          PROVE  \E k \in 2..Len(inbox) : inbox[k].from = v
      BY <2>1, <2>2, <3>1
    <3>2. ASSUME NEW i \in 2..Len(inbox), inbox[i].from = v
          PROVE  \E k \in 1..Len(inbox') : inbox'[k].from = v
      <4>1. i - 1 \in 1..Len(inbox') /\ (i - 1) + 1 = i
        BY <2>2
      <4>2. inbox'[i-1] = inbox[i]
        BY <2>1, <4>1
      <4> QED BY <3>2, <4>1, <4>2
    <3> QED BY <3>1, <3>2 DEF Asked
  <2> QED BY <1>2, <1>5, <2>3, <2>4, <2>5 DEF Unqueued
<1>6. CASE PassesOn(u)
  <2>1. /\ AtOperator(u)' /\ \A v \in Users \ {u} : ~AtOperator(v)'
        /\ \A v \in Users : Answered(v)' <=> Answered(v)
    BY <1>6 DEF PassesOn, AtOperator, Answered
  <2>2. Unqueued
    BY <1>6 DEF PassesOn
  <2>3. Shapes'
    BY <1>1, <1>5, <1>6, <2>2 DEF Shapes, PassesOn
  <2>4. AnsweredOnce'
    BY <1>6 DEF AnsweredOnce, PassesOn
  <2>5. OnePlace'
    BY <1>1, <1>2, <1>4, <1>5, <1>6, <2>1, <2>2 DEF OnePlace, PassesOn
  <2> QED BY <1>5, <2>2, <2>3, <2>4, <2>5
<1>7. ASSUME NEW a \in AnswerMsg, AnswersNow(u, a) PROVE PlaceInv'
  <2>1. /\ mail' \in [Users -> Seq(AnswerMsg)] /\ mail'[u] = <<a>> /\ mail'[u] # << >>
        /\ \A v \in Users \ {u} : mail'[v] = mail[v]
    BY <1>2, <1>7, RepliesTo DEF AnswersNow
  <2>2. Unqueued /\ \A v : ~AtOperator(v)'
    BY <1>7 DEF AnswersNow, AtOperator
  <2>3. Shapes'
    BY <1>1, <1>5, <1>7, <2>1, <2>2 DEF Shapes, AnswersNow
  <2>4. AnsweredOnce'
    BY <2>1 DEF AnsweredOnce
  <2>5. Answered(u)' /\ \A v \in Users \ {u} : Answered(v)' <=> Answered(v)
    BY <2>1 DEF Answered
  <2>6. OnePlace'
    BY <1>1, <1>2, <1>4, <1>5, <1>7, <2>2, <2>5 DEF OnePlace, AnswersNow
  <2> QED BY <1>5, <2>2, <2>3, <2>4, <2>6
<1>8. CASE Ends(u)
  <2>1. inbox' = << >> /\ inbox' \in Seq(Datagram) /\ Len(inbox') = 0
    BY <1>8, EmptySeq DEF Ends
  <2>2. \A v : ~Asked(v)' /\ ~AtOperator(v)'
    BY <1>8, <2>1 DEF Asked, AtOperator, Ends
  <2>3. AskedOnce' /\ Len(inbox') <= InboxCap
    BY <2>1, DialogueAssumption DEF AskedOnce
  <2>4. DOMAIN inbox = 1..Len(inbox)
    BY DEF Shapes
  <2>5. \A v \in Users \ {u} : v \in lost' <=> v \in lost \/ Asked(v)
    BY <1>2, <1>8, <2>4 DEF Ends, Asked
  <2>6. \A v \in lost' : v \in lost \/ Asked(v)
    <3>1. \A i \in 2..Len(inbox) : i \in 1..Len(inbox)
      BY <1>1 DEF First
    <3> QED BY <1>8, <2>4, <3>1 DEF Ends, Asked
  <2>7. lost' \subseteq Users
    <3>1. \A i \in 1..Len(inbox) : inbox[i].from \in Users
      <4>1. \A i \in 1..Len(inbox) : inbox[i] \in Datagram
        BY ElementOfSeq DEF Shapes
      <4> QED BY <4>1 DEF Datagram
    <3> SUFFICES ASSUME NEW v \in lost' PROVE v \in Users
      OBVIOUS
    <3>2. CASE v \in lost
      BY <3>2 DEF Shapes
    <3>3. CASE Asked(v)
      BY <3>1, <3>3 DEF Asked
    <3> QED BY <2>6, <3>2, <3>3
  <2>8. \A v \in lost' : waiting[v]
    BY <2>6, <2>7 DEF OnePlace
  <2>9. CASE UNCHANGED mail /\ lost' = lost \cup {inbox[i].from : i \in DOMAIN inbox}
    <3>1. u \in lost'
      BY <1>1, <2>4, <2>9 DEF First
    <3>2. \A v : Answered(v)' <=> Answered(v)
      BY <2>9 DEF Answered
    <3>3. Shapes'
      BY <1>1, <1>8, <2>1, <2>3, <2>7, <2>9 DEF Shapes, Ends
    <3>4. AnsweredOnce'
      BY <2>9 DEF AnsweredOnce
    <3>5. OnePlace'
      BY <1>1, <1>2, <1>4, <2>2, <2>5, <2>8, <3>1, <3>2 DEF OnePlace
    <3> QED BY <2>3, <3>3, <3>4, <3>5
  <2>10. ASSUME NEW a \in AnswerMsg, Replies(u, a),
                lost' = lost \cup {inbox[i].from : i \in 2..Len(inbox)}
         PROVE  PlaceInv'
    <3>1. /\ mail' \in [Users -> Seq(AnswerMsg)] /\ mail'[u] = <<a>> /\ mail'[u] # << >>
          /\ \A v \in Users \ {u} : mail'[v] = mail[v]
      BY <1>2, <2>10, RepliesTo
    <3>2. u \notin lost'
      BY <1>2, <2>10
    <3>3. Answered(u)' /\ \A v \in Users \ {u} : Answered(v)' <=> Answered(v)
      BY <3>1 DEF Answered
    <3>4. Shapes'
      BY <1>1, <1>8, <2>1, <2>3, <2>7, <3>1 DEF Shapes, Ends
    <3>5. AnsweredOnce'
      BY <3>1 DEF AnsweredOnce
    <3>6. OnePlace'
      BY <1>1, <1>2, <1>4, <2>2, <2>5, <2>8, <3>2, <3>3 DEF OnePlace
    <3> QED BY <2>3, <3>4, <3>5, <3>6
  <2> QED BY <1>8, <2>9, <2>10 DEF Ends
<1> QED BY <1>1, <1>6, <1>7, <1>8

LEMMA OperatorKeepsPlace ==
    ASSUME PlaceInv, OperatorTypes
    PROVE  PlaceInv'
<1> USE DEF PlaceInv
<1>1. /\ client \in Users /\ AtOperator(client) /\ ~Asked(client) /\ mail[client] = << >>
      /\ waiting[client] /\ client \notin lost
  BY DEF OperatorTypes, Shapes, AtOperator, OnePlace, Answered
<1>2. PICK u \in Users : u = client
  BY <1>1
<1> DEFINE a == [kind |-> "answer", number |-> 0]
<1>3. a \in AnswerMsg /\ Replies(u, a)
  BY <1>2 DEF AnswerMsg, Kinds, OperatorTypes, Addressee, Reply, Answer, Replies
<1> HIDE DEF a
<1>4. /\ mail' \in [Users -> Seq(AnswerMsg)] /\ mail'[u] = <<a>> /\ mail'[u] # << >>
      /\ \A v \in Users \ {u} : mail'[v] = mail[v]
  BY <1>1, <1>2, <1>3, RepliesTo
<1>5. /\ UNCHANGED <<program, client, counter, inbox, waiting, typed, lost, times, asOf>>
      /\ pc' = "first"
  BY DEF OperatorTypes, historyVars
<1>6. Shapes' /\ AskedOnce'
  BY <1>4, <1>5 DEF Shapes, AskedOnce
<1>7. AnsweredOnce'
  BY <1>3, <1>4 DEF AnsweredOnce
<1>8. /\ \A v : ~AtOperator(v)' /\ (Asked(v)' <=> Asked(v))
      /\ Answered(u)' /\ \A v \in Users \ {u} : Answered(v)' <=> Answered(v)
      /\ \A v \in Users \ {u} : ~AtOperator(v)
  BY <1>2, <1>4, <1>5 DEF AtOperator, Asked, Answered
<1>9. OnePlace'
  BY <1>1, <1>2, <1>5, <1>8 DEF OnePlace
<1> QED BY <1>6, <1>7, <1>9

LEMMA SendKeepsPlace ==
    ASSUME PlaceInv, NEW u \in Users, Send(u)
    PROVE  PlaceInv'
<1> USE DEF PlaceInv
<1>1. /\ ~waiting[u] /\ ~Asked(u) /\ ~AtOperator(u) /\ ~Answered(u) /\ u \notin lost
      /\ UNCHANGED <<program, pc, client, counter, mail, times>>
      /\ waiting' = [waiting EXCEPT ![u] = TRUE]
      /\ asOf' = [asOf EXCEPT ![u] = times]
      /\ typed' = [typed EXCEPT ![u] = @ + 1]
  BY DEF Send, MaySend, OnePlace, serverVars
<1>2. /\ waiting'[u] /\ \A v \in Users \ {u} : waiting'[v] = waiting[v]
      /\ waiting' \in [Users -> BOOLEAN] /\ typed' \in [Users -> Nat]
      /\ asOf' \in [Users -> Nat]
  BY <1>1 DEF Shapes
<1>3. AnsweredOnce' /\ \A v : (Answered(v)' <=> Answered(v)) /\ (AtOperator(v)' <=> AtOperator(v))
  BY <1>1 DEF AnsweredOnce, Answered, AtOperator
<1>4. CASE /\ Len(inbox) < InboxCap /\ UNCHANGED lost
           /\ \E line \in LinesFor : inbox' = Append(inbox, [from |-> u, line |-> line])
  <2>1. PICK d \in Datagram : d.from = u /\ inbox' = Append(inbox, d)
    BY <1>4 DEF LinesFor, Lines, Datagram
  <2>2. /\ Len(inbox) \in Nat /\ inbox' \in Seq(Datagram) /\ Len(inbox') = Len(inbox) + 1
        /\ \A i \in 1..Len(inbox) : inbox'[i] = inbox[i]
        /\ inbox'[Len(inbox) + 1] = d
    BY <2>1, AppendProperties, LenProperties DEF Shapes
  <2>3. Len(inbox') <= InboxCap
    BY <1>4, <2>2, DialogueAssumption
  <2>4. \A i \in 1..Len(inbox') :
           \/ i \in 1..Len(inbox) /\ inbox'[i] = inbox[i] /\ inbox'[i].from # u
           \/ i = Len(inbox) + 1 /\ inbox'[i].from = u
    BY <1>1, <2>1, <2>2 DEF Asked
  <2>5. AskedOnce'
    BY <2>2, <2>4 DEF AskedOnce
  <2>6. Asked(u)' /\ \A v \in Users \ {u} : Asked(v)' <=> Asked(v)
    <3>1. Asked(u)'
      BY <2>1, <2>2 DEF Asked
    <3>2. \A i \in 1..Len(inbox) : i \in 1..Len(inbox')
      BY <2>2
    <3>3. \A v : Asked(v) => Asked(v)'
      BY <2>2, <3>2 DEF Asked
    <3>4. \A v \in Users \ {u} : Asked(v)' => Asked(v)
      BY <2>4 DEF Asked
    <3> QED BY <3>1, <3>3, <3>4
  <2>7. Shapes'
    BY <1>1, <1>2, <1>4, <2>2, <2>3 DEF Shapes
  <2>8. OnePlace'
    BY <1>1, <1>2, <1>3, <1>4, <2>6 DEF OnePlace, Shapes
  <2> QED BY <1>3, <2>5, <2>7, <2>8
<1>5. CASE lost' = lost \cup {u} /\ UNCHANGED inbox
  <2>1. Shapes' /\ AskedOnce' /\ \A v : Asked(v)' <=> Asked(v)
    BY <1>1, <1>2, <1>5 DEF Shapes, AskedOnce, Asked
  <2>2. OnePlace'
    BY <1>1, <1>2, <1>3, <1>5, <2>1 DEF OnePlace, Shapes
  <2> QED BY <1>3, <2>1, <2>2
<1> QED BY <1>4, <1>5 DEF Send

LEMMA ReceiveKeepsPlace ==
    ASSUME PlaceInv, NEW u \in Users, Receive(u)
    PROVE  PlaceInv'
<1> USE DEF PlaceInv
<1>1. /\ waiting[u] /\ Answered(u) /\ ~Asked(u) /\ ~AtOperator(u) /\ u \notin lost
      /\ UNCHANGED <<program, pc, client, counter, inbox, typed, lost, asOf>>
      /\ waiting' = [waiting EXCEPT ![u] = FALSE]
      /\ mail' = [mail EXCEPT ![u] = Tail(mail[u])]
      /\ times' \in Nat
  BY DEF Receive, OnePlace, Answered, serverVars, Shapes
<1>2. Tail(mail[u]) = << >>
  <2>1. PICK a \in AnswerMsg : mail[u] = <<a>>
    BY <1>1 DEF AnsweredOnce, Answered
  <2> QED BY <2>1
<1>3. /\ mail' \in [Users -> Seq(AnswerMsg)] /\ mail'[u] = << >>
      /\ \A v \in Users \ {u} : mail'[v] = mail[v]
      /\ waiting' \in [Users -> BOOLEAN] /\ ~waiting'[u]
      /\ \A v \in Users \ {u} : waiting'[v] = waiting[v]
  <2>1. << >> \in Seq(AnswerMsg)
    OBVIOUS
  <2> QED BY <1>1, <1>2, <2>1 DEF Shapes
<1>4. Shapes' /\ AskedOnce' /\ AnsweredOnce'
  BY <1>1, <1>3 DEF Shapes, AskedOnce, AnsweredOnce
<1>5. /\ \A v : (Asked(v)' <=> Asked(v)) /\ (AtOperator(v)' <=> AtOperator(v))
      /\ ~Answered(u)' /\ \A v \in Users \ {u} : Answered(v)' <=> Answered(v)
  BY <1>1, <1>3 DEF Asked, AtOperator, Answered
<1>6. OnePlace'
  BY <1>1, <1>3, <1>5 DEF OnePlace, Shapes
<1> QED BY <1>4, <1>6

LEMMA InitPlaceInv == Init => PlaceInv
<1> SUFFICES ASSUME Init PROVE PlaceInv
  OBVIOUS
<1>1. /\ inbox = << >> /\ Len(inbox) = 0 /\ \A S : << >> \in Seq(S)
      /\ pc = "first" /\ client = Nobody /\ lost = {} /\ times = 0 /\ counter = 0
      /\ mail = [u \in Users |-> << >>] /\ waiting = [u \in Users |-> FALSE]
      /\ typed = [u \in Users |-> 0] /\ asOf = [u \in Users |-> 0]
      /\ program \in Programs
  BY EmptySeq DEF Init, ClientInit, TimeInit, SquareInit, SumInit, GuessInit
<1>2. Shapes
  BY <1>1, DialogueAssumption DEF Shapes
<1>3. AskedOnce /\ AnsweredOnce /\ OnePlace
  BY <1>1 DEF AskedOnce, AnsweredOnce, OnePlace, Asked, AtOperator, Answered
<1> QED BY <1>2, <1>3 DEF PlaceInv

LEMMA NextPlaceInv == PlaceInv /\ [Next]_vars => PlaceInv'
<1> SUFFICES ASSUME PlaceInv, [Next]_vars PROVE PlaceInv'
  OBVIOUS
<1>1. CASE UNCHANGED vars
  BY <1>1 DEF vars, serverVars, historyVars, PlaceInv, Shapes, AskedOnce, AnsweredOnce, OnePlace,
              Asked, AtOperator, Answered
<1>2. CASE TakeQuestion \/ TakeFirst \/ Close \/ TakeSecond \/ TakeGuess
  BY <1>2, QuestionStep, FirstStep, EndStep, ServerKeepsPlace DEF PlaceInv
<1> QED
  BY <1>1, <1>2, OperatorKeepsPlace, SendKeepsPlace, ReceiveKeepsPlace DEF Next

(* A question or its answer is in one place. *)
THEOREM DialogueSound == Spec => []PlaceInv
<1> QED BY InitPlaceInv, NextPlaceInv, PTL DEF Spec

(* Type correctness: no user has more than one answer in its socket.       *)
THEOREM DialogueTypeCorrect == Spec => []TypeOK
<1>1. PlaceInv => TypeOK
  <2> SUFFICES ASSUME PlaceInv PROVE TypeOK
    OBVIOUS
  <2>1. \A a \in AnswerMsg : Len(<<a>>) = 1
    OBVIOUS
  <2>2. \A u \in Users : Len(mail[u]) = 0 \/ Len(mail[u]) = 1
    BY <2>1, EmptySeq DEF PlaceInv, AnsweredOnce
  <2>3. \A u \in Users : Len(mail[u]) <= 1
    <3>1. \A n : n = 0 \/ n = 1 => n <= 1
      OBVIOUS
    <3> QED BY <2>2, <3>1
  <2> QED BY <2>3 DEF PlaceInv, Shapes, TypeOK, Datagram
<1> QED BY <1>1, DialogueSound, PTL

LEMMA OnePending ==
    ASSUME PlaceInv, NEW u \in Users
    PROVE  Pending(u) = IF waiting[u] /\ u \notin lost THEN 1 ELSE 0
<1> USE DEF PlaceInv
<1> DEFINE Q == {i \in DOMAIN inbox : inbox[i].from = u}
           q == Cardinality(Q)
           m == Len(mail[u])
           o == IF pc = "operator" /\ client = u THEN 1 ELSE 0
<1>1. DOMAIN inbox = 1..Len(inbox)
  BY DEF Shapes
<1>2. q = IF Asked(u) THEN 1 ELSE 0
  <2>1. CASE ~Asked(u)
    <3>1. Q = {}
      BY <1>1, <2>1 DEF Asked
    <3> QED BY <2>1, <3>1, FS_EmptySet
  <2>2. CASE Asked(u)
    <3>1. PICK i \in 1..Len(inbox) : inbox[i].from = u
      BY <2>2 DEF Asked
    <3>2. Q = {i}
      BY <1>1, <3>1 DEF AskedOnce
    <3> QED BY <2>2, <3>2, FS_Singleton
  <2> QED BY <2>1, <2>2
<1>3. m = IF Answered(u) THEN 1 ELSE 0
  <2>1. \A a \in AnswerMsg : Len(<<a>>) = 1
    OBVIOUS
  <2> QED BY <2>1, EmptySeq DEF AnsweredOnce, Answered
<1>4. o = IF AtOperator(u) THEN 1 ELSE 0
  BY DEF AtOperator
<1>5. Pending(u) = q + m + o
  BY DEF Pending
<1> HIDE DEF q, m, o
<1> QED BY <1>2, <1>3, <1>4, <1>5 DEF OnePlace

(* However the clients and the operator take turns, a client has one       *)
(* question or one answer under way while it waits, and none otherwise.    *)
THEOREM OneAnswerForEach == Spec => []OneAnswerEach
<1>1. PlaceInv => OneAnswerEach
  BY OnePending DEF OneAnswerEach
<1> QED BY <1>1, DialogueSound, PTL

-----------------------------------------------------------------------------
(* The count of the time server. *)

LEMMA TimedFinite ==
    /\ IsFiniteSet(Timed) /\ Cardinality(Timed) \in Nat
    /\ \A u \in Users : u \notin Timed =>
          /\ IsFiniteSet(Timed \cup {u})
          /\ Cardinality(Timed \cup {u}) = Cardinality(Timed) + 1
    /\ \A u \in Timed : Cardinality(Timed \ {u}) = Cardinality(Timed) - 1
<1>1. IsFiniteSet(Timed)
  <2>1. Timed \subseteq Users
    BY DEF Timed
  <2> QED BY <2>1, FS_Subset, DialogueAssumption
<1> QED BY <1>1, FS_CardinalityType, FS_AddElement, FS_RemoveElement

LEMMA TimedSame ==
    ASSUME NEW u \in Users, \A v \in Users \ {u} : mail'[v] = mail[v]
    PROVE  Timed' = IF mail'[u] # << >> /\ Head(mail'[u]).kind = "time"
                    THEN Timed \cup {u} ELSE Timed \ {u}
  BY DEF Timed

LEMMA ServerKeepsCounts ==
    ASSUME PlaceInv, Counts, ServerStep
    PROVE  Counts'
<1> USE DEF PlaceInv
<1>1. PICK u \in Users :
        /\ First(u)
        /\ \/ PassesOn(u) /\ (Head(inbox).line # "T" \/ program # "time")
           \/ \E a \in AnswerMsg :
                 /\ AnswersNow(u, a)
                 /\ program = "time" =>
                       \/ a.kind = "time" /\ Head(inbox).line = "T"
                       \/ a.kind = "count" /\ Head(inbox).line # "T" /\ a.number = counter'
                 /\ program # "time" => a.kind \notin {"time", "count"}
           \/ Ends(u) /\ program # "time"
        /\ counter' = IF program = "time" THEN Counted(Head(inbox).line) ELSE counter
        /\ UNCHANGED <<program, waiting, typed, times, asOf>>
  BY DEF ServerStep
<1>2. mail[u] = << >> /\ u \notin Timed
  <2>1. 1 \in 1..Len(inbox) /\ inbox[1].from = u
    BY <1>1 DEF First
  <2>2. Asked(u)
    BY <2>1 DEF Asked
  <2> QED BY <2>2 DEF OnePlace, Answered, Timed
<1>3. /\ counter \in Nat /\ times \in Nat /\ asOf \in [Users -> Nat]
      /\ counter' \in Nat /\ counter <= counter'
  BY <1>1 DEF Shapes, Counted
<1>4. CASE PassesOn(u) /\ (Head(inbox).line # "T" \/ program # "time")
  <2>1. mail' = mail /\ Timed' = Timed /\ counter' = counter
    BY <1>1, <1>3, <1>4 DEF PassesOn, Timed, Counted
  <2> QED BY <1>1, <2>1 DEF Counts
<1>5. ASSUME NEW a \in AnswerMsg, Replies(u, a),
             program = "time" =>
                 \/ a.kind = "time" /\ Head(inbox).line = "T"
                 \/ a.kind = "count" /\ Head(inbox).line # "T" /\ a.number = counter',
             program # "time" => a.kind \notin {"time", "count"}
      PROVE  Counts'
  <2>1. /\ mail'[u] # << >> /\ Head(mail'[u]) = a
        /\ \A v \in Users \ {u} : mail'[v] = mail[v]
    BY <1>2, <1>5, RepliesTo
  <2>2. Timed' = IF a.kind = "time" THEN Timed \cup {u} ELSE Timed
    BY <1>2, <2>1, TimedSame
  <2>3. program' = "time" => counter' = times' + Cardinality(Timed')
    <3>1. CASE program = "time" /\ a.kind = "time" /\ Head(inbox).line = "T"
      <4>1. counter' = counter + 1
        BY <1>1, <3>1 DEF Counted
      <4>2. Cardinality(Timed') = Cardinality(Timed) + 1
        BY <1>2, <2>2, <3>1, TimedFinite
      <4>3. counter = times + Cardinality(Timed) /\ Cardinality(Timed) \in Nat
        BY <3>1, TimedFinite DEF Counts
      <4> QED BY <1>1, <1>3, <4>1, <4>2, <4>3
    <3>2. CASE program = "time" /\ a.kind = "count" /\ Head(inbox).line # "T"
      <4>1. counter' = counter /\ Timed' = Timed
        BY <1>1, <1>3, <2>2, <3>2 DEF Counted
      <4> QED BY <1>1, <3>2, <4>1 DEF Counts
    <3> QED BY <1>1, <1>5, <3>1, <3>2
  <2>4. times <= counter' \/ program # "time"
    <3>1. program = "time" => counter = times + Cardinality(Timed) /\ Cardinality(Timed) \in Nat
      BY TimedFinite DEF Counts
    <3> QED BY <1>3, <3>1
  <2>5. a.kind = "count" => asOf[u] <= a.number /\ a.number <= counter'
    <3> SUFFICES ASSUME a.kind = "count" PROVE asOf[u] <= a.number /\ a.number <= counter'
      OBVIOUS
    <3>1. program = "time" /\ a.number = counter' /\ asOf[u] <= times
      BY <1>5 DEF Counts
    <3> QED BY <1>3, <2>4, <3>1
  <2>6. a.kind \in {"time", "count"} => program' = "time"
    BY <1>1, <1>5
  <2>7. ASSUME NEW v \in Users \ {u}, mail[v] # << >>
        PROVE  /\ Head(mail[v]).kind \in {"time", "count"} => program' = "time"
               /\ Head(mail[v]).kind = "count" =>
                     asOf[v] <= Head(mail[v]).number /\ Head(mail[v]).number <= counter'
    <3>1. mail[v] \in Seq(AnswerMsg) /\ Head(mail[v]) \in AnswerMsg
      BY <2>7, HeadTailProperties DEF Shapes
    <3>2. Head(mail[v]).number \in Nat
      BY <3>1 DEF AnswerMsg
    <3> QED BY <1>1, <1>3, <2>7, <3>2 DEF Counts
  <2>8. \A v \in Users : mail'[v] # << >> =>
           /\ Head(mail'[v]).kind \in {"time", "count"} => program' = "time"
           /\ Head(mail'[v]).kind = "count" =>
                 asOf'[v] <= Head(mail'[v]).number /\ Head(mail'[v]).number <= counter'
    BY <1>1, <2>1, <2>5, <2>6, <2>7
  <2>9. \A v \in Users : asOf'[v] <= times'
    BY <1>1 DEF Counts
  <2> QED BY <2>3, <2>8, <2>9 DEF Counts
<1>6. CASE Ends(u) /\ program # "time"
  <2>1. CASE mail' = mail
    BY <1>1, <1>6, <2>1 DEF Counts
  <2>2. CASE \E a \in AnswerMsg : a.kind = "won" /\ Replies(u, a)
    BY <1>5, <1>6, <2>2
  <2> QED BY <1>6, <2>1, <2>2 DEF Ends
<1> QED BY <1>1, <1>4, <1>5, <1>6 DEF AnswersNow

LEMMA OperatorKeepsCounts ==
    ASSUME PlaceInv, Counts, OperatorTypes
    PROVE  Counts'
<1> USE DEF PlaceInv
<1>1. PICK u \in Users : u = client /\ mail[u] = << >>
  BY DEF OperatorTypes, Shapes, AtOperator, OnePlace, Answered
<1> DEFINE a == [kind |-> "answer", number |-> 0]
<1>2. a \in AnswerMsg /\ Replies(u, a) /\ a.kind = "answer"
  BY <1>1 DEF AnswerMsg, Kinds, OperatorTypes, Addressee, Reply, Answer, Replies
<1> HIDE DEF a
<1>3. /\ mail'[u] # << >> /\ Head(mail'[u]) = a
      /\ \A v \in Users \ {u} : mail'[v] = mail[v]
  BY <1>1, <1>2, RepliesTo
<1>4. Timed' = Timed
  BY <1>1, <1>2, <1>3, TimedSame DEF Timed
<1>5. UNCHANGED <<program, counter, times, asOf>>
  BY DEF OperatorTypes, historyVars
<1> QED BY <1>2, <1>3, <1>4, <1>5 DEF Counts

LEMMA SendKeepsCounts ==
    ASSUME PlaceInv, Counts, NEW u \in Users, Send(u)
    PROVE  Counts'
<1> USE DEF PlaceInv
<1>1. /\ UNCHANGED <<program, counter, mail, times>>
      /\ asOf' = [asOf EXCEPT ![u] = times] /\ mail[u] = << >>
  BY DEF Send, MaySend, OnePlace, Answered, serverVars
<1>2. Timed' = Timed
  BY <1>1 DEF Timed
<1>3. asOf'[u] <= times /\ \A v \in Users \ {u} : asOf'[v] = asOf[v]
  BY <1>1 DEF Shapes
<1> QED BY <1>1, <1>2, <1>3 DEF Counts

LEMMA ReceiveKeepsCounts ==
    ASSUME PlaceInv, Counts, NEW u \in Users, Receive(u)
    PROVE  Counts'
<1> USE DEF PlaceInv
<1>1. /\ UNCHANGED <<program, counter, asOf>> /\ mail[u] # << >>
      /\ mail' = [mail EXCEPT ![u] = Tail(mail[u])]
      /\ times' = times + (IF Head(mail[u]).kind = "time" THEN 1 ELSE 0)
      /\ times \in Nat /\ counter \in Nat /\ asOf \in [Users -> Nat]
  BY DEF Receive, serverVars, Shapes
<1>2. mail'[u] = << >> /\ \A v \in Users \ {u} : mail'[v] = mail[v]
  <2>1. PICK a \in AnswerMsg : mail[u] = <<a>>
    BY <1>1 DEF AnsweredOnce
  <2>2. Tail(mail[u]) = << >>
    BY <2>1
  <2> QED BY <1>1, <2>2 DEF Shapes
<1>3. Timed' = Timed \ {u}
  BY <1>2, TimedSame
<1>4. times' + Cardinality(Timed') = times + Cardinality(Timed)
  <2>1. CASE Head(mail[u]).kind = "time"
    <3>1. u \in Timed
      BY <1>1, <2>1 DEF Timed
    <3>2. Cardinality(Timed') = Cardinality(Timed) - 1 /\ Cardinality(Timed) \in Nat
      BY <1>3, <3>1, TimedFinite
    <3> QED BY <1>1, <2>1, <3>2
  <2>2. CASE Head(mail[u]).kind # "time"
    <3>1. Timed' = Timed
      BY <1>3, <2>2 DEF Timed
    <3> QED BY <1>1, <2>2, <3>1
  <2> QED BY <2>1, <2>2
<1>5. \A v \in Users : asOf'[v] <= times'
  BY <1>1 DEF Counts
<1>6. program' = "time" => counter' = times' + Cardinality(Timed')
  BY <1>1, <1>4 DEF Counts
<1> QED BY <1>1, <1>2, <1>5, <1>6 DEF Counts

LEMMA NextCounts == PlaceInv /\ Counts /\ [Next]_vars => Counts'
<1> SUFFICES ASSUME PlaceInv, Counts, [Next]_vars PROVE Counts'
  OBVIOUS
<1>1. CASE UNCHANGED vars
  BY <1>1 DEF vars, serverVars, historyVars, Counts, Timed
<1>2. CASE TakeQuestion \/ TakeFirst \/ Close \/ TakeSecond \/ TakeGuess
  BY <1>2, QuestionStep, FirstStep, EndStep, ServerKeepsCounts DEF PlaceInv
<1> QED
  BY <1>1, <1>2, OperatorKeepsCounts, SendKeepsCounts, ReceiveKeepsCounts DEF Next

LEMMA InitCounts == Init => Counts
<1> SUFFICES ASSUME Init PROVE Counts
  OBVIOUS
<1>1. /\ times = 0 /\ counter = 0 /\ asOf = [u \in Users |-> 0]
      /\ mail = [u \in Users |-> << >>]
  BY DEF Init, ClientInit, TimeInit, SquareInit, SumInit, GuessInit
<1>2. Cardinality(Timed) = 0
  BY <1>1, FS_EmptySet DEF Timed
<1> QED BY <1>1, <1>2 DEF Counts

(* The answer to N counts every T of which anybody had seen the answer     *)
(* when the N was sent, and none that is not answered.                     *)
THEOREM NIsTheCount == Spec => []CountsEveryT
<1>1. Spec => []Counts
  BY InitCounts, NextCounts, DialogueSound, PTL DEF Spec
<1>2. PlaceInv /\ Counts => CountsEveryT
  <2> SUFFICES ASSUME PlaceInv, Counts, NEW u \in Users, NEW i \in 1..Len(mail[u]),
                      mail[u][i].kind = "count"
               PROVE  /\ asOf[u] <= mail[u][i].number
                      /\ mail[u][i].number <= times + Cardinality(Timed)
    BY DEF CountsEveryT, Timed
  <2>1. PICK a \in AnswerMsg : mail[u] = <<a>> /\ mail[u][i] = a /\ Head(mail[u]) = a
    <3>1. mail[u] # << >>
      BY EmptySeq
    <3>2. PICK a \in AnswerMsg : mail[u] = <<a>>
      BY <3>1 DEF PlaceInv, AnsweredOnce
    <3>3. Len(mail[u]) = 1 /\ mail[u][1] = a /\ Head(mail[u]) = a
      BY <3>2
    <3>4. i = 1
      BY <3>3
    <3> QED BY <3>2, <3>3, <3>4
  <2>2. /\ program = "time" /\ asOf[u] <= a.number /\ a.number <= counter
        /\ counter = times + Cardinality(Timed)
    BY <2>1 DEF Counts
  <2> QED BY <2>1, <2>2
<1> QED BY <1>1, <1>2, DialogueSound, PTL

=============================================================================
