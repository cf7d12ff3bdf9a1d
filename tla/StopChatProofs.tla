---------------------------- MODULE StopChatProofs -----------------------------
(***************************************************************************)
(* Theorems about module StopChat, for all texts and bounds.               *)
(***************************************************************************)
EXTENDS StopChat, SequenceTheorems, TLAPS

-----------------------------------------------------------------------------
(* The inductive invariant, in parts. *)

Alive(e) == pc[e] \in {"type", "recv"}

Entry == [by : Ends, text : Messages]

Shapes ==
    /\ pc \in [Ends -> {"type", "recv", "done", "dead"}]
    /\ buffer \in [Ends -> Messages]
    /\ link \in [Ends -> {"open", "fin", "reset"}]
    /\ wire \in [Ends -> Seq(Messages)]
    /\ shown \in [Ends -> Seq(Messages)]
    /\ talk \in Seq(Entry)

(* A link is open as long as the process at its other end is there.        *)
Links == \A e \in Ends : link[e] = "open" <=> Alive(Other(e))

OneWay ==
    /\ \A e \in Ends : wire[e] = << >> \/ \E m \in Messages : wire[e] = <<m>>
    /\ wire["client"] = << >> \/ wire["server"] = << >>

Last == talk[Len(talk)]

InTurn ==
    /\ \A i \in 1..Len(talk) : talk[i].by = IF i % 2 = 1 THEN "client" ELSE "server"
    /\ \A e \in Ends : e = Talk!Speaker /\ Alive(e) /\ Alive(Other(e)) =>
          /\ wire[e] = << >>
          /\ pc[Other(e)] = "recv"
          /\ pc[e] = "type" <=> wire[Other(e)] = << >>
          /\ talk # << >> => buffer[Other(e)] = Last.text
          /\ wire[Other(e)] # << >> => talk # << >> /\ wire[Other(e)] = <<Last.text>>

(* When only one end is gone, and was not killed, it was the other's STOP  *)
(* that ended it; the other still has that STOP in its buffer.             *)
OneStopped ==
    \A e \in Ends : pc[e] = "done" /\ pc[Other(e)] # "dead" =>
        /\ \A f \in Ends : wire[f] = << >>
        /\ talk # << >>
        /\ Alive(Other(e)) =>
              /\ e = Talk!Speaker
              /\ pc[Other(e)] = "recv" /\ buffer[Other(e)] = Stop

StopInv == Shapes /\ Links /\ OneWay /\ InTurn /\ OneStopped /\ ShownWasSaid

-----------------------------------------------------------------------------
(* What has been said. *)

Lines(t, first) == [i \in 1..((Len(t) + 2 - first) \div 2) |-> t[2*i + first - 2].text]

LEMMA SaidIs ==
    ASSUME NEW t \in Seq(Entry), NEW first \in {1, 2}
    PROVE  /\ Lines(t, first) \in Seq(Messages)
           /\ Len(Lines(t, first)) \in Nat
           /\ Len(Lines(t, first)) = (Len(t) + 2 - first) \div 2
           /\ \A i \in 1..Len(Lines(t, first)) :
                 /\ Lines(t, first)[i] = t[2*i + first - 2].text
                 /\ 2*i + first - 2 \in 1..Len(t)
<1> DEFINE said == Lines(t, first)
<1> DEFINE n == (Len(t) + 2 - first) \div 2
<1>1. Len(t) \in Nat
  BY LenProperties
<1>2. n \in Nat /\ \A i \in 1..n : 2*i + first - 2 \in 1..Len(t)
  BY <1>1
<1>3. \A i \in 1..n : t[2*i + first - 2].text \in Messages
  <2> SUFFICES ASSUME NEW k \in 1..Len(t) PROVE t[k].text \in Messages
    BY <1>2
  <2>1. t[k] \in Entry
    BY ElementOfSeq
  <2> QED BY <2>1 DEF Entry
<1> HIDE DEF n
<1>4. said = [i \in 1..n |-> t[2*i + first - 2].text]
  BY DEF n, Lines
<1> HIDE DEF said
<1>5. said \in Seq(Messages) /\ Len(said) = n
  BY <1>2, <1>3, <1>4, IsASeq, LenProperties
<1> QED BY <1>2, <1>4, <1>5 DEF n, said

(* A line that is said is the last one of its end. *)
LEMMA SaidGrows ==
    ASSUME talk \in Seq(Entry), NEW e \in Ends, NEW m \in Messages,
           e = Talk!Speaker, talk' = Append(talk, [by |-> e, text |-> m])
    PROVE  /\ talk' \in Seq(Entry)
           /\ SaidBy(e) \in Seq(Messages) /\ SaidBy(Other(e)) \in Seq(Messages)
           /\ SaidBy(e)' = Append(SaidBy(e), m)
           /\ SaidBy(Other(e))' = SaidBy(Other(e))
<1> DEFINE n == Len(talk)
           u == [by |-> e, text |-> m]
<1>1. u \in Entry
  BY DEF Entry
<1> HIDE DEF u
<1>2. /\ n \in Nat /\ talk' \in Seq(Entry) /\ Len(talk') = n + 1
      /\ \A i \in 1..n : talk'[i] = talk[i]
      /\ talk'[n+1].text = m
  <2>1. talk' = Append(talk, u)
    BY DEF u
  <2>2. u.text = m
    BY DEF u
  <2> QED BY <1>1, <2>1, <2>2, LenProperties, AppendProperties
<1> HIDE DEF n
<1> DEFINE first == IF e = "client" THEN 1 ELSE 2
           other == IF e = "client" THEN 2 ELSE 1
           a == SaidBy(e)
           b == SaidBy(Other(e))
<1>3. n % 2 = first - 1 /\ first + other = 3 /\ first \in {1, 2} /\ other \in {1, 2}
  BY <1>2 DEF Talk!Speaker, Ends, n
<1>4. /\ a = Lines(talk, first) /\ a' = Lines(talk', first)
      /\ b = Lines(talk, other) /\ b' = Lines(talk', other)
  BY DEF SaidBy, Other, Ends, Lines
<1> HIDE DEF first, other, a, b
<1>5. /\ a \in Seq(Messages) /\ Len(a) \in Nat /\ Len(a) = (n + 2 - first) \div 2
      /\ \A i \in 1..Len(a) : a[i] = talk[2*i + first - 2].text /\ 2*i + first - 2 \in 1..n
  BY <1>3, <1>4, SaidIs DEF n
<1>6. /\ a' \in Seq(Messages) /\ Len(a') \in Nat /\ Len(a') = (n + 1 + 2 - first) \div 2
      /\ \A i \in 1..Len(a') : a'[i] = talk'[2*i + first - 2].text
  BY <1>2, <1>3, <1>4, SaidIs
<1>7. /\ b \in Seq(Messages) /\ Len(b) \in Nat /\ Len(b) = (n + 2 - other) \div 2
      /\ \A i \in 1..Len(b) : b[i] = talk[2*i + other - 2].text /\ 2*i + other - 2 \in 1..n
  BY <1>3, <1>4, SaidIs DEF n
<1>8. /\ b' \in Seq(Messages) /\ Len(b') \in Nat /\ Len(b') = (n + 1 + 2 - other) \div 2
      /\ \A i \in 1..Len(b') : b'[i] = talk'[2*i + other - 2].text
  BY <1>2, <1>3, <1>4, SaidIs
<1>9. Len(a') = Len(a) + 1 /\ 2*(Len(a) + 1) + first - 2 = n + 1 /\ Len(b') = Len(b)
  <2>1. \A k \in Nat, f, g \in {1, 2} : k % 2 = f - 1 /\ f + g = 3 =>
            /\ (k + 1 + 2 - f) \div 2 = (k + 2 - f) \div 2 + 1
            /\ 2*((k + 2 - f) \div 2 + 1) + f - 2 = k + 1
            /\ (k + 1 + 2 - g) \div 2 = (k + 2 - g) \div 2
    OBVIOUS
  <2>2. /\ (n + 1 + 2 - first) \div 2 = (n + 2 - first) \div 2 + 1
        /\ 2*((n + 2 - first) \div 2 + 1) + first - 2 = n + 1
        /\ (n + 1 + 2 - other) \div 2 = (n + 2 - other) \div 2
    BY ONLY <1>2, <1>3, <2>1
  <2>3. /\ Len(a) = (n + 2 - first) \div 2 /\ Len(a') = (n + 1 + 2 - first) \div 2
        /\ Len(b) = (n + 2 - other) \div 2 /\ Len(b') = (n + 1 + 2 - other) \div 2
    BY <1>5, <1>6, <1>7, <1>8
  <2> HIDE DEF a, b
  <2> QED BY ONLY <2>2, <2>3
<1>10. a' = Append(a, m)
  <2>1. ASSUME NEW i \in 1..Len(a) PROVE a'[i] = a[i]
    <3>1. i \in 1..Len(a')
      BY <1>5, <1>6, <1>9
    <3>2. a'[i] = talk'[2*i + first - 2].text
      BY <1>6, <3>1
    <3>3. a[i] = talk[2*i + first - 2].text /\ 2*i + first - 2 \in 1..n
      BY <1>5
    <3> QED BY <1>2, <3>2, <3>3
  <2>2. a'[Len(a) + 1] = m
    <3>1. Len(a) + 1 \in 1..Len(a')
      BY <1>5, <1>9
    <3> QED BY <1>2, <1>6, <1>9, <3>1
  <2>3. /\ Append(a, m) \in Seq(Messages) /\ Len(Append(a, m)) = Len(a) + 1
        /\ \A i \in 1..Len(a) : Append(a, m)[i] = a[i]
        /\ Append(a, m)[Len(a) + 1] = m
    BY <1>5, AppendProperties
  <2>4. \A i \in 1..Len(a') : a'[i] = Append(a, m)[i]
    BY <1>5, <1>9, <2>1, <2>2, <2>3
  <2> QED BY <1>6, <1>9, <2>3, <2>4, SeqEqual
<1>11. b' = b
  <2>1. \A i \in 1..Len(b') : b'[i] = b[i]
    BY <1>2, <1>7, <1>8, <1>9
  <2> QED BY <1>7, <1>8, <1>9, <2>1, SeqEqual
<1> QED BY <1>2, <1>5, <1>7, <1>10, <1>11 DEF a, b

-----------------------------------------------------------------------------
(* The steps. *)

LEMMA OtherEnd ==
    ASSUME NEW e \in Ends
    PROVE  /\ Other(e) \in Ends /\ Other(e) # e /\ Other(Other(e)) = e
           /\ \A f \in Ends : f = e \/ f = Other(e)
  BY DEF Other, Ends

LEMMA SpeakerIs ==
    ASSUME talk \in Seq(Entry)
    PROVE  /\ Talk!Speaker \in Ends /\ Len(talk) \in Nat
           /\ Len(talk') = Len(talk) + 1 => Talk!Speaker' = Other(Talk!Speaker)
           /\ talk' = talk => Talk!Speaker' = Talk!Speaker
<1>1. Len(talk) \in Nat
  BY LenProperties
<1> QED BY <1>1 DEF Talk!Speaker, Ends, Other

(* When a process has been killed there is nothing left to show.           *)
LEMMA DeadKeeps ==
    ASSUME InTurn, UNCHANGED talk, NEW e \in Ends, pc'[e] = "dead"
    PROVE  InTurn' /\ OneStopped' /\ ShownWasSaid'
<1>1. \A f \in Ends : pc'[f] = "dead" \/ pc'[Other(f)] = "dead"
  BY OtherEnd
<1>2. InTurn'
  BY <1>1 DEF InTurn, Alive
<1>3. OneStopped'
  BY <1>1 DEF OneStopped
<1> QED BY <1>2, <1>3 DEF ShownWasSaid

(* Who types while the other is there speaks in turn. *)
LEMMA TypesInTurn ==
    ASSUME StopInv, NEW e \in Ends, pc[e] = "type"
    PROVE  /\ link[e] = "open" => /\ Alive(Other(e)) /\ e = Talk!Speaker
                                  /\ wire[e] = << >> /\ wire[Other(e)] = << >>
                                  /\ pc[Other(e)] = "recv"
           /\ link[e] # "open" => pc[Other(e)] = "dead"
<1> USE DEF StopInv
<1>1. /\ Other(e) \in Ends /\ Other(Other(e)) = e /\ Alive(e)
      /\ Talk!Speaker \in {e, Other(e)}
  BY OtherEnd, SpeakerIs DEF Shapes, Alive
<1>2. CASE link[e] = "open"
  <2>1. Alive(Other(e))
    BY <1>2 DEF Links
  <2>2. e = Talk!Speaker
    BY <1>1, <2>1 DEF InTurn
  <2> QED BY <1>1, <1>2, <2>1, <2>2 DEF InTurn
<1>3. CASE link[e] # "open"
  <2>1. ~Alive(Other(e))
    BY <1>3 DEF Links
  <2>2. pc[Other(e)] # "done"
    BY <1>1 DEF OneStopped, Alive
  <2> QED BY <1>1, <1>3, <2>1, <2>2 DEF Alive, Shapes
<1> QED BY <1>2, <1>3

LEMMA TypeKeepsInv ==
    ASSUME StopInv, NEW e \in Ends, Type(e)
    PROVE  StopInv'
<1> USE DEF StopInv
<1> DEFINE o == Other(e)
<1>1. /\ o \in Ends /\ o # e /\ Other(o) = e /\ \A f \in Ends : f = e \/ f = o
  BY OtherEnd
<1> HIDE DEF o
<1>2. PICK m \in Messages :
         /\ buffer' = [buffer EXCEPT ![e] = m]
         /\ IF link[e] = "open"
            THEN /\ wire' = [wire EXCEPT ![e] = Append(wire[e], m)]
                 /\ talk' = Append(talk, [by |-> e, text |-> m])
            ELSE UNCHANGED <<wire, talk>>
  <2>1. buffer[e] \in Messages
    BY DEF Shapes
  <2> QED BY <2>1 DEF Type
<1>3. pc[e] = "type" /\ UNCHANGED shown /\ pc \in [Ends -> {"type", "recv", "done", "dead"}]
  BY DEF Type, Shapes
<1>4. CASE link[e] = "open"
  <2>1. /\ Alive(o) /\ e = Talk!Speaker /\ wire[e] = << >> /\ wire[o] = << >>
        /\ pc[o] = "recv"
    BY <1>3, <1>4, TypesInTurn DEF o
  <2>2. /\ pc' = [pc EXCEPT ![e] = "recv"] /\ link' = link
        /\ wire' = [wire EXCEPT ![e] = <<m>>]
        /\ talk' = Append(talk, [by |-> e, text |-> m])
    <3>1. Append(wire[e], m) = <<m>>
      BY <2>1
    <3>2. link' = [link EXCEPT ![e] = link[e]]
      BY <1>4 DEF Type
    <3>3. link' = link
      BY <3>2 DEF Shapes
    <3> QED BY <1>2, <1>4, <3>1, <3>3 DEF Type
  <2>3. /\ pc'[e] = "recv" /\ pc'[o] = "recv" /\ wire'[e] = <<m>> /\ wire'[o] = << >>
        /\ buffer'[e] = m
    BY <1>1, <1>2, <1>3, <2>1, <2>2 DEF Shapes
  <2>4. /\ talk' \in Seq(Entry) /\ Len(talk') = Len(talk) + 1 /\ Len(talk) \in Nat
        /\ \A i \in 1..Len(talk) : talk'[i] = talk[i]
        /\ talk'[Len(talk')] = [by |-> e, text |-> m]
        /\ Talk!Speaker' = o /\ talk' # << >>
    <3>1. [by |-> e, text |-> m] \in Entry
      BY DEF Entry
    <3>2. /\ talk' \in Seq(Entry) /\ Len(talk') = Len(talk) + 1 /\ Len(talk) \in Nat
          /\ \A i \in 1..Len(talk) : talk'[i] = talk[i]
          /\ talk'[Len(talk) + 1] = [by |-> e, text |-> m]
      BY <2>2, <3>1, AppendProperties, LenProperties DEF Shapes
    <3>3. talk' # << >>
      BY <3>2, EmptySeq
    <3> QED BY <2>1, <3>2, <3>3, SpeakerIs DEF Shapes, o
  <2>5. Shapes'
    <3>1. <<m>> \in Seq(Messages)
      OBVIOUS
    <3>2. wire' \in [Ends -> Seq(Messages)]
      BY <2>2, <3>1 DEF Shapes
    <3> QED BY <1>2, <1>3, <2>2, <2>4, <3>2 DEF Shapes
  <2>6. Links'
    BY <1>1, <1>3, <2>1, <2>2, <2>3 DEF Links, Alive, o
  <2>7. OneWay'
    BY <1>1, <2>3 DEF OneWay, Ends, o, Other
  <2>8. InTurn'
    <3>1. \A i \in 1..Len(talk') : talk'[i].by = IF i % 2 = 1 THEN "client" ELSE "server"
      <4>1. e = IF (Len(talk) + 1) % 2 = 1 THEN "client" ELSE "server"
        BY <2>1, <2>4 DEF Talk!Speaker
      <4> QED BY <2>4, <4>1 DEF InTurn
    <3>2. /\ wire'[o] = << >> /\ wire'[e] # << >> /\ pc'[o] # "type"
          /\ wire'[e] = <<Last'.text>> /\ buffer'[e] = Last'.text
      BY <2>3, <2>4 DEF Last
    <3> QED BY <1>1, <2>3, <2>4, <3>1, <3>2 DEF InTurn
  <2>9. OneStopped'
    BY <1>1, <2>3 DEF OneStopped
  <2>10. ShownWasSaid'
    <3>1. /\ SaidBy(e) \in Seq(Messages) /\ SaidBy(o) \in Seq(Messages)
          /\ SaidBy(e)' = Append(SaidBy(e), m) /\ SaidBy(o)' = SaidBy(o)
      BY <2>1, <2>2, SaidGrows DEF Shapes, o
    <3>2. /\ shown[e] \in Seq(Messages) /\ shown[o] \in Seq(Messages)
      BY <1>1 DEF Shapes
    <3>3. /\ shown[o] \o wire[e] = SaidBy(e) \o << >>
          /\ shown[e] \o wire[o] = SaidBy(o) \o << >>
      <4>1. \A f \in Ends : pc[f] # "dead" /\ pc[f] # "done"
        BY <1>1, <1>3, <2>1
      <4> QED BY <1>1, <4>1 DEF ShownWasSaid, o
    <3>4. shown[o] = SaidBy(e) /\ shown[e] = SaidBy(o)
      BY <2>1, <3>1, <3>2, <3>3, ConcatEmptySeq
    <3>5. shown[o] \o <<m>> = SaidBy(e)' /\ shown[e] \o << >> = SaidBy(o)'
      BY <3>1, <3>2, <3>4, AppendIsConcat, ConcatEmptySeq
    <3>6. SaidBy(e)' \o << >> = SaidBy(e)' /\ SaidBy(o)' \o << >> = SaidBy(o)'
      BY <3>1, ConcatEmptySeq, AppendProperties
    <3>7. \A f \in Ends : pc'[f] # "done"
      BY <1>1, <2>3
    <3> QED BY <1>1, <1>3, <2>3, <3>5, <3>6, <3>7 DEF ShownWasSaid, o
  <2> QED BY <2>5, <2>6, <2>7, <2>8, <2>9, <2>10
<1>5. CASE link[e] = "fin"
  <2>1. pc[o] = "dead"
    BY <1>3, <1>5, TypesInTurn DEF o
  <2>2. /\ pc' = [pc EXCEPT ![e] = "recv"] /\ link' = [link EXCEPT ![e] = "reset"]
        /\ UNCHANGED <<wire, talk>> /\ pc'[o] = "dead"
    BY <1>1, <1>2, <1>3, <1>5, <2>1 DEF Type
  <2>3. Shapes'
    BY <1>2, <1>3, <2>2 DEF Shapes
  <2>4. Links'
    BY <1>1, <1>3, <1>5, <2>1, <2>2 DEF Links, Alive, o, Shapes
  <2> QED BY <1>1, <2>2, <2>3, <2>4, DeadKeeps DEF OneWay
<1>6. CASE link[e] = "reset"
  <2>1. /\ pc' = [pc EXCEPT ![e] = "dead"] /\ link' = Gone(e)
        /\ UNCHANGED <<wire, talk>> /\ pc'[e] = "dead"
    BY <1>2, <1>3, <1>6 DEF Type
  <2>2. /\ link' \in [Ends -> {"open", "fin", "reset"}]
        /\ link'[o] # "open" /\ link'[e] = link[e]
    BY <1>1, <2>1 DEF Gone, Shapes, o
  <2>3. Shapes'
    BY <1>2, <1>3, <2>1, <2>2 DEF Shapes
  <2>4. Links'
    BY <1>1, <1>3, <2>1, <2>2 DEF Links, Alive, o
  <2> QED BY <2>1, <2>3, <2>4, DeadKeeps DEF OneWay
<1> QED BY <1>4, <1>5, <1>6 DEF Shapes

(* Who receives while the other is there hears what was said last; who     *)
(* receives when the other has stopped finds its own STOP.                 *)
LEMMA ReceivesInTurn ==
    ASSUME StopInv, NEW e \in Ends, Receive(e)
    PROVE  LET o == Other(e)
           IN  /\ Alive(o) => /\ e = Talk!Speaker /\ wire[e] = << >>
                              /\ wire[o] = <<Last.text>> /\ Last.text \in Messages
                              /\ talk # << >> /\ Received(e) = Last.text
                              /\ buffer[o] = Last.text /\ pc[o] = "recv"
               /\ pc[o] = "done" => /\ wire[e] = << >> /\ wire[o] = << >>
                                    /\ Received(e) = Stop /\ o = Talk!Speaker
                                    /\ talk # << >>
<1> USE DEF StopInv
<1> DEFINE o == Other(e)
<1>1. /\ o \in Ends /\ o # e /\ Other(o) = e /\ \A f \in Ends : f = e \/ f = o
      /\ Talk!Speaker \in {e, o}
  BY OtherEnd, SpeakerIs DEF Shapes
<1> HIDE DEF o
<1>2. pc[e] = "recv" /\ Alive(e) /\ (wire[o] # << >> \/ link[e] # "open")
  BY DEF Receive, Alive, o
<1>3. CASE Alive(o)
  <2>1. wire[o] # << >>
    BY <1>2, <1>3 DEF Links, o
  <2>2. e = Talk!Speaker
    BY <1>1, <1>2, <1>3, <2>1 DEF InTurn
  <2>3. /\ wire[e] = << >> /\ wire[o] = <<Last.text>> /\ talk # << >>
        /\ buffer[o] = Last.text /\ pc[o] = "recv"
    BY <1>2, <1>3, <2>1, <2>2 DEF InTurn, o
  <2>4. Last.text \in Messages /\ Received(e) = Last.text
    <3>1. PICK m \in Messages : wire[o] = <<m>>
      BY <1>1, <2>1 DEF OneWay
    <3>2. m = Last.text
      BY <2>3, <3>1
    <3> QED BY <2>1, <3>1, <3>2 DEF Received, o
  <2> QED BY <1>3, <2>2, <2>3, <2>4 DEF o, Alive
<1>4. CASE pc[o] = "done"
  <2>1. /\ wire[e] = << >> /\ wire[o] = << >> /\ talk # << >>
        /\ o = Talk!Speaker /\ buffer[e] = Stop
    BY <1>1, <1>2, <1>4 DEF OneStopped, Alive
  <2> QED BY <1>4, <2>1 DEF Received, o, Alive
<1> QED BY <1>3, <1>4 DEF o

LEMMA ReceiveKeepsInv ==
    ASSUME StopInv, NEW e \in Ends, Receive(e)
    PROVE  StopInv'
<1> USE DEF StopInv
<1> DEFINE o == Other(e)
           m == Received(e)
<1>1. /\ o = Other(e) /\ o \in Ends /\ o # e /\ Other(o) = e
      /\ \A f \in Ends : f = e \/ f = o
  BY OtherEnd
<1>2. /\ Alive(o) => /\ e = Talk!Speaker /\ wire[e] = << >>
                     /\ wire[o] = <<Last.text>> /\ Last.text \in Messages
                     /\ talk # << >> /\ m = Last.text
                     /\ buffer[o] = Last.text /\ pc[o] = "recv"
      /\ pc[o] = "done" => /\ wire[e] = << >> /\ wire[o] = << >>
                           /\ m = Stop /\ o = Talk!Speaker
                           /\ talk # << >>
  BY ReceivesInTurn
<1> HIDE DEF o, m
<1>3. m \in Messages /\ wire[o] \in Seq(Messages)
  <2>1. buffer[e] \in Messages /\ wire[o] \in Seq(Messages)
    BY <1>1 DEF Shapes
  <2> QED BY <2>1, HeadTailProperties DEF m, Received, o
<1>4. /\ pc[e] = "recv" /\ UNCHANGED talk
      /\ buffer' = [buffer EXCEPT ![e] = m]
      /\ shown' = [shown EXCEPT ![e] = Append(shown[e], m)]
      /\ wire' = [wire EXCEPT ![o] = IF wire[o] # << >> THEN Tail(wire[o]) ELSE wire[o]]
      /\ pc' = [pc EXCEPT ![e] = IF m = Stop THEN "done" ELSE "type"]
      /\ link' = IF m = Stop THEN Gone(e) ELSE link
  BY DEF Receive, m, o
<1>5. wire'[o] = << >> /\ wire'[e] = wire[e]
  <2>1. wire[o] = << >> \/ \E d \in Messages : wire[o] = <<d>>
    BY <1>1 DEF OneWay
  <2>2. \A d \in Messages : Tail(<<d>>) = << >>
    OBVIOUS
  <2>3. wire'[o] = IF wire[o] # << >> THEN Tail(wire[o]) ELSE wire[o]
    BY <1>1, <1>4 DEF Shapes
  <2>4. wire'[o] = << >>
    BY <2>1, <2>2, <2>3
  <2> QED BY <1>1, <1>4, <2>4 DEF Shapes
<1>6. /\ pc'[o] = pc[o] /\ pc'[e] = IF m = Stop THEN "done" ELSE "type"
      /\ buffer'[o] = buffer[o]
      /\ shown'[e] = Append(shown[e], m) /\ shown'[o] = shown[o]
  BY <1>1, <1>4 DEF Shapes
<1>7. Shapes'
  <2>1. shown' \in [Ends -> Seq(Messages)]
    BY <1>3, <1>4, AppendProperties DEF Shapes
  <2>2. wire' \in [Ends -> Seq(Messages)]
    <3>1. << >> \in Seq(Messages)
      OBVIOUS
    <3>2. (IF wire[o] # << >> THEN Tail(wire[o]) ELSE wire[o]) \in Seq(Messages)
      BY <1>3, HeadTailProperties
    <3> QED BY <1>4, <3>2 DEF Shapes
  <2>3. link' \in [Ends -> {"open", "fin", "reset"}]
    BY <1>4 DEF Gone, Shapes
  <2> QED BY <1>3, <1>4, <2>1, <2>2, <2>3 DEF Shapes
<1>8. Links'
  <2>1. CASE m = Stop
    <3>1. link'[o] # "open" /\ link'[e] = link[e]
      BY <1>1, <1>4, <2>1 DEF Gone, Shapes, o
    <3> QED BY <1>1, <1>6, <2>1, <3>1 DEF Links, Alive, o
  <2>2. CASE m # Stop
    BY <1>1, <1>4, <1>6, <2>2 DEF Links, Alive, o
  <2> QED BY <2>1, <2>2
<1>9. OneWay'
  BY <1>1, <1>5 DEF OneWay, Ends
<1>10. Talk!Speaker' = Talk!Speaker /\ Last' = Last /\ Talk!Speaker \in Ends
  BY <1>4, SpeakerIs DEF Shapes, Last
<1>11. InTurn'
  <2>1. Alive(o)' <=> Alive(o)
    BY <1>6 DEF Alive
  <2>2. CASE Alive(o)
    BY <1>1, <1>2, <1>4, <1>5, <1>6, <1>10, <2>2 DEF InTurn, Alive
  <2>3. CASE ~Alive(o)
    BY <1>1, <1>4, <2>1, <2>3 DEF InTurn
  <2> QED BY <2>2, <2>3
<1>12. OneStopped'
  <2>1. CASE pc[o] = "dead"
    BY <1>1, <1>6, <2>1 DEF OneStopped
  <2>2. CASE pc[o] = "done"
    BY <1>1, <1>2, <1>4, <1>5, <1>6, <2>2 DEF OneStopped, Alive
  <2>3. CASE Alive(o)
    <3>1. \A f \in Ends : wire'[f] = << >>
      BY <1>1, <1>2, <1>5, <2>3
    <3>2. pc'[o] # "done"
      BY <1>2, <1>6, <2>3
    <3>3. pc'[e] = "done" => /\ talk' # << >> /\ e = Talk!Speaker'
                             /\ pc'[o] = "recv" /\ buffer'[o] = Stop
      BY <1>2, <1>4, <1>6, <1>10, <2>3
    <3> QED BY <1>1, <3>1, <3>2, <3>3 DEF OneStopped
  <2> QED BY <1>1, <2>1, <2>2, <2>3 DEF Shapes, Alive
<1>13. ShownWasSaid'
  <2>1. SUFFICES ASSUME pc[o] # "dead"
                 PROVE  ShownWasSaid'
    BY <1>1, <1>6 DEF ShownWasSaid
  <2>2. \A f \in Ends : SaidBy(f)' = SaidBy(f) /\ SaidBy(f) \in Seq(Messages)
    <3>1. \A f \in Ends : SaidBy(f) \in Seq(Messages)
      BY SaidIs DEF SaidBy, Lines, Shapes
    <3> QED BY <1>4, <3>1 DEF SaidBy
  <2>3. /\ shown[e] \in Seq(Messages) /\ shown[o] \in Seq(Messages)
    BY <1>1 DEF Shapes
  <2>4. shown[e] \o wire[o] = SaidBy(o) \o << >>
    BY <1>1, <1>4, <2>1 DEF ShownWasSaid
  <2>5. shown[o] \o wire[e] = SaidBy(e) \o (IF pc[o] = "done" /\ talk[Len(talk)].by = o
                                            THEN <<Stop>> ELSE << >>)
    BY <1>1, <1>4, <2>1 DEF ShownWasSaid
  <2>6. (shown[o] \o wire[e])' = (SaidBy(e) \o (IF pc[o] = "done" /\ talk[Len(talk)].by = o
                                                THEN <<Stop>> ELSE << >>))'
    BY <1>1, <1>4, <1>5, <1>6, <2>2, <2>5
  <2>7. talk # << >> => talk[Len(talk)].by = Other(Talk!Speaker)
    <3>1. ASSUME talk # << >> PROVE Len(talk) \in Nat \ {0} /\ Len(talk) \in 1..Len(talk)
      BY <3>1, LenProperties, EmptySeq DEF Shapes
    <3> QED BY <3>1 DEF InTurn, Talk!Speaker, Other
  <2>8. CASE Alive(o)
    <3>1. talk[Len(talk)].by # e
      BY <1>1, <1>2, <2>7, <2>8 DEF o
    <3>2. Append(shown[e], m) \o << >> = SaidBy(o) \o << >>
      <4>1. Append(shown[e], m) = shown[e] \o <<m>> /\ Append(shown[e], m) \in Seq(Messages)
        BY <1>3, <2>3, AppendIsConcat, AppendProperties
      <4>2. <<m>> = wire[o]
        BY <1>2, <2>8
      <4> QED BY <2>4, <4>1, <4>2, ConcatEmptySeq
    <3>3. (shown[e] \o wire[o])' = SaidBy(o)' \o << >>
      BY <1>1, <1>5, <1>6, <2>2, <3>2
    <3> QED BY <1>1, <1>4, <2>6, <3>1, <3>3 DEF ShownWasSaid
  <2>9. CASE pc[o] = "done"
    <3>1. talk[Len(talk)].by = e /\ m = Stop /\ wire[o] = << >>
      BY <1>1, <1>2, <2>7, <2>9 DEF o
    <3>2. shown[e] = SaidBy(o)
      BY <1>1, <2>2, <2>3, <2>4, <3>1, ConcatEmptySeq
    <3>3. Append(shown[e], m) \o << >> = SaidBy(o) \o <<Stop>>
      BY <1>3, <2>3, <3>1, <3>2, AppendIsConcat, ConcatEmptySeq, AppendProperties
    <3>4. (shown[e] \o wire[o])' = SaidBy(o)' \o <<Stop>>
      BY <1>1, <1>5, <1>6, <2>2, <3>3
    <3> QED BY <1>1, <1>4, <1>6, <2>6, <3>1, <3>4 DEF ShownWasSaid
  <2> QED BY <1>1, <2>1, <2>8, <2>9 DEF Shapes, Alive
<1> QED BY <1>7, <1>8, <1>9, <1>11, <1>12, <1>13

LEMMA KillKeepsInv ==
    ASSUME StopInv, NEW e \in Ends, Kill(e)
    PROVE  StopInv'
<1> USE DEF StopInv
<1>1. /\ Other(e) \in Ends /\ Other(e) # e /\ Other(Other(e)) = e
      /\ \A f \in Ends : f = e \/ f = Other(e)
  BY OtherEnd
<1>2. /\ pc' = [pc EXCEPT ![e] = "dead"] /\ link' = Gone(e)
      /\ UNCHANGED <<buffer, wire, shown, talk>>
      /\ pc'[e] = "dead" /\ pc'[Other(e)] = pc[Other(e)]
  BY <1>1 DEF Kill, Shapes
<1>3. /\ link' \in [Ends -> {"open", "fin", "reset"}]
      /\ link'[Other(e)] # "open" /\ link'[e] = link[e]
  BY <1>1, <1>2 DEF Gone, Shapes
<1>4. Shapes' /\ OneWay'
  BY <1>2, <1>3 DEF Shapes, OneWay
<1>5. Links'
  BY <1>1, <1>2, <1>3 DEF Links, Alive
<1> QED BY <1>2, <1>4, <1>5, DeadKeeps

LEMMA InitStopInv == Init => StopInv
<1> SUFFICES ASSUME Init PROVE StopInv
  OBVIOUS
<1>1. /\ pc = [e \in Ends |-> Start(e)] /\ buffer \in [Ends -> Messages]
      /\ wire = [e \in Ends |-> << >>] /\ link = [e \in Ends |-> "open"]
      /\ shown = [e \in Ends |-> << >>] /\ talk = << >>
      /\ \A S : << >> \in Seq(S)
  BY DEF Init
<1>2. Shapes
  BY <1>1 DEF Shapes, Start
<1>3. /\ Len(talk) = 0 /\ Talk!Speaker = "client"
      /\ pc["client"] = "type" /\ pc["server"] = "recv"
  BY <1>1, EmptySeq DEF Talk!Speaker, Ends, Start
<1>4. Links /\ OneWay
  BY <1>1, <1>3 DEF Links, OneWay, Ends, Other, Alive
<1>5. InTurn
  BY <1>1, <1>3 DEF InTurn, Ends, Other
<1>6. OneStopped
  BY <1>3 DEF OneStopped, Ends
<1>7. ShownWasSaid
  <2>1. \A f \in Ends : SaidBy(f) \in Seq(Messages)
    BY <1>2, SaidIs DEF SaidBy, Lines, Shapes
  <2>2. \A f \in Ends : Len(SaidBy(f)) = 0
    BY <1>2, <1>3, SaidIs DEF SaidBy, Lines, Shapes
  <2>3. \A f \in Ends : SaidBy(f) = << >>
    BY <2>1, <2>2, EmptySeq
  <2>4. << >> \o << >> = << >>
    OBVIOUS
  <2> QED BY <1>1, <1>3, <2>3, <2>4 DEF ShownWasSaid, Ends, Other
<1> QED BY <1>2, <1>4, <1>5, <1>6, <1>7 DEF StopInv

LEMMA NextStopInv == StopInv /\ [Next]_vars => StopInv'
<1> SUFFICES ASSUME StopInv, [Next]_vars PROVE StopInv'
  OBVIOUS
<1>1. CASE UNCHANGED vars
  <2>1. Shapes' /\ Links' /\ OneWay'
    BY <1>1 DEF vars, StopInv, Shapes, Links, Alive, OneWay
  <2>2. InTurn' /\ OneStopped'
    BY <1>1 DEF vars, StopInv, Alive, InTurn, Talk!Speaker, Last, OneStopped
  <2>3. \A e \in Ends : SaidBy(e)' = SaidBy(e)
    BY <1>1 DEF vars, SaidBy
  <2>4. ShownWasSaid'
    <3>1. ShownWasSaid /\ UNCHANGED <<pc, link, wire, shown, talk>>
      BY <1>1 DEF vars, StopInv
    <3>2. \A e \in Ends : SaidBy(Other(e))' = SaidBy(Other(e))
      BY <2>3, OtherEnd
    <3> QED BY <3>1, <3>2 DEF ShownWasSaid
  <2> QED BY <2>1, <2>2, <2>4 DEF StopInv
<1> QED BY <1>1, TypeKeepsInv, ReceiveKeepsInv, KillKeepsInv DEF Next

(* The inductive invariant of the pair. *)
THEOREM StopChatSound == Spec => []StopInv
<1> QED BY InitStopInv, NextStopInv, PTL DEF Spec

(* At most one message is under way.                                       *)
THEOREM OneMessageUnderWay == Spec => []TypeOK
<1>1. StopInv => TypeOK
  <2> SUFFICES ASSUME StopInv PROVE Len(wire["client"]) + Len(wire["server"]) <= 1
    BY DEF StopInv, Shapes, TypeOK
  <2>1. \A m \in Messages : Len(<<m>>) = 1
    OBVIOUS
  <2>2. \A e \in Ends : (wire[e] = << >> /\ Len(wire[e]) = 0) \/ Len(wire[e]) = 1
    BY <2>1, EmptySeq DEF StopInv, OneWay
  <2>3. \A e \in Ends : wire[e] # << >> => Len(wire[e]) = 1
    BY <2>2
  <2>4. "client" \in Ends /\ "server" \in Ends
    BY DEF Ends
  <2>5. \/ Len(wire["client"]) = 0 /\ Len(wire["server"]) \in {0, 1}
        \/ Len(wire["server"]) = 0 /\ Len(wire["client"]) \in {0, 1}
    BY <2>2, <2>4, EmptySeq DEF StopInv, OneWay
  <2>6. \A a, b : ((a = 0 /\ b \in {0, 1}) \/ (b = 0 /\ a \in {0, 1})) => a + b <= 1
    OBVIOUS
  <2> QED BY ONLY <2>5, <2>6
<1> QED BY <1>1, StopChatSound, PTL

(* What an end prints as the other's lines are the lines the other sent,   *)
(* and the STOP that ends both, although recv() is never checked.          *)
THEOREM PrintsWhatWasSaid == Spec => []ShownWasSaid
<1>1. StopInv => ShownWasSaid
  BY DEF StopInv
<1> QED BY <1>1, StopChatSound, PTL

-----------------------------------------------------------------------------
(* The pair implements the rigid alternation. *)

Heard == Len(talk) - Len(wire["client"]) - Len(wire["server"])

LEMMA StopNextIsTalk ==
    ASSUME StopInv, Next
    PROVE  Talk!TalkNext \/ UNCHANGED <<talk, Heard>>
<1> USE DEF StopInv
<1>1. PICK e \in Ends : Type(e) \/ Receive(e) \/ Kill(e)
  BY DEF Next
<1> DEFINE o == Other(e)
<1>2. /\ o = Other(e) /\ o \in Ends /\ o # e /\ \A f \in Ends : f = e \/ f = o
      /\ Len(talk) \in Nat
      /\ wire[e] \in Seq(Messages) /\ wire[o] \in Seq(Messages)
      /\ Len(wire[e]) \in Nat /\ Len(wire[o]) \in Nat
      /\ wire \in [Ends -> Seq(Messages)]
  BY OtherEnd, LenProperties DEF Shapes
<1> HIDE DEF o
<1>3. /\ Heard = Len(talk) - Len(wire[e]) - Len(wire[o])
      /\ Heard' = Len(talk') - Len(wire'[e]) - Len(wire'[o])
  <2>1. CASE e = "client" /\ o = "server"
    BY <2>1 DEF Heard
  <2>2. CASE e = "server" /\ o = "client"
    <3>1. Len(wire'["client"]) \in Nat /\ Len(wire'["server"]) \in Nat /\ Len(talk') \in Nat
      BY <1>1, NextStopInv, LenProperties DEF Next, Shapes, Ends
    <3>2. \A a, b, c \in Nat : a - b - c = a - c - b
      OBVIOUS
    <3>3. Len(talk) - Len(wire[o]) - Len(wire[e]) = Len(talk) - Len(wire[e]) - Len(wire[o])
      BY ONLY <1>2, <3>2
    <3>4. Len(talk') - Len(wire'[o]) - Len(wire'[e]) = Len(talk') - Len(wire'[e]) - Len(wire'[o])
      BY ONLY <2>2, <3>1, <3>2
    <3> QED BY <2>2, <3>3, <3>4 DEF Heard
  <2> QED BY <1>2, <2>1, <2>2 DEF Ends
<1>4. CASE Type(e) /\ link[e] = "open"
  <2>1. e = Talk!Speaker /\ wire[e] = << >> /\ wire[o] = << >>
    BY <1>4, TypesInTurn DEF Type, o
  <2>2. PICK m \in Messages \cup {buffer[e]} :
           /\ wire' = [wire EXCEPT ![e] = Append(wire[e], m)]
           /\ talk' = Append(talk, [by |-> e, text |-> m])
    BY <1>4 DEF Type
  <2>3. m \in Messages
    BY DEF Shapes
  <2>4. wire'[o] = << >> /\ Len(wire'[e]) = 1
    BY <1>2, <2>1, <2>2, <2>3
  <2>5. Len(talk') = Len(talk) + 1
    <3>1. [by |-> e, text |-> m] \in Entry
      BY <2>3 DEF Entry
    <3> QED BY <2>2, <3>1, AppendProperties DEF Shapes
  <2>6. Heard = Len(talk) /\ Heard' = Heard
    BY <1>2, <1>3, <2>1, <2>4, <2>5, EmptySeq
  <2>7. Talk!Say(e, m)
    BY <2>1, <2>2, <2>6 DEF Talk!Say, Heard
  <2> QED BY <2>3, <2>7 DEF Talk!TalkNext, Ends
<1>5. CASE Type(e) /\ link[e] # "open"
  BY <1>5 DEF Type, Heard
<1>6. CASE Receive(e)
  <2>1. CASE wire[o] = << >>
    BY <1>2, <1>6, <2>1 DEF Receive, Heard, o
  <2>2. CASE wire[o] # << >>
    <3>1. PICK d \in Messages : wire[o] = <<d>>
      BY <1>2, <2>2 DEF OneWay
    <3>2. wire[e] = << >> /\ UNCHANGED talk
      BY <1>2, <1>6, <2>2 DEF OneWay, Ends, Receive
    <3>3. wire' = [wire EXCEPT ![o] = Tail(wire[o])]
      BY <1>6, <2>2 DEF Receive, o
    <3>4. wire'[e] = << >> /\ wire'[o] = << >> /\ Len(wire[o]) = 1
      BY <1>2, <3>1, <3>2, <3>3
    <3>5. Heard = Len(talk) - 1 /\ Heard' = Len(talk)
      BY <1>2, <1>3, <3>2, <3>4, EmptySeq
    <3>6. Talk!Hear
      <4>1. Heard < Len(talk) /\ Heard' = Heard + 1
        BY <1>2, <3>5
      <4> QED BY <3>2, <4>1 DEF Talk!Hear, Heard
    <3> QED BY <3>6 DEF Talk!TalkNext
  <2> QED BY <2>1, <2>2
<1>7. CASE Kill(e)
  BY <1>7 DEF Kill, Heard
<1> QED BY <1>1, <1>4, <1>5, <1>6, <1>7

(* Whoever types and whoever dies, the pair keeps to the rigid alternation *)
(* in which nobody speaks before hearing what was said last.               *)
THEOREM KeepsAlternating == Spec => Alternates
<1>1. Init => Talk!TalkInit
  BY EmptySeq DEF Init, Talk!TalkInit, Ends
<1>2. StopInv /\ [Next]_vars => [Talk!TalkNext]_<<talk, Heard>>
  BY StopNextIsTalk DEF vars, Heard
<1> QED BY <1>1, <1>2, StopChatSound, PTL DEF Spec, Alternates, Talk!TalkSpec, Heard

=============================================================================
