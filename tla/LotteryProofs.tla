---------------------------- MODULE LotteryProofs -----------------------------
(***************************************************************************)
(* Theorems about the lottery: first about the server alone, module        *)
(* LotteryServer, for every set of addresses, table length and number of   *)
(* attempts; then about the server with its clients and the sockets        *)
(* between them, module Lottery, for every number of client processes at   *)
(* an address, of restarts and of places in a queue.                       *)
(***************************************************************************)
EXTENDS Lottery, FiniteSetTheorems, SequenceTheorems, TLAPS

-----------------------------------------------------------------------------
(* The server alone. *)

(* No address twice. *)
Distinct(t) == \A i, j \in 1..Len(t) : t[i].addr = t[j].addr => i = j

-----------------------------------------------------------------------------
(* What the operators on the table return. *)

(* find_client on a table without duplicates: the index of the one entry   *)
(* of the address, or 0 when there is none.                                *)
LEMMA FindClientResult ==
    ASSUME NEW t \in Seq(Record), Distinct(t), NEW a
    PROVE  /\ FindClient(t, a) \in 0..Len(t)
           /\ FindClient(t, a) = 0 <=> \A i \in 1..Len(t) : t[i].addr # a
           /\ \A i \in 1..Len(t) : t[i].addr = a => FindClient(t, a) = i
<1>1. Len(t) \in Nat
  BY LenProperties
<1>2. CASE \A i \in 1..Len(t) : t[i].addr # a
  BY <1>1, <1>2 DEF FindClient
<1>3. CASE \E i \in 1..Len(t) : t[i].addr = a
  <2>1. PICK i \in 1..Len(t) : t[i].addr = a
    BY <1>3
  <2>2. \A j \in 1..(i-1) : t[j].addr # a
    BY <1>1, <2>1 DEF Distinct
  <2> DEFINE First(k) == t[k].addr = a /\ \A j \in 1..(k-1) : t[j].addr # a
  <2>3. FindClient(t, a) = CHOOSE k \in 1..Len(t) : First(k)
    BY <1>3 DEF FindClient
  <2>4. FindClient(t, a) \in 1..Len(t) /\ First(FindClient(t, a))
    <3>1. \E k \in 1..Len(t) : First(k)
      BY <2>1, <2>2
    <3> HIDE DEF First
    <3> QED BY <3>1, <2>3
  <2>5. \A k \in 1..Len(t) : t[k].addr = a => FindClient(t, a) = k
    BY <2>4 DEF Distinct
  <2> QED BY <1>1, <1>3, <2>4, <2>5
<1> QED BY <1>2, <1>3

(* remove_client at an entry: one entry fewer, the last one in its place. *)
LEMMA RemoveClientResult ==
    ASSUME NEW t \in Seq(Record), NEW i \in 1..Len(t)
    PROVE  LET r == RemoveClient(t, i)
           IN  /\ r \in Seq(Record)
               /\ Len(r) = Len(t) - 1
               /\ \A j \in 1..(Len(t)-1) : r[j] = IF j = i THEN t[Len(t)] ELSE t[j]
<1> DEFINE e(j) == IF j = i THEN t[Len(t)] ELSE t[j]
<1>1. Len(t) \in Nat /\ Len(t) - 1 \in Nat
  BY LenProperties
<1>2. \A j \in 1..(Len(t)-1) : e(j) \in Record
  BY <1>1, ElementOfSeq
<1>3. RemoveClient(t, i) = [j \in 1..(Len(t)-1) |-> e(j)]
  BY DEF RemoveClient
<1>4. [j \in 1..(Len(t)-1) |-> e(j)] \in Seq(Record)
  <2> HIDE DEF e
  <2> QED BY <1>1, <1>2, IsASeq
<1>5. DOMAIN RemoveClient(t, i) = 1..(Len(t)-1)
  BY <1>3
<1>6. Len(RemoveClient(t, i)) = Len(t) - 1
  BY <1>1, <1>3, <1>4, <1>5, LenProperties
<1> QED BY <1>3, <1>4, <1>6

(* No address is owned twice after an entry has moved into the hole. *)
LEMMA RemovalKeepsDistinct ==
    ASSUME NEW t \in Seq(Record), Distinct(t), NEW k \in 1..Len(t)
    PROVE  Distinct(RemoveClient(t, k))
<1> DEFINE r == RemoveClient(t, k)
<1>1. /\ Len(t) \in Nat /\ Len(r) = Len(t) - 1
      /\ \A j \in 1..(Len(t)-1) : r[j] = IF j = k THEN t[Len(t)] ELSE t[j]
  BY RemoveClientResult, LenProperties
<1> HIDE DEF r
<1> SUFFICES ASSUME NEW i \in 1..Len(r), NEW j \in 1..Len(r), r[i].addr = r[j].addr
             PROVE  i = j
  BY DEF Distinct, r
<1>2. /\ i \in 1..(Len(t)-1) /\ j \in 1..(Len(t)-1)
      /\ i \in 1..Len(t) /\ j \in 1..Len(t) /\ Len(t) \in 1..Len(t)
      /\ i # Len(t) /\ j # Len(t)
  BY <1>1
<1>3. PICK m \in 1..Len(t) : m = (IF i = k THEN Len(t) ELSE i) /\ r[i] = t[m]
  BY <1>1, <1>2
<1>4. PICK n \in 1..Len(t) : n = (IF j = k THEN Len(t) ELSE j) /\ r[j] = t[n]
  BY <1>1, <1>2
<1>5. m = n
  BY <1>3, <1>4 DEF Distinct
<1> QED BY <1>2, <1>3, <1>4, <1>5

(* The table a guess is counted in: it has the guesser's entry or is full, *)
(* and only the entry the guess is counted at may be unused.               *)
LEMMA TableForResult ==
    ASSUME TableInv, NEW a \in Addrs
    PROVE  /\ TableFor(a) \in Seq(Record)
           /\ Len(TableFor(a)) <= MaxClients
           /\ Distinct(TableFor(a))
           /\ IndexFor(a) \in 1..Len(TableFor(a))
           /\ \A i \in 1..Len(TableFor(a)) :
                 /\ TableFor(a)[i].attempts \in 0..(MaxAttempts - 1)
                 /\ i # IndexFor(a) => TableFor(a)[i].attempts # 0
<1>1. /\ clients \in Seq(Record) /\ Len(clients) \in Nat /\ Distinct(clients)
      /\ Len(clients) <= MaxClients
      /\ MaxClients \in Nat \ {0} /\ MaxAttempts \in Nat \ {0}
  BY LotteryServerAssumption, LenProperties
     DEF TableInv, TypeOK, OneEntryEach, Distinct
<1>2. \A i \in 1..Len(clients) : clients[i].attempts \in 1..(MaxAttempts - 1)
  BY DEF TableInv, AttemptsInRange
<1>3. CASE FindClient(clients, a) # 0
  <2>1. TableFor(a) = clients /\ IndexFor(a) = FindClient(clients, a)
    BY <1>3 DEF TableFor, IndexFor
  <2>2. FindClient(clients, a) \in 1..Len(clients)
    BY <1>1, <1>3, FindClientResult
  <2> QED BY <1>1, <1>2, <2>1, <2>2
<1>4. CASE FindClient(clients, a) = 0 /\ Len(clients) >= MaxClients
  <2>1. TableFor(a) = clients /\ IndexFor(a) = Len(clients)
    BY <1>1, <1>4 DEF TableFor, IndexFor, AddClient
  <2> QED BY <1>1, <1>2, <1>4, <2>1
<1>5. CASE FindClient(clients, a) = 0 /\ Len(clients) < MaxClients
  <2> DEFINE new == [addr |-> a, attempts |-> 0]
  <2>1. new \in Record
    BY DEF Record
  <2>2. TableFor(a) = Append(clients, new) /\ IndexFor(a) = Len(TableFor(a))
    BY <1>5 DEF TableFor, IndexFor, AddClient
  <2>3. /\ TableFor(a) \in Seq(Record)
        /\ Len(TableFor(a)) = Len(clients) + 1
        /\ \A i \in 1..Len(clients) : TableFor(a)[i] = clients[i]
        /\ TableFor(a)[Len(clients) + 1] = new
    BY <1>1, <2>1, <2>2, AppendProperties
  <2>4. \A i \in 1..Len(clients) : clients[i].addr # a
    BY <1>1, <1>5, FindClientResult
  <2>5. Distinct(TableFor(a))
    BY <1>1, <2>3, <2>4 DEF Distinct
  <2> QED BY <1>1, <1>2, <1>5, <2>2, <2>3, <2>5
<1> QED BY <1>1, <1>3, <1>4, <1>5

(* Counting a guess changes one count and nothing else. *)
LEMMA CountedResult ==
    ASSUME TableInv, NEW a \in Addrs
    PROVE  /\ Counted(a) \in Seq(Record)
           /\ Len(Counted(a)) = Len(TableFor(a))
           /\ Distinct(Counted(a))
           /\ \A i \in 1..Len(TableFor(a)) :
                 /\ Counted(a)[i].addr = TableFor(a)[i].addr
                 /\ Counted(a)[i].attempts = TableFor(a)[i].attempts
                                             + (IF i = IndexFor(a) THEN 1 ELSE 0)
                 /\ i # IndexFor(a) => Counted(a)[i].attempts \in 1..(MaxAttempts - 1)
                 /\ i = IndexFor(a) => Counted(a)[i].attempts \in 1..MaxAttempts
<1> DEFINE t == TableFor(a)
           k == IndexFor(a)
           e == [t[k] EXCEPT !.attempts = @ + 1]
<1>1. /\ t \in Seq(Record) /\ Len(t) \in Nat /\ k \in 1..Len(t) /\ Distinct(t)
      /\ \A i \in 1..Len(t) : /\ t[i].attempts \in 0..(MaxAttempts - 1)
                              /\ i # k => t[i].attempts # 0
      /\ MaxAttempts \in Nat \ {0}
  BY TableForResult, LenProperties, LotteryServerAssumption
<1>2. t[k] \in Record
  BY <1>1, ElementOfSeq
<1>3. e \in Record /\ e.addr = t[k].addr /\ e.attempts = t[k].attempts + 1
  BY <1>2 DEF Record
<1>4. Counted(a) = [t EXCEPT ![k] = e]
  BY DEF Counted
<1>5. /\ Counted(a) \in Seq(Record)
      /\ Len(Counted(a)) = Len(t)
      /\ \A j \in 1..Len(t) : Counted(a)[j] = IF j = k THEN e ELSE t[j]
  BY <1>1, <1>3, <1>4, ExceptSeq
<1>6. \A i \in 1..Len(t) :
         /\ Counted(a)[i].addr = t[i].addr
         /\ Counted(a)[i].attempts = t[i].attempts + (IF i = k THEN 1 ELSE 0)
  <2> TAKE i \in 1..Len(t)
  <2> HIDE DEF e
  <2>1. t[i].attempts \in Int
    BY <1>1
  <2>2. CASE i = k
    BY <1>3, <1>5, <2>2
  <2>3. CASE i # k
    BY <1>5, <2>1, <2>3
  <2> QED BY <2>2, <2>3
<1>7. Distinct(Counted(a))
  BY <1>1, <1>5, <1>6 DEF Distinct
<1> QED BY <1>1, <1>5, <1>6, <1>7

-----------------------------------------------------------------------------
(* The table invariant. *)

LEMMA InitTableInv == Init => TableInv
<1> SUFFICES ASSUME Init PROVE TableInv
  OBVIOUS
<1>1. TypeOK
  BY EmptySeq, LotteryServerAssumption DEF Init, TypeOK, NoReply, Drawn
<1>2. OneEntryEach /\ AttemptsInRange
  BY EmptySeq DEF Init, OneEntryEach, AttemptsInRange
<1> QED BY <1>1, <1>2 DEF TableInv

(* What a turn of the loop leaves in the table. *)
LEMMA ServeTable ==
    ASSUME TableInv, NEW a \in Addrs, NEW g \in Guesses, Serve(a, g)
    PROVE  /\ clients' \in Seq(Record)
           /\ Len(clients') <= MaxClients
           /\ Distinct(clients')
           /\ \A i \in 1..Len(clients') : clients'[i].attempts \in 1..(MaxAttempts - 1)
<1> DEFINE c == Counted(a)
           k == IndexFor(a)
           v == Judge(g, c[k].attempts)
<1>1. /\ c \in Seq(Record) /\ Len(c) \in Nat /\ Len(c) <= MaxClients
      /\ k \in 1..Len(c) /\ Distinct(c)
      /\ MaxClients \in Nat /\ MaxAttempts \in Nat
  BY TableForResult, CountedResult, LenProperties, LotteryServerAssumption
<1>2. \A i \in 1..Len(c) :
         /\ i # k => c[i].attempts \in 1..(MaxAttempts - 1)
         /\ i = k => c[i].attempts \in 1..MaxAttempts
  BY CountedResult
<1>3. CASE v = "retry"
  <2>1. clients' = c
    BY <1>3 DEF Serve
  <2>2. c[k].attempts < MaxAttempts
    BY <1>1, <1>2, <1>3 DEF Judge
  <2> QED BY <1>1, <1>2, <2>1, <2>2
<1>4. CASE v # "retry"
  <2>1. clients' = RemoveClient(c, k)
    BY <1>4 DEF Serve
  <2> DEFINE r == RemoveClient(c, k)
  <2>2. /\ r \in Seq(Record)
        /\ Len(r) = Len(c) - 1
        /\ \A j \in 1..(Len(c)-1) : r[j] = IF j = k THEN c[Len(c)] ELSE c[j]
    BY <1>1, RemoveClientResult
  <2>3. Distinct(r)
    BY <1>1, RemovalKeepsDistinct
  <2> HIDE DEF r
  <2>4. \A j \in 1..Len(r) : r[j].attempts \in 1..(MaxAttempts - 1)
    <3> HIDE DEF c, k
    <3> SUFFICES ASSUME NEW j \in 1..(Len(c)-1)
                 PROVE  r[j].attempts \in 1..(MaxAttempts - 1)
      BY <1>1, <2>2
    <3>1. CASE j = k
      BY <1>1, <1>2, <2>2, <3>1
    <3>2. CASE j # k
      BY <1>1, <1>2, <2>2, <3>2
    <3> QED BY <3>1, <3>2
  <2> QED BY <1>1, <2>1, <2>2, <2>3, <2>4 DEF r
<1> QED BY <1>3, <1>4

LEMMA NextTableInv == TableInv /\ [Next]_serverVars => TableInv'
<1> SUFFICES ASSUME TableInv, [Next]_serverVars PROVE TableInv'
  OBVIOUS
<1>1. ASSUME NEW a \in Addrs, NEW g \in Guesses, Serve(a, g) PROVE TableInv'
  <2>1. secret' \in Secrets
    BY <1>1 DEF TableInv, TypeOK, Serve
  <2>2. reply' \in [to : Addrs, verdict : Verdicts]
    BY <1>1 DEF Serve, Judge, Verdicts
  <2>3. TypeOK'
    BY <1>1, <2>1, <2>2, ServeTable DEF TypeOK
  <2>4. OneEntryEach' /\ AttemptsInRange'
    BY <1>1, ServeTable DEF OneEntryEach, AttemptsInRange, Distinct
  <2> QED BY <2>3, <2>4 DEF TableInv
<1>2. CASE Reboot
  <2>1. TypeOK'
    BY <1>2, EmptySeq, LotteryServerAssumption DEF Reboot, TypeOK, NoReply, Drawn
  <2>2. OneEntryEach' /\ AttemptsInRange'
    BY <1>2, EmptySeq DEF Reboot, OneEntryEach, AttemptsInRange
  <2> QED BY <2>1, <2>2 DEF TableInv
<1>3. CASE UNCHANGED serverVars
  BY <1>3 DEF TableInv, TypeOK, OneEntryEach, AttemptsInRange, serverVars
<1> QED BY <1>1, <1>2, <1>3 DEF Next

(* The table of the lottery server is well formed whatever datagrams       *)
(* arrive, also when it is full: lottery_server.c never lets an address    *)
(* own two entries and never keeps an entry that is used up.               *)
THEOREM TableSafe == Spec => []TableInv
<1> QED BY InitTableInv, NextTableInv, PTL DEF Spec

(* Type correctness, as a consequence. *)
THEOREM TypeCorrect == Spec => []TypeOK
<1>1. TableInv => TypeOK
  BY DEF TableInv
<1> QED BY <1>1, TableSafe, PTL

(* No address owns two entries. *)
THEOREM NoDuplicateEntry == Spec => []OneEntryEach
<1>1. TableInv => OneEntryEach
  BY DEF TableInv
<1> QED BY <1>1, TableSafe, PTL

(* No entry is unused or used up between two datagrams. *)
THEOREM NoSpentEntry == Spec => []AttemptsInRange
<1>1. TableInv => AttemptsInRange
  BY DEF TableInv
<1> QED BY <1>1, TableSafe, PTL

-----------------------------------------------------------------------------
(* The server implements LotteryRules as long as its table has room. *)

(* The count a table holds for an address: AttemptsOf(a) for clients. *)
Count(t, a) == IF FindClient(t, a) = 0 THEN 0 ELSE t[FindClient(t, a)].attempts

LEMMA CountOfEntry ==
    ASSUME NEW t \in Seq(Record), Distinct(t), NEW i \in 1..Len(t)
    PROVE  Count(t, t[i].addr) = t[i].attempts
<1>1. Len(t) \in Nat
  BY LenProperties
<1>2. FindClient(t, t[i].addr) = i
  BY FindClientResult
<1> QED BY <1>1, <1>2 DEF Count

LEMMA CountOfAbsent ==
    ASSUME NEW t \in Seq(Record), Distinct(t), NEW a,
           \A i \in 1..Len(t) : t[i].addr # a
    PROVE  Count(t, a) = 0
  BY FindClientResult DEF Count

(* A new address never meets a full table: by the pigeonhole principle the *)
(* addresses in it are fewer than all addresses.                           *)
LEMMA NewcomerFits ==
    ASSUME TableInv, RoomForAll, NEW a \in Addrs,
           \A i \in 1..Len(clients) : clients[i].addr # a
    PROVE  Len(clients) < MaxClients
<1> DEFINE n == Len(clients)
           f == [i \in 1..n |-> clients[i].addr]
<1>1. clients \in Seq(Record) /\ n \in Nat /\ MaxClients \in Nat
  BY LenProperties, LotteryServerAssumption DEF TableInv, TypeOK
<1>2. \A i \in 1..n : clients[i].addr \in Addrs \ {a}
  <2> SUFFICES ASSUME NEW i \in 1..n PROVE clients[i].addr \in Addrs \ {a}
    OBVIOUS
  <2>1. clients[i] \in Record
    BY <1>1, ElementOfSeq
  <2> QED BY <2>1 DEF Record
<1>3. f \in Injection(1..n, Addrs \ {a})
  BY <1>2 DEF TableInv, OneEntryEach, Injection, IsInjective
<1>4. /\ IsFiniteSet(Addrs \ {a})
      /\ Cardinality(Addrs \ {a}) = Cardinality(Addrs) - 1
      /\ Cardinality(Addrs) \in Nat
  BY FS_RemoveElement, FS_CardinalityType DEF RoomForAll
<1>5. Cardinality(1..n) <= Cardinality(Addrs \ {a})
  <2> HIDE DEF f
  <2> QED BY <1>3, <1>4, FS_Injection
<1>6. Cardinality(1..n) = n
  <2>1. Cardinality(1..n) = IF 1 > n THEN 0 ELSE n - 1 + 1
    BY <1>1, FS_Interval
  <2> QED BY <1>1, <2>1
<1> QED BY <1>1, <1>4, <1>5, <1>6 DEF RoomForAll

(* With room, the entry a guess is counted at belongs to the guesser, and  *)
(* no other count changes.                                                 *)
LEMMA CountedAtOwn ==
    ASSUME TableInv, RoomForAll, NEW a \in Addrs
    PROVE  /\ Counted(a)[IndexFor(a)].addr = a
           /\ Counted(a)[IndexFor(a)].attempts = AttemptsOf(a) + 1
           /\ \A b \in Addrs \ {a} : Count(Counted(a), b) = AttemptsOf(b)
           /\ AttemptsOf(a) \in Nat
<1> DEFINE t == TableFor(a)
           k == IndexFor(a)
           c == Counted(a)
<1>1. /\ clients \in Seq(Record) /\ Len(clients) \in Nat /\ Distinct(clients)
      /\ \A b : AttemptsOf(b) = Count(clients, b)
  BY LenProperties DEF TableInv, TypeOK, OneEntryEach, Distinct, AttemptsOf, Count
<1>2. /\ c \in Seq(Record) /\ Len(c) = Len(t) /\ Distinct(c) /\ k \in 1..Len(t)
      /\ \A i \in 1..Len(t) :
            /\ c[i].addr = t[i].addr
            /\ c[i].attempts = t[i].attempts + (IF i = k THEN 1 ELSE 0)
            /\ t[i].attempts \in Nat
  BY CountedResult, TableForResult, LotteryServerAssumption
<1>3. CASE \E i \in 1..Len(clients) : clients[i].addr = a
  <2>1. PICK i \in 1..Len(clients) : clients[i].addr = a
    BY <1>3
  <2>2. FindClient(clients, a) = i /\ i # 0
    BY <1>1, <2>1, FindClientResult
  <2>3. t = clients /\ k = i
    BY <2>2 DEF TableFor, IndexFor
  <2>4. AttemptsOf(a) = clients[i].attempts
    BY <1>1, <2>1, CountOfEntry
  <2>5. c[k].addr = a /\ c[k].attempts = AttemptsOf(a) + 1 /\ AttemptsOf(a) \in Nat
    BY <1>2, <2>1, <2>3, <2>4
  <2>6. ASSUME NEW b \in Addrs \ {a} PROVE Count(c, b) = AttemptsOf(b)
    <3>1. CASE \E j \in 1..Len(clients) : clients[j].addr = b
      <4>1. PICK j \in 1..Len(clients) : clients[j].addr = b
        BY <3>1
      <4>2. j # k /\ j \in 1..Len(c) /\ c[j].addr = b /\ c[j].attempts = clients[j].attempts
        BY <1>2, <2>1, <2>3, <4>1
      <4> HIDE DEF c
      <4>3. Count(c, b) = c[j].attempts
        BY <1>2, <4>2, CountOfEntry
      <4>4. Count(clients, b) = clients[j].attempts
        BY <1>1, <4>1, CountOfEntry
      <4> QED BY <1>1, <4>2, <4>3, <4>4
    <3>2. CASE \A j \in 1..Len(clients) : clients[j].addr # b
      <4>1. \A j \in 1..Len(c) : c[j].addr # b
        BY <1>2, <2>3, <3>2
      <4> HIDE DEF c
      <4> QED BY <1>1, <1>2, <3>2, <4>1, CountOfAbsent
    <3> QED BY <3>1, <3>2
  <2> QED BY <2>5, <2>6
<1>4. CASE \A i \in 1..Len(clients) : clients[i].addr # a
  <2> DEFINE new == [addr |-> a, attempts |-> 0]
  <2>1. FindClient(clients, a) = 0 /\ Len(clients) < MaxClients /\ AttemptsOf(a) = 0
    BY <1>1, <1>4, FindClientResult, NewcomerFits, CountOfAbsent
  <2>2. t = Append(clients, new) /\ k = Len(t)
    BY <2>1 DEF TableFor, IndexFor, AddClient
  <2>3. /\ Len(t) = Len(clients) + 1
        /\ t[Len(clients) + 1] = new
        /\ \A i \in 1..Len(clients) : t[i] = clients[i]
    <3>1. new \in Record
      BY DEF Record
    <3> QED BY <1>1, <2>2, <3>1, AppendProperties
  <2>4. c[k].addr = a /\ c[k].attempts = AttemptsOf(a) + 1
    BY <1>2, <2>1, <2>2, <2>3
  <2>5. ASSUME NEW b \in Addrs \ {a} PROVE Count(c, b) = AttemptsOf(b)
    <3>1. CASE \E j \in 1..Len(clients) : clients[j].addr = b
      <4>1. PICK j \in 1..Len(clients) : clients[j].addr = b
        BY <3>1
      <4>2. j # k /\ j \in 1..Len(c) /\ c[j].addr = b /\ c[j].attempts = clients[j].attempts
        BY <1>1, <1>2, <2>2, <2>3, <4>1
      <4> HIDE DEF c
      <4>3. Count(c, b) = c[j].attempts
        BY <1>2, <4>2, CountOfEntry
      <4>4. Count(clients, b) = clients[j].attempts
        BY <1>1, <4>1, CountOfEntry
      <4> QED BY <1>1, <4>2, <4>3, <4>4
    <3>2. CASE \A j \in 1..Len(clients) : clients[j].addr # b
      <4>1. \A j \in 1..Len(c) : c[j].addr # b
        BY <1>1, <1>2, <2>2, <2>3, <3>2
      <4> HIDE DEF c
      <4> QED BY <1>1, <1>2, <3>2, <4>1, CountOfAbsent
    <3> QED BY <3>1, <3>2
  <2> QED BY <2>1, <2>4, <2>5
<1> QED BY <1>3, <1>4

(* What one turn of the loop does to the counts, with room for everybody. *)
LEMMA ServeCounts ==
    ASSUME TableInv, RoomForAll, NEW a \in Addrs, NEW g \in Guesses, Serve(a, g)
    PROVE  LET v == Judge(g, AttemptsOf(a) + 1)
           IN  /\ reply' = [to |-> a, verdict |-> v]
               /\ AttemptsOf(a)' = IF v = "retry" THEN AttemptsOf(a) + 1 ELSE 0
               /\ \A b \in Addrs \ {a} : AttemptsOf(b)' = AttemptsOf(b)
<1> DEFINE c == Counted(a)
           k == IndexFor(a)
           v == Judge(g, AttemptsOf(a) + 1)
           r == RemoveClient(c, k)
<1>1. /\ c \in Seq(Record) /\ Len(c) \in Nat /\ Distinct(c) /\ k \in 1..Len(c)
  BY CountedResult, TableForResult, LenProperties
<1>2. /\ c[k].addr = a /\ c[k].attempts = AttemptsOf(a) + 1
      /\ \A b \in Addrs \ {a} : Count(c, b) = AttemptsOf(b)
  BY CountedAtOwn
<1>3. \A b : AttemptsOf(b)' = Count(clients', b)
  BY DEF AttemptsOf, Count
<1>4. reply' = [to |-> a, verdict |-> v] /\ clients' = IF v = "retry" THEN c ELSE r
  BY <1>2 DEF Serve
<1>5. CASE v = "retry"
  <2>1. clients' = c
    BY <1>4, <1>5
  <2> HIDE DEF c, v
  <2>2. Count(c, a) = AttemptsOf(a) + 1
    BY <1>1, <1>2, CountOfEntry
  <2> QED BY <1>2, <1>3, <1>4, <1>5, <2>1, <2>2 DEF v
<1>6. CASE v # "retry"
  <2>1. clients' = r
    BY <1>4, <1>6
  <2>2. /\ r \in Seq(Record)
        /\ Len(r) = Len(c) - 1
        /\ \A j \in 1..(Len(c)-1) : r[j] = IF j = k THEN c[Len(c)] ELSE c[j]
    BY <1>1, RemoveClientResult
  <2>3. Distinct(r)
    BY <1>1, RemovalKeepsDistinct
  <2> HIDE DEF r, c, k, v
  <2>4. ASSUME NEW j \in 1..Len(r) PROVE r[j].addr # a
    <3>1. \A i \in 1..Len(c) : c[i].addr = a => i = k
      BY <1>1, <1>2 DEF Distinct
    <3>2. j \in 1..Len(c) /\ j # Len(c) /\ Len(c) \in 1..Len(c)
      BY <1>1, <2>2
    <3>3. r[j] = IF j = k THEN c[Len(c)] ELSE c[j]
      BY <1>1, <2>2
    <3> QED BY <3>1, <3>2, <3>3
  <2>5. Count(r, a) = 0
    BY <2>2, <2>3, <2>4, CountOfAbsent
  <2>6. ASSUME NEW b \in Addrs \ {a} PROVE Count(r, b) = Count(c, b)
    <3>1. CASE \E i \in 1..Len(c) : c[i].addr = b
      <4>1. PICK i \in 1..Len(c) : c[i].addr = b
        BY <3>1
      <4>2. i # k
        BY <1>2, <4>1
      <4>3. \E j \in 1..Len(r) : r[j] = c[i]
        <5>1. CASE i = Len(c)
          BY <1>1, <2>2, <4>2, <5>1
        <5>2. CASE i # Len(c)
          BY <1>1, <2>2, <4>2, <5>2
        <5> QED BY <5>1, <5>2
      <4>4. PICK j \in 1..Len(r) : r[j] = c[i]
        BY <4>3
      <4>5. Count(r, b) = r[j].attempts
        BY <2>2, <2>3, <4>1, <4>4, CountOfEntry
      <4>6. Count(c, b) = c[i].attempts
        BY <1>1, <4>1, CountOfEntry
      <4> QED BY <4>4, <4>5, <4>6
    <3>2. CASE \A i \in 1..Len(c) : c[i].addr # b
      <4>1. \A j \in 1..Len(r) : r[j].addr # b
        BY <1>1, <2>2, <3>2
      <4>2. Count(r, b) = 0
        BY <2>2, <2>3, <4>1, CountOfAbsent
      <4>3. Count(c, b) = 0
        BY <1>1, <3>2, CountOfAbsent
      <4> QED BY <4>2, <4>3
    <3> QED BY <3>1, <3>2
  <2> QED BY <1>2, <1>3, <1>4, <1>6, <2>1, <2>5, <2>6 DEF v
<1> QED BY <1>5, <1>6

LEMMA RulesInit == Init => Rules!Init
<1> SUFFICES ASSUME Init PROVE Rules!Init
  OBVIOUS
<1>1. \A a \in Addrs : AttemptsOf(a) = 0
  BY EmptySeq DEF Init, AttemptsOf, FindClient
<1> QED BY <1>1 DEF Init, Drawn, Rules!Init, Rules!NothingYet, NoReply

LEMMA RulesStep ==
    ASSUME TableInv, RoomForAll, [Next]_serverVars
    PROVE  [Rules!Next]_(Rules!rulesVars)
<1> DEFINE misses == [x \in Addrs |-> AttemptsOf(x)]
<1>1. ASSUME NEW a \in Addrs, NEW g \in Guesses, Serve(a, g)
      PROVE  Rules!Win(a, g) \/ Rules!Retry(a, g) \/ Rules!Lose(a, g)
  <2> DEFINE v == Judge(g, AttemptsOf(a) + 1)
  <2>1. /\ reply' = [to |-> a, verdict |-> v]
        /\ AttemptsOf(a)' = IF v = "retry" THEN AttemptsOf(a) + 1 ELSE 0
        /\ \A b \in Addrs \ {a} : AttemptsOf(b)' = AttemptsOf(b)
    BY <1>1, ServeCounts
  <2>2. UNCHANGED secret
    BY <1>1 DEF Serve
  <2>3. misses[a] = AttemptsOf(a)
    OBVIOUS
  <2>4. misses' = [misses EXCEPT ![a] = IF v = "retry" THEN AttemptsOf(a) + 1 ELSE 0]
    <3> HIDE DEF v
    <3> QED BY <2>1
  <2>5. AttemptsOf(a) + 1 \in Int /\ MaxAttempts \in Int
    BY CountedAtOwn, LotteryServerAssumption
  <2>6. CASE g = secret
    <3>1. v = "win"
      BY <2>6 DEF Judge
    <3>2. Rules!Win(a, g)
      BY <2>1, <2>2, <2>4, <2>6, <3>1 DEF Rules!Win
    <3> QED BY <3>2
  <2>7. CASE g # secret /\ AttemptsOf(a) + 1 >= MaxAttempts
    <3>1. v = "lose"
      BY <2>7 DEF Judge
    <3>2. Rules!Lose(a, g)
      BY <2>1, <2>2, <2>3, <2>4, <2>7, <3>1 DEF Rules!Lose
    <3> QED BY <3>2
  <2>8. CASE g # secret /\ ~(AttemptsOf(a) + 1 >= MaxAttempts)
    <3>1. v = "retry"
      BY <2>8 DEF Judge
    <3>2. Rules!Retry(a, g)
      BY <2>1, <2>2, <2>3, <2>4, <2>5, <2>8, <3>1 DEF Rules!Retry
    <3> QED BY <3>2
  <2> QED BY <2>6, <2>7, <2>8
<1>2. CASE Reboot
  <2>1. \A a \in Addrs : AttemptsOf(a)' = 0
    BY <1>2, EmptySeq DEF Reboot, AttemptsOf, FindClient
  <2>2. Rules!NewHouse
    BY <1>2, <2>1 DEF Reboot, Drawn, Rules!NewHouse, Rules!NothingYet, NoReply
  <2> QED BY <2>2 DEF Rules!Next
<1>3. CASE UNCHANGED serverVars
  <2>1. clients' = clients /\ secret' = secret /\ reply' = reply
    BY <1>3 DEF serverVars
  <2>2. \A a \in Addrs : AttemptsOf(a)' = AttemptsOf(a)
    BY <2>1 DEF AttemptsOf, FindClient
  <2> QED BY <2>1, <2>2 DEF Rules!rulesVars
<1> QED BY <1>1, <1>2, <1>3 DEF Next, Rules!Next

(* With an entry to spare for every address, lottery_server.c implements   *)
(* the lottery of LotteryRules: every player has a count of its own that   *)
(* nobody else's guesses, wins or losses ever touch, although remove_client *)
(* moves the entries about.                                                *)
THEOREM ServerImplementsRules == RoomForAll => (Spec => PlaysByTheRules)
<1> SUFFICES ASSUME RoomForAll PROVE Spec => PlaysByTheRules
  OBVIOUS
<1>1. Init => Rules!Init
  BY RulesInit
<1>2. TableInv /\ [Next]_serverVars => [Rules!Next]_(Rules!rulesVars)
  BY RulesStep
<1> QED BY <1>1, <1>2, TableSafe, PTL DEF Spec, PlaysByTheRules, Rules!Spec

-----------------------------------------------------------------------------
(* The server with its clients: the inductive invariant, in parts. *)

Datagram == [from : Addrs, guess : Guesses]

Places == {"off", "prompt", "wait", "done", "killed"}

Shapes ==
    /\ inbox \in Seq(Datagram)
    /\ mail \in [Addrs -> Seq(Verdicts)]
    /\ pc \in [Addrs -> Places]
    /\ sent \in [Addrs -> Nat]
    /\ told \in [Addrs -> Verdicts \cup {"none"}]
    /\ runs \in [Addrs -> Nat]
    /\ restarts \in Nat
    /\ haunted \subseteq Addrs

(* The client's loop: it prints only when it waits, and comes back to the  *)
(* prompt while it has tries left.                                         *)
Looping(a) ==
    /\ pc[a] = "off" => runs[a] = 0
    /\ pc[a] # "off" => runs[a] > 0
    /\ pc[a] = "killed" => a \in haunted
    /\ pc[a] = "prompt" => sent[a] < Tries
    /\ pc[a] = "wait" => sent[a] \in 1..Tries
    /\ pc[a] \in {"off", "prompt", "wait"} => told[a] \in {"none", "retry"}

(* What is under way from and to an address. *)
Asks(a) == \E i \in 1..Len(inbox) : inbox[i].from = a

AskedOnce(a) ==
    \A i, j \in 1..Len(inbox) : inbox[i].from = a /\ inbox[j].from = a => i = j

OneUnderWay(a) ==
    IF pc[a] = "wait"
    THEN /\ AskedOnce(a)
         /\ Len(mail[a]) <= 1
         /\ mail[a] # << >> => ~Asks(a)
         /\ a \in lost <=> ~Asks(a) /\ mail[a] = << >>
    ELSE ~Asks(a) /\ mail[a] = << >>

Quiet == \A a \in Undisturbed : OneUnderWay(a)

(* The count of the server against that of the client, as long as the      *)
(* server has not restarted.                                               *)
Agrees(a) ==
    /\ pc[a] \in {"off", "done"} => AttemptsOf(a) = 0
    /\ pc[a] = "prompt" => AttemptsOf(a) = sent[a]
    /\ pc[a] = "wait" =>
          AttemptsOf(a) = IF mail[a] = << >> THEN sent[a] - 1
                          ELSE IF mail[a][1] = "retry" THEN sent[a] ELSE 0
    /\ pc[a] = "done" => told[a] \in {"win", "lose"}

(* In the first game at an address the server never counts too much, and   *)
(* nobody loses before the last try.                                       *)
NeverAhead(a) ==
    /\ pc[a] = "off" => AttemptsOf(a) = 0
    /\ pc[a] = "prompt" => AttemptsOf(a) <= sent[a]
    /\ pc[a] = "wait" /\ mail[a] = << >> => AttemptsOf(a) <= sent[a] - 1
    /\ pc[a] = "wait" /\ mail[a] # << >> =>
          /\ mail[a][1] = "retry" => AttemptsOf(a) <= sent[a]
          /\ mail[a][1] = "lose" => sent[a] = Tries
    /\ told[a] = "lose" => sent[a] = Tries

Fair(a) ==
    /\ restarts = 0 => Agrees(a)
    /\ restarts = 0 \/ runs[a] <= 1 => NeverAhead(a)

SocketInv == TableInv /\ Shapes /\ (\A a \in Addrs : Looping(a)) /\ Quiet

GameInv == \A a \in Undisturbed : Fair(a)

-----------------------------------------------------------------------------
(* The sockets. *)

(* What the server reads is a datagram of somebody's. *)
LEMMA ServerStepResult ==
    ASSUME Shapes, ServerStep
    PROVE  \E b \in Addrs, g \in Guesses :
              /\ Serve(b, g)
              /\ Len(inbox) \in Nat \ {0} /\ inbox[1].from = b
              /\ mail' = Mailed(b, reply'.verdict)
              /\ reply'.verdict \in Verdicts
              /\ inbox' \in Seq(Datagram)
              /\ Len(inbox') = Len(inbox) - 1
              /\ \A i \in 1..Len(inbox') : inbox'[i] = inbox[i+1]
              /\ UNCHANGED <<pc, sent, told, runs, restarts, haunted, lost>>
<1>1. inbox \in Seq(Datagram) /\ inbox # << >>
  BY DEF Shapes, ServerStep
<1>2. /\ Len(inbox) \in Nat \ {0} /\ Head(inbox) = inbox[1]
      /\ Tail(inbox) \in Seq(Datagram)
      /\ Len(Tail(inbox)) = Len(inbox) - 1
      /\ \A i \in 1..Len(Tail(inbox)) : Tail(inbox)[i] = inbox[i+1]
  BY <1>1, LenProperties, EmptySeq, HeadTailProperties
<1>3. inbox[1] \in Datagram
  BY <1>1, <1>2, ElementOfSeq
<1>4. Serve(inbox[1].from, inbox[1].guess) /\ mail' = Mailed(inbox[1].from, reply'.verdict)
  BY <1>2 DEF ServerStep
<1>5. reply'.verdict \in Verdicts
  BY <1>4 DEF Serve, Judge, Verdicts
<1> QED
  BY <1>2, <1>3, <1>4, <1>5 DEF ServerStep, Datagram

(* Every step of the lottery is a step, or none, of the server. *)
LEMMA ServerSees ==
    ASSUME Shapes, [LotteryNext]_lotteryVars
    PROVE  [Next]_serverVars
<1>1. CASE ServerStep
  BY <1>1, ServerStepResult DEF Next
<1>2. CASE ServerRestart
  BY <1>2 DEF ServerRestart, Next
<1> QED
  BY <1>1, <1>2 DEF LotteryNext, lotteryVars, serverVars, Start, Receive, Kill, Send

LEMMA InitSocketInv == LotteryInit => SocketInv
<1> SUFFICES ASSUME LotteryInit PROVE SocketInv
  OBVIOUS
<1>1. TableInv
  BY InitTableInv DEF LotteryInit
<1>2. Len(inbox) = 0 /\ Shapes
  BY EmptySeq DEF LotteryInit, Shapes, Places
<1>3. \A a \in Addrs : Looping(a)
  BY DEF LotteryInit, Looping
<1>4. Quiet
  BY <1>2 DEF LotteryInit, Quiet, Undisturbed, OneUnderWay, Asks
<1> QED BY <1>1, <1>2, <1>3, <1>4 DEF SocketInv

LEMMA StartKeepsSockets ==
    ASSUME SocketInv, NEW b \in Addrs, Start(b)
    PROVE  Shapes' /\ (\A a \in Addrs : Looping(a)') /\ Quiet'
<1>1. /\ Shapes /\ \A a \in Addrs : Looping(a)
      /\ \A a \in Undisturbed : OneUnderWay(a)
      /\ Tries \in Nat \ {0}
  BY LotteryAssumption DEF SocketInv, Quiet
<1>2. Shapes'
  BY <1>1, EmptySeq DEF Shapes, Start, Places
<1>3. \A a \in Addrs : Looping(a)'
  BY <1>1 DEF Shapes, Start, Looping
<1>4. Quiet'
  <2>1. /\ inbox' = inbox /\ haunted' = haunted /\ lost' = lost
        /\ b \notin haunted => ~Asks(b)
        /\ pc'[b] = "prompt" /\ mail'[b] = << >>
        /\ \A a \in Addrs \ {b} : pc'[a] = pc[a] /\ mail'[a] = mail[a]
    BY <1>1 DEF Shapes, Start, Looping, Undisturbed, OneUnderWay
  <2>2. ASSUME NEW a \in Addrs, a \notin haunted PROVE OneUnderWay(a)'
    <3>1. CASE a = b
      BY <2>1, <2>2, <3>1 DEF OneUnderWay, Asks
    <3>2. CASE a # b
      BY <1>1, <2>1, <2>2, <3>2 DEF Undisturbed, OneUnderWay, Asks, AskedOnce
    <3> QED BY <3>1, <3>2
  <2> QED BY <2>1, <2>2 DEF Quiet, Undisturbed
<1> QED BY <1>2, <1>3, <1>4

LEMMA SendKeepsSockets ==
    ASSUME SocketInv, NEW b \in Addrs, NEW g \in Guesses, Send(b, g)
    PROVE  Shapes' /\ (\A a \in Addrs : Looping(a)') /\ Quiet'
<1> DEFINE d == [from |-> b, guess |-> g]
<1>1. /\ Shapes /\ \A a \in Addrs : Looping(a)
      /\ \A a \in Undisturbed : OneUnderWay(a)
      /\ Tries \in Nat \ {0} /\ d \in Datagram
  BY LotteryAssumption DEF SocketInv, Quiet, Datagram
<1>2. /\ pc[b] = "prompt" /\ pc' = [pc EXCEPT ![b] = "wait"]
      /\ sent' = [sent EXCEPT ![b] = @ + 1]
      /\ \/ inbox' = Append(inbox, d) /\ lost' = lost \ {b}
         \/ inbox' = inbox /\ lost' = lost \cup {b}
      /\ UNCHANGED <<mail, told, runs, restarts, haunted>>
  BY DEF Send
<1>3. /\ inbox' \in Seq(Datagram)
      /\ Len(inbox) \in Nat
      /\ \/ inbox' = inbox /\ lost' = lost \cup {b}
         \/ /\ Len(inbox') = Len(inbox) + 1 /\ inbox'[Len(inbox) + 1] = d
            /\ lost' = lost \ {b}
      /\ \A i \in 1..Len(inbox) : inbox'[i] = inbox[i]
  <2> HIDE DEF d
  <2>1. inbox \in Seq(Datagram) /\ Len(inbox) \in Nat
    BY <1>1, LenProperties DEF Shapes
  <2>2. /\ Append(inbox, d) \in Seq(Datagram)
        /\ Len(Append(inbox, d)) = Len(inbox) + 1
        /\ Append(inbox, d)[Len(inbox) + 1] = d
        /\ \A i \in 1..Len(inbox) : Append(inbox, d)[i] = inbox[i]
    BY <1>1, <2>1, AppendProperties
  <2>3. CASE inbox' = inbox /\ lost' = lost \cup {b}
    BY <2>1, <2>3
  <2>4. CASE inbox' = Append(inbox, d) /\ lost' = lost \ {b}
    BY <2>1, <2>2, <2>4
  <2> QED BY <1>2, <2>3, <2>4
<1>4. Shapes'
  BY <1>1, <1>2, <1>3 DEF Shapes, Places
<1>5. \A a \in Addrs : Looping(a)'
  BY <1>1, <1>2 DEF Shapes, Looping
<1>6. ASSUME NEW a \in Addrs, a \notin haunted PROVE OneUnderWay(a)'
  <2>1. CASE a = b
    <3>1. /\ \A i \in 1..Len(inbox) : inbox[i].from # a
          /\ mail[a] = << >> /\ pc'[a] = "wait" /\ mail'[a] = << >>
      BY <1>1, <1>2, <1>6, <2>1 DEF OneUnderWay, Asks, Undisturbed, Shapes
    <3>2. AskedOnce(a)'
      BY <1>3, <3>1 DEF AskedOnce
    <3>3. a \in lost' <=> ~Asks(a)'
      BY <1>3, <2>1, <3>1 DEF Asks
    <3> QED BY <3>1, <3>2, <3>3 DEF OneUnderWay
  <2>2. CASE a # b
    <3>1. /\ pc'[a] = pc[a] /\ mail'[a] = mail[a] /\ d.from # a
          /\ a \in lost' <=> a \in lost
      BY <1>1, <1>2, <2>2 DEF Shapes
    <3>2. OneUnderWay(a)
      BY <1>1, <1>6 DEF Undisturbed
    <3>3. Asks(a)' <=> Asks(a)
      BY <1>3, <3>1 DEF Asks
    <3>4. AskedOnce(a) => AskedOnce(a)'
      BY <1>3, <3>1 DEF AskedOnce
    <3> QED BY <3>1, <3>2, <3>3, <3>4 DEF OneUnderWay
  <2> QED BY <2>1, <2>2
<1> QED BY <1>2, <1>4, <1>5, <1>6 DEF Quiet, Undisturbed

LEMMA ReceiveKeepsSockets ==
    ASSUME SocketInv, NEW b \in Addrs, Receive(b)
    PROVE  Shapes' /\ (\A a \in Addrs : Looping(a)') /\ Quiet'
<1>1. /\ Shapes /\ \A a \in Addrs : Looping(a)
      /\ \A a \in Undisturbed : OneUnderWay(a)
      /\ mail[b] \in Seq(Verdicts) /\ mail[b] # << >>
  BY DEF SocketInv, Quiet, Shapes, Receive
<1>2. /\ Head(mail[b]) \in Verdicts /\ Tail(mail[b]) \in Seq(Verdicts)
      /\ Len(mail[b]) \in Nat \ {0}
      /\ Len(Tail(mail[b])) = Len(mail[b]) - 1
  BY <1>1, HeadTailProperties, LenProperties, EmptySeq
<1>3. /\ pc[b] = "wait"
      /\ told' = [told EXCEPT ![b] = Head(mail[b])]
      /\ mail' = [mail EXCEPT ![b] = Tail(mail[b])]
      /\ pc' = [pc EXCEPT ![b] = IF Head(mail[b]) # "retry" \/ sent[b] = Tries
                                 THEN "done" ELSE "prompt"]
      /\ UNCHANGED <<inbox, sent, runs, restarts, haunted, lost>>
  BY DEF Receive
<1>4. Shapes'
  BY <1>1, <1>2, <1>3 DEF Shapes, Places
<1>5. ASSUME NEW a \in Addrs PROVE Looping(a)'
  <2>1. CASE a = b
    BY <1>1, <1>3, <2>1, LotteryAssumption DEF Shapes, Looping
  <2>2. CASE a # b
    BY <1>1, <1>3, <2>2 DEF Shapes, Looping
  <2> QED BY <2>1, <2>2
<1>6. ASSUME NEW a \in Addrs, a \notin haunted PROVE OneUnderWay(a)'
  <2>1. Asks(a)' <=> Asks(a)
    BY <1>3 DEF Asks
  <2>2. AskedOnce(a)' <=> AskedOnce(a)
    BY <1>3 DEF AskedOnce
  <2>3. CASE a = b
    <3>1. Len(mail[b]) = 1 /\ ~Asks(b)
      <4>1. OneUnderWay(b)
        BY <1>1, <1>6, <2>3 DEF Undisturbed
      <4>2. Len(mail[b]) <= 1 /\ ~Asks(b)
        BY <1>1, <1>3, <4>1 DEF OneUnderWay
      <4>3. \A n \in Nat \ {0} : n <= 1 => n = 1
        OBVIOUS
      <4> QED BY <1>2, <4>2, <4>3
    <3>2. Tail(mail[b]) = << >>
      <4>1. Len(Tail(mail[b])) = 0
        BY <1>2, <3>1
      <4> QED BY <1>2, <4>1, EmptySeq
    <3>3. pc'[b] # "wait" /\ mail'[b] = << >>
      BY <1>1, <1>3, <3>2 DEF Shapes
    <3> QED BY <2>1, <2>3, <3>1, <3>3 DEF OneUnderWay
  <2>4. CASE a # b
    BY <1>1, <1>3, <1>6, <2>1, <2>2, <2>4 DEF OneUnderWay, Undisturbed, Shapes
  <2> QED BY <2>3, <2>4
<1> QED BY <1>3, <1>4, <1>5, <1>6 DEF Quiet, Undisturbed

LEMMA KillKeepsSockets ==
    ASSUME SocketInv, NEW b \in Addrs, Kill(b)
    PROVE  Shapes' /\ (\A a \in Addrs : Looping(a)') /\ Quiet'
<1>1. /\ Shapes /\ \A a \in Addrs : Looping(a)
      /\ \A a \in Undisturbed : OneUnderWay(a)
  BY DEF SocketInv, Quiet
<1>2. /\ pc[b] \in {"prompt", "wait"} /\ pc' = [pc EXCEPT ![b] = "killed"]
      /\ mail' = [mail EXCEPT ![b] = << >>] /\ haunted' = haunted \cup {b}
      /\ UNCHANGED <<inbox, sent, told, runs, restarts, lost>>
  BY DEF Kill
<1>3. Shapes'
  BY <1>1, <1>2, EmptySeq DEF Shapes, Places
<1>4. ASSUME NEW a \in Addrs PROVE Looping(a)'
  BY <1>1, <1>2 DEF Shapes, Looping
<1>5. ASSUME NEW a \in Addrs, a \notin haunted' PROVE OneUnderWay(a)'
  BY <1>1, <1>2, <1>5 DEF OneUnderWay, Undisturbed, Shapes, Asks, AskedOnce
<1> QED BY <1>3, <1>4, <1>5 DEF Quiet, Undisturbed

LEMMA ServerStepKeepsSockets ==
    ASSUME SocketInv, ServerStep
    PROVE  Shapes' /\ (\A a \in Addrs : Looping(a)') /\ Quiet'
<1>1. /\ Shapes /\ \A a \in Addrs : Looping(a)
      /\ \A a \in Undisturbed : OneUnderWay(a)
  BY DEF SocketInv, Quiet
<1>2. PICK b \in Addrs :
         /\ Len(inbox) \in Nat \ {0} /\ inbox[1].from = b
         /\ mail' = Mailed(b, reply'.verdict)
         /\ reply'.verdict \in Verdicts
         /\ inbox' \in Seq(Datagram)
         /\ Len(inbox') = Len(inbox) - 1
         /\ \A i \in 1..Len(inbox') : inbox'[i] = inbox[i+1]
         /\ UNCHANGED <<pc, sent, told, runs, restarts, haunted, lost>>
  BY <1>1, ServerStepResult
<1>3. \A a \in Addrs : mail'[a] \in Seq(Verdicts) /\ (a # b => mail'[a] = mail[a])
  BY <1>1, <1>2 DEF Shapes, Mailed
<1>4. Shapes'
  BY <1>1, <1>2, <1>3 DEF Shapes, Mailed
<1>5. \A a \in Addrs : Looping(a)'
  BY <1>1, <1>2 DEF Looping
<1>6. ASSUME NEW a \in Addrs, a \notin haunted PROVE OneUnderWay(a)'
  <2>1. OneUnderWay(a)
    BY <1>1, <1>6 DEF Undisturbed
  <2>2. Asks(a)' => Asks(a)
    BY <1>2 DEF Asks
  <2>3. AskedOnce(a) => AskedOnce(a)'
    <3> SUFFICES ASSUME AskedOnce(a), NEW i \in 1..Len(inbox'), NEW j \in 1..Len(inbox'),
                        inbox'[i].from = a, inbox'[j].from = a
                 PROVE  i = j
      BY DEF AskedOnce
    <3>1. i + 1 \in 1..Len(inbox) /\ j + 1 \in 1..Len(inbox)
      BY <1>2
    <3>2. inbox[i+1].from = a /\ inbox[j+1].from = a
      BY <1>2
    <3>3. i + 1 = j + 1
      BY <3>1, <3>2 DEF AskedOnce
    <3> QED BY <3>3
  <2>4. CASE a # b
    <3>1. Asks(a) => Asks(a)'
      <4> SUFFICES ASSUME NEW i \in 1..Len(inbox), inbox[i].from = a PROVE Asks(a)'
        BY DEF Asks
      <4>1. i - 1 \in 1..Len(inbox') /\ inbox'[i - 1] = inbox[(i - 1) + 1]
        BY <1>2, <2>4
      <4> QED BY <4>1 DEF Asks
    <3> QED BY <1>2, <1>3, <2>1, <2>2, <2>3, <2>4, <3>1 DEF OneUnderWay
  <2>5. CASE a = b
    <3>1. Asks(a)
      BY <1>2, <2>5 DEF Asks
    <3>2. pc[a] = "wait" /\ mail[a] = << >> /\ AskedOnce(a)
      BY <2>1, <3>1 DEF OneUnderWay
    <3>3. ~Asks(a)'
      BY <1>2, <2>5, <3>2 DEF Asks, AskedOnce
    <3>4. mail'[a] = Append(<< >>, reply'.verdict)
      BY <1>1, <1>2, <2>5, <3>2 DEF Mailed, Open, Shapes
    <3>5. Len(mail'[a]) = 1
      BY <1>2, <3>4, AppendProperties, EmptySeq
    <3>6. a \notin lost' /\ mail'[a] # << >>
      <4>1. a \notin lost
        BY <2>1, <3>1, <3>2 DEF OneUnderWay
      <4>2. lost' = lost
        BY <1>2
      <4>3. \A m : Len(m) = 1 => m # << >>
        <5>1. Len(<< >>) = 0
          BY EmptySeq
        <5> QED BY <5>1
      <4>4. mail'[a] # << >>
        BY <3>5, <4>3
      <4> QED BY <4>1, <4>2, <4>4
    <3> QED BY <1>2, <2>3, <3>2, <3>3, <3>5, <3>6 DEF OneUnderWay
  <2> QED BY <2>4, <2>5
<1> QED BY <1>2, <1>4, <1>5, <1>6 DEF Quiet, Undisturbed

LEMMA RestartKeepsSockets ==
    ASSUME SocketInv, ServerRestart
    PROVE  Shapes' /\ (\A a \in Addrs : Looping(a)') /\ Quiet'
<1>1. /\ inbox' = << >> /\ inbox' \in Seq(Datagram) /\ Len(inbox') = 0
      /\ restarts' = restarts + 1
      /\ UNCHANGED <<mail, pc, sent, told, runs, haunted>>
  BY EmptySeq DEF ServerRestart
<1>2. \A a : ~Asks(a)' /\ AskedOnce(a)'
  BY <1>1 DEF Asks, AskedOnce
<1>3. Shapes' /\ \A a \in Addrs : Looping(a)'
  BY <1>1 DEF SocketInv, Shapes, Looping
<1>4. \A a : a \in lost' <=> a \in lost \/ Asks(a)
  <2>1. DOMAIN inbox = 1..Len(inbox)
    BY LenProperties DEF SocketInv, Shapes
  <2> QED BY <2>1 DEF ServerRestart, Asks
<1> QED
  BY <1>1, <1>2, <1>3, <1>4 DEF SocketInv, Quiet, Undisturbed, OneUnderWay

LEMMA NextSocketInv == SocketInv /\ [LotteryNext]_lotteryVars => SocketInv'
<1> SUFFICES ASSUME SocketInv, [LotteryNext]_lotteryVars PROVE SocketInv'
  OBVIOUS
<1>1. TableInv'
  BY ServerSees, NextTableInv DEF SocketInv
<1>2. CASE UNCHANGED lotteryVars
  BY <1>2 DEF lotteryVars, SocketInv, TableInv, TypeOK, OneEntryEach, AttemptsInRange, Shapes, Looping,
     Quiet, Undisturbed, OneUnderWay, Asks, AskedOnce
<1> QED
  BY <1>1, <1>2, StartKeepsSockets, SendKeepsSockets, ReceiveKeepsSockets, KillKeepsSockets,
     ServerStepKeepsSockets, RestartKeepsSockets DEF LotteryNext, SocketInv

(* The sockets and the processes at their ends stay in step. *)
THEOREM SocketsSound == LotterySpec => []SocketInv
<1> QED BY InitSocketInv, NextSocketInv, PTL DEF LotterySpec

(* The table is well formed also when its server restarts and its clients  *)
(* come and go: what LotteryServer allows is all that happens.             *)
THEOREM LotteryTableSafe == LotterySpec => [](TypeOK /\ OneEntryEach /\ AttemptsInRange)
<1>1. SocketInv => TypeOK /\ OneEntryEach /\ AttemptsInRange
  BY DEF SocketInv, TableInv
<1> QED BY <1>1, SocketsSound, PTL

(* A client that was never killed at its address has exactly one question  *)
(* or answer under way while it waits, none when its guess was lost, and   *)
(* none while its user types, although queues overflow and the server      *)
(* restarts.                                                               *)
THEOREM OneQuestionAtATime == LotterySpec => []OneOutstanding
<1>1. SocketInv => OneOutstanding
  <2> SUFFICES ASSUME SocketInv, NEW a \in Undisturbed
               PROVE  /\ pc[a] = "wait" => Pending(a) = IF a \in lost THEN 0 ELSE 1
                      /\ pc[a] = "prompt" => Pending(a) = 0
    BY DEF OneOutstanding
  <2>1. OneUnderWay(a) /\ inbox \in Seq(Datagram) /\ mail[a] \in Seq(Verdicts)
    BY DEF SocketInv, Quiet, Shapes, Undisturbed
  <2>2. DOMAIN inbox = 1..Len(inbox) /\ Len(mail[a]) \in Nat
    BY <2>1, LenProperties
  <2>3. mail[a] = << >> => Len(mail[a]) = 0
    BY EmptySeq
  <2>4. CASE ~Asks(a)
    <3>1. Queued(a) = {}
      BY <2>2, <2>4 DEF Queued, Asks
    <3>2. Pending(a) = Len(mail[a])
      BY <2>2, <3>1, FS_EmptySet DEF Pending
    <3>3. CASE mail[a] = << >>
      <4>1. Pending(a) = 0 /\ (pc[a] = "wait" => a \in lost)
        BY <2>1, <2>3, <2>4, <3>2, <3>3 DEF OneUnderWay
      <4> QED BY <4>1
    <3>4. CASE mail[a] # << >>
      <4>1. pc[a] = "wait" /\ Len(mail[a]) <= 1 /\ a \notin lost
        BY <2>1, <3>4 DEF OneUnderWay
      <4>2. Len(mail[a]) # 0
        BY <2>1, <3>4, EmptySeq
      <4>3. \A n \in Nat : n <= 1 /\ n # 0 => n = 1
        OBVIOUS
      <4>4. Pending(a) = 1
        BY <2>2, <3>2, <4>1, <4>2, <4>3
      <4> QED BY <4>1, <4>4
    <3> QED BY <3>3, <3>4
  <2>5. CASE Asks(a)
    <3>1. pc[a] = "wait" /\ AskedOnce(a) /\ Len(mail[a]) = 0 /\ a \notin lost
      BY <2>1, <2>3, <2>5 DEF OneUnderWay
    <3>2. PICK i \in 1..Len(inbox) : inbox[i].from = a
      BY <2>5 DEF Asks
    <3>3. Queued(a) = {i}
      BY <2>2, <3>1, <3>2 DEF Queued, AskedOnce
    <3>4. Cardinality(Queued(a)) = 1
      BY <3>3, FS_Singleton
    <3> QED BY <3>1, <3>4 DEF Pending
  <2> QED BY <2>4, <2>5
<1> QED BY <1>1, SocketsSound, PTL

-----------------------------------------------------------------------------
(* The counts. *)

LEMMA AttemptsBounded ==
    ASSUME TableInv, NEW a
    PROVE  AttemptsOf(a) \in Nat /\ AttemptsOf(a) <= MaxAttempts - 1
<1>1. clients \in Seq(Record) /\ Distinct(clients) /\ MaxAttempts \in Nat \ {0}
  BY LotteryServerAssumption DEF TableInv, TypeOK, OneEntryEach, Distinct
<1>2. FindClient(clients, a) \in 0..Len(clients)
  BY <1>1, FindClientResult
<1>3. FindClient(clients, a) # 0 => FindClient(clients, a) \in 1..Len(clients)
  BY <1>1, <1>2, LenProperties
<1> QED BY <1>1, <1>3 DEF AttemptsOf, TableInv, AttemptsInRange

LEMMA AttemptsKept ==
    ASSUME clients' = clients
    PROVE  \A a : AttemptsOf(a)' = AttemptsOf(a)
  BY DEF AttemptsOf, FindClient

(* Whoever a step is not about is as fairly treated as before. *)
LEMMA BystanderFair ==
    ASSUME NEW a, Fair(a),
           pc'[a] = pc[a], mail'[a] = mail[a], sent'[a] = sent[a],
           told'[a] = told[a], runs'[a] = runs[a], restarts' = restarts,
           AttemptsOf(a)' = AttemptsOf(a)
    PROVE  Fair(a)'
  BY DEF Fair, Agrees, NeverAhead

LEMMA StartKeepsFair ==
    ASSUME SocketInv, GameInv, NEW b \in Addrs, Start(b)
    PROVE  GameInv'
<1>1. /\ Shapes /\ \A a \in Addrs : Looping(a) /\ AttemptsOf(a)' = AttemptsOf(a)
      /\ \A a \in Undisturbed : Fair(a)
      /\ \A a \in Addrs : AttemptsOf(a) \in Nat
  BY AttemptsBounded, AttemptsKept, LotteryServerAssumption DEF SocketInv, GameInv, Start
<1>2. ASSUME NEW a \in Addrs, a \notin haunted PROVE Fair(a)'
  <2>1. CASE a # b
    BY <1>1, <1>2, <2>1, BystanderFair DEF Start, Shapes, Undisturbed
  <2>2. CASE a = b
    <3>1. /\ pc[a] \in {"off", "done"} /\ Fair(a)
          /\ pc[a] = "off" => runs[a] = 0
          /\ pc[a] # "off" => runs[a] > 0
      BY <1>1, <1>2, <2>2 DEF Looping, Start, Undisturbed
    <3>2. /\ pc'[a] = "prompt" /\ sent'[a] = 0 /\ told'[a] = "none"
          /\ runs'[a] = runs[a] + 1 /\ restarts' = restarts /\ runs[a] \in Nat
      BY <1>1, <2>2 DEF Start, Shapes
    <3>3. restarts = 0 \/ runs'[a] <= 1 => AttemptsOf(a)' = 0
      BY <1>1, <3>1, <3>2 DEF Fair, Agrees, NeverAhead
    <3> QED BY <3>2, <3>3 DEF Fair, Agrees, NeverAhead
  <2> QED BY <2>1, <2>2
<1>3. haunted' = haunted
  BY DEF Start
<1> QED BY <1>2, <1>3 DEF GameInv, Undisturbed

LEMMA SendKeepsFair ==
    ASSUME SocketInv, GameInv, NEW b \in Addrs, NEW g \in Guesses, Send(b, g)
    PROVE  GameInv'
<1>1. /\ Shapes /\ \A a \in Addrs : AttemptsOf(a)' = AttemptsOf(a)
      /\ \A a \in Undisturbed : Fair(a) /\ OneUnderWay(a)
      /\ \A a \in Addrs : AttemptsOf(a) \in Nat
  BY AttemptsBounded, AttemptsKept, LotteryServerAssumption DEF SocketInv, Quiet, GameInv, Send
<1>2. ASSUME NEW a \in Addrs, a \notin haunted PROVE Fair(a)'
  <2>1. CASE a # b
    BY <1>1, <1>2, <2>1, BystanderFair DEF Send, Shapes, Undisturbed
  <2>2. CASE a = b
    <3>1. /\ pc[a] = "prompt" /\ Fair(a) /\ mail[a] = << >>
          /\ pc'[a] = "wait" /\ sent'[a] = sent[a] + 1 /\ mail'[a] = << >>
          /\ told' = told /\ runs' = runs /\ restarts' = restarts /\ sent[a] \in Nat
      BY <1>1, <1>2, <2>2 DEF Send, Undisturbed, Shapes, OneUnderWay
    <3>2. told[a] \in {"none", "retry"}
      BY <3>1 DEF SocketInv, Looping
    <3> QED BY <1>1, <3>1, <3>2 DEF Fair, Agrees, NeverAhead
  <2> QED BY <2>1, <2>2
<1>3. haunted' = haunted
  BY DEF Send
<1> QED BY <1>2, <1>3 DEF GameInv, Undisturbed

(* A client that has used its tries is not told to try again: the server   *)
(* would have counted as many.                                             *)
LEMMA ReceiveKeepsFair ==
    ASSUME SocketInv, GameInv, Tries = MaxAttempts, NEW b \in Addrs, Receive(b)
    PROVE  GameInv'
<1>1. /\ Shapes /\ \A a \in Addrs : AttemptsOf(a)' = AttemptsOf(a)
      /\ \A a \in Undisturbed : Fair(a) /\ OneUnderWay(a)
      /\ \A a \in Addrs : AttemptsOf(a) \in Nat /\ AttemptsOf(a) <= MaxAttempts - 1
      /\ MaxAttempts \in Nat
  BY AttemptsBounded, AttemptsKept, LotteryServerAssumption DEF SocketInv, Quiet, GameInv, Receive
<1>2. ASSUME NEW a \in Addrs, a \notin haunted PROVE Fair(a)'
  <2>1. CASE a # b
    BY <1>1, <1>2, <2>1, BystanderFair DEF Receive, Shapes, Undisturbed
  <2>2. CASE a = b
    <3> DEFINE v == mail[a][1]
    <3>1. mail[a] \in Seq(Verdicts) /\ mail[a] # << >> /\ Head(mail[a]) = v /\ v \in Verdicts
      BY <1>1, <2>2, EmptySeq, HeadTailProperties DEF Receive, Shapes
    <3>2. Tail(mail[a]) = << >>
      BY <1>1, <1>2, <2>2, NextSocketInv, ReceiveKeepsSockets
         DEF Quiet, OneUnderWay, Receive, Undisturbed, Shapes
    <3> HIDE DEF v
    <3>3. /\ pc[a] = "wait" /\ Fair(a)
          /\ told'[a] = v
          /\ pc'[a] = IF v # "retry" \/ sent[a] = Tries THEN "done" ELSE "prompt"
          /\ mail'[a] = << >>
          /\ sent' = sent /\ runs' = runs /\ restarts' = restarts /\ sent[a] \in Nat
      BY <1>1, <1>2, <2>2, <3>1, <3>2 DEF Receive, Undisturbed, Shapes
    <3>4. restarts = 0 => Agrees(a)'
      BY <1>1, <3>1, <3>3 DEF Fair, Agrees, Verdicts, v
    <3>5. restarts = 0 \/ runs[a] <= 1 => NeverAhead(a)'
      BY <1>1, <3>1, <3>3 DEF Fair, NeverAhead, Verdicts, v
    <3> QED BY <3>3, <3>4, <3>5 DEF Fair
  <2> QED BY <2>1, <2>2
<1>3. haunted' = haunted
  BY DEF Receive
<1> QED BY <1>2, <1>3 DEF GameInv, Undisturbed

LEMMA KillKeepsFair ==
    ASSUME SocketInv, GameInv, NEW b \in Addrs, Kill(b)
    PROVE  GameInv'
<1>1. /\ Shapes /\ \A a \in Addrs : AttemptsOf(a)' = AttemptsOf(a)
      /\ \A a \in Undisturbed : Fair(a)
  BY AttemptsKept DEF SocketInv, GameInv, Kill
<1>2. ASSUME NEW a \in Addrs, a \notin haunted, a # b PROVE Fair(a)'
  BY <1>1, <1>2, BystanderFair DEF Kill, Shapes, Undisturbed
<1>3. haunted' = haunted \cup {b}
  BY DEF Kill
<1> QED BY <1>2, <1>3 DEF GameInv, Undisturbed

(* The answer to a client that waits carries its own count, and only the   *)
(* last of its guesses can lose.                                           *)
LEMMA ServerStepKeepsFair ==
    ASSUME SocketInv, GameInv, Tries = MaxAttempts, RoomForAll, ServerStep
    PROVE  GameInv'
<1>1. /\ Shapes /\ TableInv /\ \A a \in Addrs : Looping(a)
      /\ \A a \in Undisturbed : Fair(a) /\ OneUnderWay(a)
      /\ \A a \in Addrs : AttemptsOf(a) \in Nat
      /\ MaxAttempts \in Nat
  BY AttemptsBounded, LotteryServerAssumption DEF SocketInv, Quiet, GameInv
<1>2. PICK b \in Addrs, g \in Guesses :
         /\ Serve(b, g)
         /\ Len(inbox) \in Nat \ {0} /\ inbox[1].from = b
         /\ mail' = Mailed(b, reply'.verdict)
         /\ UNCHANGED <<pc, sent, told, runs, restarts, haunted>>
  BY <1>1, ServerStepResult
<1> DEFINE v == Judge(g, AttemptsOf(b) + 1)
<1>3. /\ reply' = [to |-> b, verdict |-> v]
      /\ AttemptsOf(b)' = IF v = "retry" THEN AttemptsOf(b) + 1 ELSE 0
      /\ \A a \in Addrs \ {b} : AttemptsOf(a)' = AttemptsOf(a)
  BY <1>1, <1>2, ServeCounts
<1>4. v \in Verdicts /\ (v = "lose" => AttemptsOf(b) + 1 >= MaxAttempts)
  BY DEF Judge, Verdicts
<1> HIDE DEF v
<1>5. mail' = Mailed(b, v)
  BY <1>2, <1>3
<1>6. ASSUME NEW a \in Addrs, a \notin haunted PROVE Fair(a)'
  <2>1. CASE a # b
    <3>1. mail'[a] = mail[a]
      BY <1>1, <1>5, <2>1 DEF Mailed, Shapes
    <3> QED BY <1>1, <1>2, <1>3, <1>6, <2>1, <3>1, BystanderFair DEF Undisturbed
  <2>2. CASE a = b
    <3>1. pc[a] = "wait" /\ mail[a] = << >> /\ Fair(a)
      BY <1>1, <1>2, <1>6, <2>2 DEF OneUnderWay, Asks, Undisturbed
    <3>2. sent[a] \in 1..Tries /\ told[a] \in {"none", "retry"}
      BY <1>1, <3>1 DEF Looping
    <3>3. mail'[a] = Append(<< >>, v)
      BY <1>1, <1>5, <2>2, <3>1 DEF Mailed, Open, Shapes
    <3>4. mail'[a] # << >> /\ mail'[a][1] = v
      BY <1>4, <3>3
    <3>5. restarts = 0 => Agrees(a)'
      BY <1>1, <1>2, <1>3, <1>4, <2>2, <3>1, <3>2, <3>4 DEF Fair, Agrees
    <3>6. restarts = 0 \/ runs[a] <= 1 => NeverAhead(a)'
      BY <1>1, <1>2, <1>3, <1>4, <2>2, <3>1, <3>2, <3>4 DEF Fair, NeverAhead
    <3> QED BY <1>2, <3>5, <3>6 DEF Fair
  <2> QED BY <2>1, <2>2
<1> QED BY <1>2, <1>6 DEF GameInv, Undisturbed

LEMMA RestartKeepsFair ==
    ASSUME SocketInv, GameInv, ServerRestart
    PROVE  GameInv'
<1>1. /\ UNCHANGED <<mail, pc, sent, told, runs, haunted>>
      /\ restarts' = restarts + 1 /\ restarts \in Nat
      /\ \A a : AttemptsOf(a)' = 0
  BY EmptySeq DEF ServerRestart, Reboot, AttemptsOf, FindClient, SocketInv, Shapes
<1>2. ASSUME NEW a \in Undisturbed PROVE Fair(a)'
  <2>1. /\ AttemptsOf(a) \in Nat /\ sent[a] \in Nat /\ Looping(a)
        /\ Fair(a) /\ Tries \in Nat
    BY AttemptsBounded, LotteryServerAssumption, LotteryAssumption
       DEF SocketInv, GameInv, Shapes, Undisturbed
  <2> QED BY <1>1, <2>1 DEF Fair, NeverAhead, Looping
<1> QED BY <1>1, <1>2 DEF GameInv, Undisturbed

LEMMA NextGameInv ==
    ASSUME RoomForAll, Tries = MaxAttempts
    PROVE  SocketInv /\ GameInv /\ [LotteryNext]_lotteryVars => GameInv'
<1> SUFFICES ASSUME SocketInv, GameInv, [LotteryNext]_lotteryVars PROVE GameInv'
  OBVIOUS
<1>1. CASE UNCHANGED lotteryVars
  <2>1. \A a \in Undisturbed : Fair(a)'
    BY <1>1, AttemptsKept, BystanderFair DEF lotteryVars, GameInv
  <2> QED BY <1>1, <2>1 DEF lotteryVars, GameInv, Undisturbed
<1> QED
  BY <1>1, StartKeepsFair, SendKeepsFair, ReceiveKeepsFair, KillKeepsFair,
     ServerStepKeepsFair, RestartKeepsFair DEF LotteryNext

LEMMA InitGameInv == LotteryInit => GameInv
<1> SUFFICES ASSUME LotteryInit PROVE GameInv
  OBVIOUS
<1>1. \A a \in Addrs : AttemptsOf(a) = 0
  BY EmptySeq DEF LotteryInit, Init, AttemptsOf, FindClient
<1> QED BY <1>1 DEF LotteryInit, GameInv, Undisturbed, Fair, Agrees, NeverAhead

(* With room in the table for every address, and as many tries in the      *)
(* client as attempts in the server, nobody is treated unfairly.           *)
THEOREM GamesFair ==
    ASSUME RoomForAll, Tries = MaxAttempts
    PROVE  LotterySpec => []GameInv
<1>1. SocketInv /\ GameInv /\ [LotteryNext]_lotteryVars => GameInv'
  BY NextGameInv
<1> QED BY <1>1, InitGameInv, SocketsSound, PTL DEF LotterySpec

(* The server's count for an address is its client's, whatever             *)
(* remove_client moves.                                                    *)
THEOREM CountsAgree ==
    ASSUME RoomForAll, Tries = MaxAttempts
    PROVE  LotterySpec => []TableAgrees
<1>1. GameInv => TableAgrees
  BY DEF GameInv, Fair, Agrees, TableAgrees
<1> QED BY <1>1, GamesFair, PTL

(* "Hai 3 tentativi": nobody loses before the third, also when the server  *)
(* restarts during the first game at an address.                           *)
THEOREM AllTriesGranted ==
    ASSUME RoomForAll, Tries = MaxAttempts
    PROVE  LotterySpec => []ThreeTries
<1>1. GameInv => ThreeTries
  BY DEF GameInv, Fair, NeverAhead, ThreeTries
<1> QED BY <1>1, GamesFair, PTL

(* Client and server end a game together. *)
THEOREM GamesEndTogether ==
    ASSUME RoomForAll, Tries = MaxAttempts
    PROVE  LotterySpec => []NobodyLeftPlaying
<1>1. GameInv => NobodyLeftPlaying
  BY DEF GameInv, Fair, Agrees, NobodyLeftPlaying
<1> QED BY <1>1, GamesFair, PTL

(* The server implements LotteryRules also at work, with its sockets and   *)
(* clients.                                                                *)
THEOREM LotteryPlaysByTheRules ==
    ASSUME RoomForAll
    PROVE  LotterySpec => PlaysByTheRules
<1>1. SocketInv /\ [LotteryNext]_lotteryVars => [Rules!Next]_(Rules!rulesVars)
  BY ServerSees, RulesStep DEF SocketInv
<1>2. LotteryInit => Rules!Init
  BY RulesInit DEF LotteryInit
<1> QED BY <1>1, <1>2, SocketsSound, PTL DEF LotterySpec, PlaysByTheRules, Rules!Spec

=============================================================================
