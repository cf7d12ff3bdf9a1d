------------------------------ MODULE LotteryServer ------------------------------
(***************************************************************************)
(* The UDP lottery server, Socket Programming/lottery/lottery_server.c:    *)
(* its table of clients and what one turn of its receive loop does to it.  *)
(* The C array clients[] with client_count is the sequence of its live     *)
(* entries; the C index i is index i+1 here and the C result -1 is 0.      *)
(* Who sends which guess is left open: Next lets any address guess any     *)
(* number at any time.  Module Lottery composes the server with its        *)
(* clients and with the sockets between them.                              *)
(***************************************************************************)
EXTENDS Integers, Sequences, FiniteSets

CONSTANTS
    Addrs,          \* client addresses (sockaddr_in)
    Guesses,        \* the numbers atoi() can make of a datagram
    Secrets,        \* the numbers rand() % 100 + 1 can draw
    MaxClients,     \* FD_SETSIZE, the length of clients[]
    MaxAttempts     \* MAX_ATTEMPTS

ASSUME LotteryServerAssumption ==
    /\ MaxClients \in Nat \ {0}
    /\ MaxAttempts \in Nat \ {0}
    /\ Addrs # {} /\ "nobody" \notin Addrs

VARIABLES
    clients,        \* clients[0 .. client_count-1]
    secret,         \* secret_number
    reply           \* the last sendto(): to whom and which message

serverVars == <<clients, secret, reply>>

Record == [addr : Addrs, attempts : Nat]
Verdicts == {"win", "lose", "retry"}
NoReply == [to |-> "nobody", verdict |-> "none"]

-----------------------------------------------------------------------------
(* The table. *)

(* Faulty variants of the operators below, one plausible slip each: the    *)
(* search stops short, the bound is forgotten, the wrong entry goes, the   *)
(* comparison is off by one.  No specification uses them.                  *)
FindClientStopsShort(tbl, a) ==
    IF \E i \in 1..(Len(tbl)-1) : tbl[i].addr = a
    THEN CHOOSE i \in 1..(Len(tbl)-1) : tbl[i].addr = a
    ELSE 0

RemoveClientTruncates(tbl, i) ==
    IF i \in 1..Len(tbl) THEN SubSeq(tbl, 1, Len(tbl)-1) ELSE tbl

JudgeLate(g, attempts) ==
    IF g = secret THEN "win" ELSE IF attempts > MaxAttempts THEN "lose" ELSE "retry"

JudgeEarly(g, attempts) ==
    IF g = secret THEN "win" ELSE IF attempts + 1 >= MaxAttempts THEN "lose" ELSE "retry"

DrawnFromZero == {s - 1 : s \in Secrets}

(* What rand() % 100 + 1 can be. *)
Drawn == Secrets

(* find_client: the first entry with this address, or 0. *)
FindClient(tbl, a) ==
    IF \E i \in 1..Len(tbl) : tbl[i].addr = a
    THEN CHOOSE i \in 1..Len(tbl) :
            tbl[i].addr = a /\ \A j \in 1..(i-1) : tbl[j].addr # a
    ELSE 0

(* add_client: a full table stays as it is, and the caller is not told. *)
AddClient(tbl, a) ==
    IF Len(tbl) < MaxClients
    THEN Append(tbl, [addr |-> a, attempts |-> 0])
    ELSE tbl

(* remove_client: the last entry takes the place of the removed one. *)
RemoveClient(tbl, i) ==
    IF i \in 1..Len(tbl)
    THEN [j \in 1..(Len(tbl)-1) |-> IF j = i THEN tbl[Len(tbl)] ELSE tbl[j]]
    ELSE tbl

-----------------------------------------------------------------------------
(* One turn of the receive loop for guess g from address a.  When the      *)
(* address is new the server takes client_count - 1 for its entry, which   *)
(* is somebody else's entry if the table was full.                         *)

TableFor(a) == IF FindClient(clients, a) = 0 THEN AddClient(clients, a) ELSE clients

IndexFor(a) ==
    IF FindClient(clients, a) = 0 THEN Len(TableFor(a)) ELSE FindClient(clients, a)

Counted(a) == [TableFor(a) EXCEPT ![IndexFor(a)].attempts = @ + 1]

Judge(g, attempts) ==
    IF g = secret THEN "win" ELSE IF attempts >= MaxAttempts THEN "lose" ELSE "retry"

Serve(a, g) ==
    LET verdict == Judge(g, Counted(a)[IndexFor(a)].attempts)
    IN  /\ reply' = [to |-> a, verdict |-> verdict]
        /\ clients' = IF verdict = "retry" THEN Counted(a)
                      ELSE RemoveClient(Counted(a), IndexFor(a))
        /\ UNCHANGED secret

Init ==
    /\ clients = << >>
    /\ secret \in Drawn
    /\ reply = NoReply

(* The process is stopped and started again: nothing of it is persistent. *)
Reboot ==
    /\ clients' = << >>
    /\ secret' \in Drawn
    /\ reply' = NoReply

Next ==
    \/ \E a \in Addrs, g \in Guesses : Serve(a, g)
    \/ Reboot

Spec == Init /\ [][Next]_serverVars

-----------------------------------------------------------------------------
(* Properties. *)

(* The table is a sequence of records no longer than clients[]; secret and *)
(* reply are in range.                                                     *)
TypeOK ==
    /\ clients \in Seq(Record)
    /\ Len(clients) <= MaxClients
    /\ secret \in Secrets
    /\ reply \in [to : Addrs, verdict : Verdicts] \cup {NoReply}

(* No address owns two entries, however often entries move on removal:     *)
(* find_client can only be trusted to find THE count of an address if so.  *)
OneEntryEach ==
    \A i, j \in 1..Len(clients) : clients[i].addr = clients[j].addr => i = j

(* Between two datagrams no stored entry is unused or used up: a player    *)
(* that has no attempts left is never still in the table.                  *)
AttemptsInRange ==
    \A i \in 1..Len(clients) : clients[i].attempts \in 1..(MaxAttempts - 1)

TableInv == TypeOK /\ OneEntryEach /\ AttemptsInRange

(* The count the table holds for an address, 0 if it holds none. *)
AttemptsOf(a) ==
    IF FindClient(clients, a) = 0 THEN 0 ELSE clients[FindClient(clients, a)].attempts

(* What the table is for: with an entry to spare for every address, the    *)
(* server is the lottery of LotteryRules.                                  *)
RoomForAll == IsFiniteSet(Addrs) /\ Cardinality(Addrs) <= MaxClients

Rules == INSTANCE LotteryRules WITH
            Players   <- Addrs,
            misses    <- [a \in Addrs |-> AttemptsOf(a)],
            number    <- secret,
            announced <- reply

PlaysByTheRules == Rules!Spec

=============================================================================
