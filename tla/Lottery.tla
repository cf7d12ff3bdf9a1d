------------------------------- MODULE Lottery -------------------------------
(***************************************************************************)
(* The lottery as it runs: the server of module LotteryServer, the clients *)
(* of Socket Programming/lottery/lottery_client.c, and the UDP sockets     *)
(* between them.  All of them run on one host (the client's SERVER_IP is   *)
(* 127.0.0.1), where a datagram is delivered in order and once, unless the *)
(* receive queue of the server's socket is full or its process is stopped. *)
(***************************************************************************)
EXTENDS LotteryServer

CONSTANTS
    Tries,          \* the 3 of the client's loop
    QueueCap,       \* datagrams the server's socket can hold
    MaxRuns,        \* bound: MaxRuns[a] client processes get the address a
    MaxRestarts     \* bound: restarts of the server

ASSUME LotteryAssumption == Tries \in Nat \ {0} /\ QueueCap \in Nat

VARIABLES
    inbox,          \* datagrams in the server's socket, oldest first
    mail,           \* mail[a]: datagrams in the client's socket
    pc,             \* pc[a]: where the client process at a is
    sent,           \* sent[a]: guesses this process has sent (its loop's i)
    told,           \* told[a]: the last answer this process printed
    runs,           \* runs[a]: processes started at a so far
    restarts,
    haunted,        \* history: addresses whose client was killed in its game
    lost            \* history: addresses whose last guess was lost on its way

lotteryVars ==
    <<clients, secret, reply, inbox, mail, pc, sent, told, runs, restarts, haunted, lost>>

LotteryInit ==
    /\ Init
    /\ inbox = << >>
    /\ mail = [a \in Addrs |-> << >>]
    /\ pc = [a \in Addrs |-> "off"]
    /\ sent = [a \in Addrs |-> 0]
    /\ told = [a \in Addrs |-> "none"]
    /\ runs = [a \in Addrs |-> 0]
    /\ restarts = 0
    /\ haunted = {}
    /\ lost = {}

-----------------------------------------------------------------------------
(* The client. *)

(* A client process starts on address a: its socket is new and empty, but  *)
(* nothing tells the server that whoever had the address before is gone.   *)
Start(a) ==
    /\ pc[a] \in {"off", "done", "killed"}
    /\ runs[a] < MaxRuns[a]
    /\ runs' = [runs EXCEPT ![a] = @ + 1]
    /\ pc' = [pc EXCEPT ![a] = "prompt"]
    /\ sent' = [sent EXCEPT ![a] = 0]
    /\ told' = [told EXCEPT ![a] = "none"]
    /\ mail' = [mail EXCEPT ![a] = << >>]
    /\ UNCHANGED <<clients, secret, reply, inbox, restarts, haunted, lost>>

(* fgets() and sendto(): a full queue drops the datagram silently. *)
Send(a, g) ==
    /\ pc[a] = "prompt"
    /\ IF Len(inbox) < QueueCap
       THEN inbox' = Append(inbox, [from |-> a, guess |-> g]) /\ lost' = lost \ {a}
       ELSE inbox' = inbox /\ lost' = lost \cup {a}
    /\ sent' = [sent EXCEPT ![a] = @ + 1]
    /\ pc' = [pc EXCEPT ![a] = "wait"]
    /\ UNCHANGED <<clients, secret, reply, mail, told, runs, restarts, haunted>>

(* Faulty variant: the client does not block for its answer. *)
ReceiveWithoutWaiting(a) ==
    /\ pc[a] = "wait"
    /\ mail' = [mail EXCEPT ![a] = << >>]
    /\ pc' = [pc EXCEPT ![a] = IF sent[a] = Tries THEN "done" ELSE "prompt"]
    /\ UNCHANGED <<clients, secret, reply, inbox, sent, told, runs, restarts, haunted, lost>>

(* recvfrom(): a winning or losing answer leaves the loop, as does its end. *)
Receive(a) ==
    /\ pc[a] = "wait"
    /\ mail[a] # << >>
    /\ told' = [told EXCEPT ![a] = Head(mail[a])]
    /\ mail' = [mail EXCEPT ![a] = Tail(@)]
    /\ pc' = [pc EXCEPT ![a] =
                IF Head(mail[a]) # "retry" \/ sent[a] = Tries THEN "done" ELSE "prompt"]
    /\ UNCHANGED <<clients, secret, reply, inbox, sent, runs, restarts, haunted, lost>>

(* The user stops a client at its prompt or while it waits. *)
Kill(a) ==
    /\ pc[a] \in {"prompt", "wait"}
    /\ pc' = [pc EXCEPT ![a] = "killed"]
    /\ mail' = [mail EXCEPT ![a] = << >>]
    /\ haunted' = haunted \cup {a}
    /\ UNCHANGED <<clients, secret, reply, inbox, sent, told, runs, restarts, lost>>

-----------------------------------------------------------------------------
(* The server. *)

Open(a) == pc[a] \in {"prompt", "wait"}

(* Faulty variant: a wrong guess that may be tried again gets no answer. *)
MailedUnlessRetry(a, v) ==
    IF Open(a) /\ v # "retry" THEN [mail EXCEPT ![a] = Append(@, v)] ELSE mail

(* The answer reaches the address if somebody has a socket there. *)
Mailed(a, v) == IF Open(a) THEN [mail EXCEPT ![a] = Append(@, v)] ELSE mail

(* One turn of the loop. *)
ServerStep ==
    /\ inbox # << >>
    /\ LET d == Head(inbox)
       IN  /\ Serve(d.from, d.guess)
           /\ mail' = Mailed(d.from, reply'.verdict)
    /\ inbox' = Tail(inbox)
    /\ UNCHANGED <<pc, sent, told, runs, restarts, haunted, lost>>

(* The server is stopped and started: its table and its socket's queue go. *)
ServerRestart ==
    /\ restarts < MaxRestarts
    /\ restarts' = restarts + 1
    /\ Reboot
    /\ inbox' = << >>
    /\ lost' = lost \cup {inbox[i].from : i \in DOMAIN inbox}
    /\ UNCHANGED <<mail, pc, sent, told, runs, haunted>>

LotteryNext ==
    \/ \E a \in Addrs : Start(a) \/ Receive(a) \/ Kill(a)
    \/ \E a \in Addrs, g \in Guesses : Send(a, g)
    \/ ServerStep
    \/ ServerRestart

LotterySpec == LotteryInit /\ [][LotteryNext]_lotteryVars

(* Users may walk away from a prompt; processes that can run do run. *)
FairLotterySpec ==
    /\ LotterySpec
    /\ WF_lotteryVars(ServerStep)
    /\ \A a \in Addrs : WF_lotteryVars(Receive(a))

-----------------------------------------------------------------------------
(* Properties. *)

Queued(a) == {i \in DOMAIN inbox : inbox[i].from = a}
Pending(a) == Cardinality(Queued(a)) + Len(mail[a])

(* Where nobody was killed: the entry, a question or an answer of a killed *)
(* client wait for the next one at its address.  A client that ended its   *)
(* game leaves nothing to whoever plays there next.                        *)
Undisturbed == Addrs \ haunted

(* While a client waits there is exactly one question or answer of its own *)
(* in the system, and none when its guess was lost in a full queue or with *)
(* a server that stopped; while its user types there is none: the answer   *)
(* it prints is the answer to its last guess.                              *)
OneOutstanding ==
    \A a \in Undisturbed :
        /\ pc[a] = "wait" => Pending(a) = IF a \in lost THEN 0 ELSE 1
        /\ pc[a] = "prompt" => Pending(a) = 0

(* The attempts the server's table holds for an address are the guesses    *)
(* its client has had counted, whatever remove_client moved meanwhile, and *)
(* a client that left with a verdict has no entry any more.  (A restart of *)
(* the server ends this.)                                                  *)
TableAgrees ==
    restarts = 0 => \A a \in Undisturbed :
        /\ pc[a] = "prompt" => AttemptsOf(a) = sent[a]
        /\ pc[a] = "wait" =>
              AttemptsOf(a) = IF mail[a] = << >> THEN sent[a] - 1
                              ELSE IF mail[a][1] = "retry" THEN sent[a] ELSE 0
        /\ pc[a] = "done" => AttemptsOf(a) = 0

(* "Hai 3 tentativi per indovinare il numero": nobody is told to have used *)
(* up the attempts before Tries guesses of its own.  (A client whose server *)
(* restarted during its game ends it with attempts left, for the next one   *)
(* at its address: then only the first is promised its tries.)             *)
ThreeTries ==
    \A a \in Undisturbed :
        (restarts = 0 \/ runs[a] = 1) /\ told[a] = "lose" => sent[a] = Tries

(* The client's loop and the server's counter end a game together: a       *)
(* client never leaves its loop on the answer "Ritenta", unless the server *)
(* forgot its attempts in a restart.                                       *)
NobodyLeftPlaying ==
    restarts = 0 => \A a \in Undisturbed : pc[a] = "done" => told[a] \in {"win", "lose"}

(* recvfrom() has no timeout: a client waits for ever only if its own last *)
(* guess was lost, never because of what the others send, of a full table, *)
(* of a client killed before it at its address or of a restart that came   *)
(* when its guess had been answered.                                       *)
EveryGuessAnswered == \A a \in Addrs : pc[a] = "wait" ~> pc[a] # "wait" \/ a \in lost

=============================================================================
