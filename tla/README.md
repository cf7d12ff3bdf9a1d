# Verification of the Reti network programs

`Reti` is the exercise collection of a computer-networks course: some thirty small
C programs around BSD sockets, each a few dozen to a hundred and fifty lines. There is
no common library; the programs are independent systems of processes (a server, its
forked children, its clients) that interact through sockets, pipes, files and copies of
memory made by `fork()`. There are no tests, and the documentation is the programs' own
comments and messages (many in Italian).

This directory holds TLA+ models of the programs that keep state and run concurrently,
the TLC configurations that check them, and machine-checked proofs of what the models satisfy for
every value of their constants.

## Inventory

### Programs with state shared between several actors

**UDP lottery** - `Socket Programming/lottery/lottery_server.c`, `lottery_client.c`.
*State*: the server's table `clients[]` of addresses with their attempts, `client_count`,
`secret_number`; a client's loop counter. *Operations*: `find_client`, `add_client`,
`remove_client` (the last entry moves into the hole), one turn of the receive loop; the
client sends a guess and blocks for the answer, three times. *Interaction*: datagrams on
one host. *Hard*: entries that move while games go on; a table that is full (`add_client`
fails silently and the caller uses another client's entry); clients that are stopped in
mid-game; a server that restarts and forgets; a client without timeout. *Correct when*:
each player's attempts are counted separately, server and client end a game together, the
third miss and no other loses.

**UDP chat** - `Socket Programming/chat_udp/sv_chat.c`, `cl_chat.c`, `sv_chat.h`. *State*:
`clients[]`, `num_clients`, the message being broadcast; a client is a parent that sends and
a child that prints, on one socket. *Operations*: register the sender and show the message,
then one `sendto()` per client. *Hard*: users read, answer and leave their sockets full in
the middle of a broadcast; a table that is too small. *Correct when*: nobody is registered
twice, all users see one order of messages, nothing is missing for those whose socket had room.

**UDP chat with history** - `UDP/chatUDP_server.c`. *State*: `clients[]`, the file `chat.log`,
the phase of the single-threaded loop (receive, log, broadcast, replay). *Hard*: a kill between
logging and broadcasting; a replay that lasts 50 ms a line while messages arrive; a log that
cannot be opened. *Correct when*: what users were told is in the log, in that order; a replay is
the log as it was, uncut; the server comes back to its socket.

**TCP chat with slots** - `Socket Programming/chat_TCP_gold/src/ds.c`, `client.c`. *State*:
`clients[5]` of the parent, a private copy of it in every handler (made by `fork()`), the
connections. *Hard*: stale copies; slots that are never freed; SIGPIPE in one handler because
another's client left; several handlers that send to one socket. *Correct when*: a client's
messages arrive everywhere in order and without gaps; its own echo means that all whom its
handler serves have it.

**TCP chat with a pipe** - `TCP/sv_2waychat.c`. *State*: `sockfd_arr[100] = {-1}` (only the first
element is -1), the broadcaster's copy of it, a pipe without message boundaries, handlers.
*Hard*: the array is copied at the first client; reads that cut messages, and `snprintf()` from a
buffer into itself; errors of `recv()` that an unsigned variable hides; a blocking `send()`, a dead
broadcaster, and the pipe that then fills. *Correct when*: what `snprintf()` leaves of the stream
arrives in its place; no handler is stuck in `write()` unless the client served stops reading or the
broadcaster is dead.

**Rigidly alternating chat** - `_old/Programmazione Socket/28_11/GPT/tcp_server.c`,
`tcp_client.c`. *State*: one buffer an end, used for what is typed and what is received. *Hard*:
`recv()` is unchecked, so that the buffer holds stale lines when the other end is gone; and it
is by such a line that the end that typed STOP ends. *Correct when*: the ends alternate, and
STOP ends both.

**UDP question and answer** - `_old/Esempi .../Client-Server-UDP/server_udp.c` and `client_udp.c`
(identical copies in `_old/Programmazione Socket/_udp/Client-Server-UDP`),
`_udp/quadrati/sqr_udp_server.c`, `sqr_udp_client.c`, `squarerootsum/UDP_server_pow.c`,
`UDP_client_pow.c`. *State*: a counter, or the first of two numbers; the sender's address, which
every `recvfrom()` overwrites. *Hard*: two clients inside one conversation; an operator who keeps
everybody waiting; "close". *Correct when*: a client has one question or answer under way; the
counter is never behind what was seen; conversations stay apart (they do not).

**Sorting server** - `Socket Programming/stringarray/sv_strarr.c`: serial; a comparison that
subtracts, and a buffer that is built with `strcat()`.

**UDP guessing game** - `Socket Programming/lotteria2/UDP_lotteria.c` (no client in the repository).
*State*: the winning number. *Hard*: the right guess ends the server with others' guesses in its
socket. *Correct when*: every guess that the server reads is answered, the last one too.

**Forking TCP servers** - `multiclient`, `TCP_state`, `modular`, `TCP/sv_smallcapper.c`,
`serverclient_chat.c`, `_old/chat`, `mp_dice`, `_old/.../Client-Server-TCP`, `_old/.../chat`,
`28_11/E1.c`, and the two that do not fork, `clock` and `test01`; with the clients that exist.
*State*: the processes, which descriptors each of them holds, the backlog, a counter or list
that `fork()` copies. *Operations*: `accept()`, `fork()`, the parent's part of the loop, the handler;
the operator of four of them; SIGINT in `sv_modular.c`. *Hard*: `fork()` and `bind()` that fail and
are not checked, or checked with an assertion that cannot fire; children that come back to the
accept loop; parents that keep connections open; children that keep the listening socket when
the server has ended; a server that waits for its child, its operator, or both. *Correct when*:
a connection is held by those who serve it, each client is accepted in turn and served by one child, no
client is left in the backlog or in a `read()`, and an ended server leaves its port free.

### Programs that are not modelled

| Program | Why |
| --- | --- |
| `analgram.c` | a pure function of two strings; nothing is kept and nothing runs beside it |
| `UDP/forza_telemetry.c` | reads datagrams into one structure and prints its fields: input and output only |
| `ass/termthing.c`, `_old/FileManager`, `_old/termsize` | input and output only |
| `_old/in.h`, `netdb.h`, `socket.h`, PDF, slides, drawings, binaries | not the repository's code |

## Modules

| Module | Models | Used by |
| --- | --- | --- |
| `LotteryRules` | abstract: the lottery as a player understands it | `LotteryServer` |
| `LotteryServer` | `lottery_server.c`: table, handler, restart | `Lottery` |
| `Lottery` | server, clients and sockets together | `LotteryProofs` |
| `ChatRoom` | abstract: one order of messages, everybody sees a subsequence of it | `ChatUdp` |
| `ChatUdp` | `sv_chat.c`, `cl_chat.c` | `ChatUdpProofs` |
| `ChatHistory` | `chatUDP_server.c` | `ChatHistoryProofs` |
| `GoldChat` | `chat_TCP_gold` | `GoldChatProofs` |
| `TwoWayChat` | `sv_2waychat.c` | `TwoWayChatProofs` |
| `Alternation` | abstract: the rigid alternation that E1.c sets as a task | `StopChat` |
| `StopChat` | the pair of `28_11/GPT` | `StopChatProofs` |
| `Dialogue` | four UDP servers, their clients | `DialogueProofs` |
| `Reception` | abstract: clients are called in turn and given one helper each | `ForkServers` |
| `Processes` | sockets, descriptors, `fork()` and the ends of processes, as the servers use them | `ForkServers` |
| `ForkServers` | twelve TCP servers and their clients | `ForkServersProofs` |
| `SortServer` | `sv_strarr.c` | |

Each `...Proofs` module holds the theorems about the module it is named after (`LotteryProofs` those about
`LotteryServer` too) and the lemmas they need.

`MC*.tla` are the instances TLC runs, `*.cfg` their constants. Operators whose comment calls
them *faulty variants* are deliberate errors that stand beside the definition they vary; no
specification uses them, and with one of them in place of that definition a run must fail.

### How state and actions correspond to the code

* A C array with its count is a sequence of its live entries, indexed from 1; an array whose holes
  matter (`GoldChat`, `TwoWayChat`) is a function on its slots.
* An action is one turn of a loop up to the next point where another process can be seen: the
  lottery handler is one action (`Serve`), because it touches nothing shared between its
  `recvfrom()` and its `sendto()`; a broadcast is one action per `sendto()`, because the
  receivers run in between.
* A message is its sender and number; texts are left out. `rand()`, what users type, when they leave
  and when processes are killed are choices. An uninitialised buffer holds anything
  (`StopChat!Init`).
* A UDP socket is a bounded queue on one host: in order, once, and dropping what does not fit. A
  TCP connection keeps order and loses nothing while both ends live; the first `send()` to an end
  that is gone succeeds and draws a reset, the next raises SIGPIPE, which kills the sender (no
  program handles it).
* `fork()` copies what the model calls the child's view; a failing `fork()` is a choice where the code
  goes on after it.
* Faults of the set-up (`socket`, `bind`, `listen` fail) end most programs before they have any state;
  the models start after it. In `ForkServers` a `bind()` that fails is one of the initial states: the program
  has ended, or, in the two that do not look, waits where no client asks.

Abstractions that matter: TCP messages arrive whole in `GoldChat` and `StopChat` (both send and
receive a structure or buffer of fixed size; cuts are modelled in `TwoWayChat`, where the pipe makes
them common). The `FD_SETSIZE` of the lottery, 100 clients of the chat, and 5 and 100 slots are
parameters. `snprintf(buffer, BUFFER_SIZE, "MESSAGE: %s\n", buffer)` in `sv_2waychat.c` copies between overlapping
arrays, which is undefined: `Garbled` loses the first `Prefix` units of every read, those that no longer
fit, and any choice of the others. That has room for a short text that vanishes, and for a long one that lacks its
beginning and its end. `bytes_read` is a `size_t` there, so that `recv() = -1` passes for data (`ReceiveError`).
`Dialogue` and `ForkServers` choose at the start which of their servers runs
(`program`); the servers of one module share the clients or the operating system and differ in their
loops. Whether a guess of `lotteria2` is right is a choice.

In `ForkServers` each program has its `...Init` (is `bind()` checked?), its `...Loop` (what a process in the
accept loop does: usually the server, but also a child that came back to it), its `...Handler` (the child),
an `...Operator` where it reads its terminal, and its `...Client`. `Processes` has the system calls they are made
of. A connection or listening socket exists as long as some process has it in `fds`; when the last
one that listens closes it, the backlog is reset. The lists of `sv_modular.c`, `sv_tcpstate.c` and
`sv_smallcapper.c` are their lengths (`counter`), since they are only printed and freed. One `read()` may
return several lines. Lines are told apart only where a program does (`T`, `N`, `END`).

## Runs

| Run | Bounds | Shows |
| --- | --- | --- |
| `lottery_play` | 3 clients, two of them one after the other at one address, 3 tries, a server socket for 2 that fills, 1 restart of the server, clients that may be stopped | the table is sound (`TypeOK`, `OneEntryEach`, `AttemptsInRange`) and the server implements `LotteryRules` (`PlaysByTheRules`), although entries move; a client that waits has exactly one datagram under way, or none if its guess was lost (`OneOutstanding`); server and client agree on the attempts (`TableAgrees`) and end together (`NobodyLeftPlaying`) until a restart; nobody loses before the third guess (`ThreeTries`), the second client at an address included, unless the first was stopped in its game or cut short by a restart: the server then has its entry still; only a client whose own guess was lost waits for ever (`EveryGuessAnswered`) |
| `lottery_overflow` | 2 clients, 1 entry | *violation* of `ThreeTries`: with a full table a newcomer's guesses are counted in another's entry |
| `chat_udp` | 3 users, table for 2, 2 messages each, sockets for 2 | `OneOrder` (refines `ChatRoom`), `NothingMissing`, `EverybodySees` |
| `history` | 2 users, 3 messages and 1 replay in all, sockets for 3 that fill, 1 kill, a log that once cannot be opened | `ToldIsLogged`, `ReplayIsTheLog`, `ServerReturns` |
| `gold` | 3 clients, 2 slots, 2 messages, 1 leaves, 1 fork fails | `InOrderWithoutGaps`, `EchoIsReceipt`, `EldersHear` |
| `twoway` | 2 clients, 2 messages of 1 or 3 units each, a pipe of 4, reads of 3 of which at most the second survives, a client's socket for 1 record, 1 leaves, 1 fork fails | `StreamInPlace`, `NoHandlerStuck` |
| `twoway_array` | 2 clients, 3 elements | *violation* of `AddedToArray`: only the first client gets into the array |
| `stopchat` | 2 texts and STOP, 3 lines an end, both may be killed | `Alternates` (refines `Alternation`), `ShownWasSaid`, `StopEndsBoth` |
| `fork_servers` | 12 servers, 2 clients with 2 lines each, 1 fork fails, `bind()` may fail, "multi" ends after 1 | `NoStrangers`, `OnlyServerAccepts`, `CountsWhoCame`, `ServesInTurn` (implements `Reception`), `AcceptedInTurn`, `NobodyWaitsInVain`, `PortFreed`, with the exceptions below |
| `dialogue` | 4 servers, 3 users, 2 lines, a socket for 2 | `OneAnswerEach`, `CountsEveryT`, `EverybodyAnswered` |
| `dialogue_sum` | the server of sums, 2 users | *violation* of `SecondIsOfTheAsked`: the second number is anybody's |
| `sort` | 3-bit integers, requests of 3 | *violation* of `SortedReply`: the subtraction wraps around |

Each passing run also checks its module's type invariant.

**Exceptions of `fork_servers`.** Where a program does not keep what the others keep, the property names
it: the parents of `sv_multi.c` and `chat_server_tcp.c` never close a connection (`NoStrangers`,
`ServesInTurn`: later children inherit it, and the client sees no end of it); the children of `sv_multi.c`,
`mp_dice_ds.c` and `E1.c` hold the listening socket while they wait for their client (`PortFreed`: after the
server's end new clients connect to nobody); the serial servers accept only when their operator, and for
`chat_server.c` the client's END, have let them go on (`AcceptedInTurn` is about runs in which they do: an
END that arrives together with another line, or a client that leaves without it, keeps `chat_server.c` in
`wait()` for ever). Other observations that are no disagreement with a stated promise: the time server
counts T in the child and answers every N with 0 (`CountsWhoCame` says so); the dice server counts its client twice and ends at
its second `accept()`; `assertf(pid >= 0, ...)` of `sv_smallcapper.c` tests a truth value and never fires.

**Why the bounds are enough.** In the lottery two addresses are enough, where each relation is between the server
and one client and the other only moves entries; what more than two entries could do to each other is
covered by the proofs, which are for any number; a second client at one of them meets what the first left. The server's queue of two is filled by the question of a
client that was stopped and that of the other address, so that the successor's is dropped. In `ForkServers` a stranger's descriptor, a second
conversation and a client left in the backlog need two clients; a second line is what END can arrive
together with; a limit of one connection leaves the other client to a server that has ended. The chats need a
third user for two receivers of one broadcast to differ, two messages of a user for an order and a gap, and
limits (table, socket, slots, pipe) below what the users can fill. `StopChat` needs three lines for an
exchange, a STOP and a line after it. Integers of three bits have every case of the wrap-around that 32
have. Constants that only bound a run (`MaxMsgs`, `MaxRuns`, `MaxRestarts`, `MaxLeaves`,
`MaxForkFailures`, `MaxTyped`, `MaxKills`, `MaxLines`, ...) stand in the guards of the user's or the
fault's actions, never in a program's; where a run comes to rest when they are used up it says
`CHECK_DEADLOCK FALSE`.

**Fairness.** Weak fairness is assumed of what a process can always do once it can: a server's turn when
its socket holds a datagram, a child's print, the rounds of a loop that never blocks. Nothing is assumed of
users (they may stop typing, and a client may wait at its prompt for ever), of the operators of `Dialogue`
and `ForkServers` (`EverybodyAnswered` and `AcceptedInTurn` speak of runs in which the operator does not keep
the server for ever), or of faults. In `ForkServers` every process by itself is fair: its server, and each child.
A client of `TwoWayChat` need not read what it is sent: `NoHandlerStuck` is about runs in which `send()` is not
held up for ever (`[]<>~HeldUp`). The one strong fairness is that of the handlers' `write()` in `TwoWayChat`: the kernel queues the writers of
a full pipe, so that one for which there is room again and again gets it.

## Findings

1. `lottery_server.c:81`: with `clients[]` full, `client_count - 1` is another client's entry; the newcomer is
   told that its attempts are used up before its third guess (`lottery_client.c:26` promises three).
2. `sv_2waychat.c:31`: `{-1}` initialises one element, so that the loop of line 57 ("add the dude to the client
   array") adds only the first client; in addition the broadcaster's copy dates from that moment.
3. `UDP_server_pow.c:89`: the second number is taken from whoever writes next, not from the client that was
   asked (line 29, "Insert second number").
4. `sv_strarr.c:20`: numbers that are more than `INT_MAX` apart are sent back in decreasing order (line 3
   promises increasing).

Other hazards, with the properties that guard them, are listed in `PROJECT.json`.

## What is proved

Every invariant of every passing run, and the four refinements (`PlaysByTheRules`, `OneOrder`, `Alternates`,
`ServesInTurn`), are theorems that TLAPS checks, for every value of the constants that the named
assumptions of each module allow. The assumptions ask for what the code has: sizes are numbers, an array has at least
one element where the code indexes its last, the set of clients is finite where they are counted, and model values
that stand for "nobody", "empty" or a listening socket are no clients. A theorem that needs more says so
in its own statement. Each module proves one inductive invariant, named parts first, one lemma per part and
action, and derives the properties from it.

**`LotteryProofs`**. `TableInv` is `TypeOK /\ OneEntryEach /\ AttemptsInRange`, also when the table is full; the
last two are inductive only relative to `TypeOK` (and `MaxAttempts >= 1`). `SocketInv` adds the sockets: who is
at the prompt has sent fewer than its tries, and from and to an undisturbed address there is exactly one datagram while
its client waits, unless its guess was lost, and none otherwise (`OneQuestionAtATime`). The history
variable `lost` holds the addresses whose last guess was dropped by a full socket or discarded at a restart. `GameInv` relates the
server's count to the client's: equal until the server restarts (`CountsAgree`, `GamesEndTogether`), never ahead in
the first game at an address even after that (`AllTriesGranted`). These three and the refinements (`ServerImplementsRules`,
`LotteryPlaysByTheRules`) assume `RoomForAll`: finitely many addresses, at most `MaxClients`. The program has
`FD_SETSIZE` entries; beyond them the theorems fail, which is finding 1. `NewcomerFits` is the pigeonhole argument
that turns the assumption into room for the next newcomer. The three game theorems also assume
`Tries = MaxAttempts`: both programs write 3.

**`ChatUdpProofs`**. `OrderInv`: no message is in two places; who is in the table has spoken, and who has spoken
is in it or it is full; what a user printed or has in its socket is in the order of taking, since its own first message, and
does not yet hold the message the loop still owes it. From this `ImplementsChatRoom` and, with what each user should
have by now (`NothingLost`), `NothingGoesMissing`.

**`ChatHistoryProofs`**. `ToldIsLogged` is not inductive: in the middle of a broadcast a user must not yet be
credited with the last line of the log. `ToldInTime` bounds, by phase and cursor, how far in the log a user's
messages reach (`Reach`), so that the line about to be handed on lies behind all of them; `Logged` says that this
line is in the log; a kill only widens the reach. `LogRemembers` and `ReplayFaithful` follow.

**`GoldChatProofs`**. The parent's table fills from its first slot and a handler's copy never changes, its own client being
the last in it (`Table`, `Views`); hence a handler that has come to its own slot has passed all whom it serves
(`EchoMeansReceived`). `Reading` and `Passing` count, for each handler and each slot, the messages read and passed on,
one less for slots the loop has not come to; with them each arrival is the next one of its sender (`InOrderForAll`), whoever else sends
to the socket. That there is a *first* free slot is the least-number principle for `<` on the naturals.

**`TwoWayChatProofs`**. The stream heard, the broadcaster's buffer and the pipe are of the length of what was written
and agree with it unit by unit, but for those that `snprintf()` lost (`SentInPlace`), whatever the sizes and whichever units
it loses. `Continued` and `UnitsAreSent` are the facts about sequences it needs; that the broadcaster serves only clients that were accepted (`Accepted`), and that
nothing is written before (`Unused`), is needed for the client it starts to serve.

**`StopChatProofs`**. Whose turn it is follows from the length of the talk (`InTurn`), also when an end is gone and
`recv()` leaves its buffer as it was: then that buffer holds the STOP that ended the other (`OneStopped`). From it
`PrintsWhatWasSaid`, and `KeepsAlternating`: each step is one of `Alternation` or none.

**`DialogueProofs`**. A question or its answer is in one place, the socket of the server, the hands of its
operator or the socket of its user, exactly while its user waits and it was not lost (`PlaceInv`); the counter is
ahead of what has been seen by the answers under way (`Counts`), hence `NIsTheCount`.

**`ForkServersProofs`**. The steps of the twelve programs are first shown to be of a few kinds (a process goes on,
closes, ends, accepts, forks); `ProcInv` says where each process may stand and what it may hold there: a child that can come
back to `accept()` has closed the listening socket, a client in the backlog is there once and is nobody's, an ended process
holds nothing. `NoStrangersHold`, `ServerAlone` and the refinement of `Reception`
(`ImplementsReception`) follow from it. `ForkServersTypeCorrect` needs two more: `CountInv`, a bound on the
counters, and `LineInv` (no more is left to read than was sent). What a server has counted is another matter:
`ExactInv` relates its counter to the clients that have a child, the `fork()` calls that failed and the client in hand, and
`CountsAreExact` follows, for every limit of `sv_multi.c` of at least one.

**Only model-checked.** Liveness under fairness is out of the prover's reach: `EveryGuessAnswered`, `EverybodySees`,
`ServerReturns`, `EldersHear`, `NoHandlerStuck`, `StopEndsBoth`, `EverybodyAnswered`, `AcceptedInTurn`,
`NobodyWaitsInVain`, `PortFreed`. The four findings are counterexamples, which TLC finds and there is nothing to
prove about. No property here needed an induction over data: the loops of the programs are steps of the models, and
their invariants speak of the cursor.

## Plan

1. Open in the models: cut messages in `GoldChat`; the length of `SortServer`'s answer.
2. Open in the proofs: the invariant that the liveness of `ForkServers` rests on, that every client that waits has
   something under way to it (`Lottery` and `Dialogue` have theirs, in `SocketInv` and `OnePlace`).
