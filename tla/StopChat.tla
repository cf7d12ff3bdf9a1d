------------------------------- MODULE StopChat -------------------------------
(***************************************************************************)
(* The TCP chat of 28_11/GPT: tcp_server.c and tcp_client.c.  Both run the *)
(* same loop of typing a message and receiving one, entered at different   *)
(* points, and leave it when the message received is STOP.  Neither looks  *)
(* at what recv() returns: when the other end is gone the buffer still     *)
(* holds what this end typed last, and is shown and compared as if it had  *)
(* been received.                                                          *)
(***************************************************************************)
EXTENDS Naturals, Sequences, FiniteSets

CONSTANTS
    Stop, Texts,        \* the line "STOP" and the other lines
    MaxTyped, MaxKills  \* bounds: lines an end types, processes that die

VARIABLES
    pc,         \* pc[e]: "type", "recv", "done", or "dead"
    buffer,     \* buffer[e]
    wire,       \* wire[e]: messages e has sent and the other not received
    link,       \* link[e]: "open", and when the other end is gone "fin" or "reset"
    typed,      \* typed[e]: how many lines e has typed
    shown,      \* shown[e]: the lines e has printed as the other's
    talk        \* history: the messages sent to a process that was there

vars == <<pc, buffer, wire, link, typed, shown, talk>>

Ends == {"client", "server"}
Other(e) == IF e = "client" THEN "server" ELSE "client"
Messages == Texts \cup {Stop}

(* Faulty variant: the server opens the conversation too. *)
StartTyping(e) == "type"

Start(e) == IF e = "client" THEN "type" ELSE "recv"

(* The buffers are not initialised: they hold anything. *)
Init ==
    /\ pc = [e \in Ends |-> Start(e)]
    /\ buffer \in [Ends -> Messages]
    /\ wire = [e \in Ends |-> << >>]
    /\ link = [e \in Ends |-> "open"]
    /\ typed = [e \in Ends |-> 0]
    /\ shown = [e \in Ends |-> << >>]
    /\ talk = << >>

(* The links when e goes: what it leaves unread turns the FIN that the     *)
(* other gets into a RST.                                                  *)
Gone(e) ==
    [link EXCEPT ![Other(e)] = IF wire'[Other(e)] # << >> THEN "reset" ELSE "fin"]

(* fgets() and send().  At end of file fgets() leaves the buffer as it is. *)
(* The first send() to an end that is gone draws a reset, and a send()     *)
(* after a reset raises SIGPIPE.                                           *)
Type(e) ==
    /\ pc[e] = "type"
    /\ typed[e] < MaxTyped
    /\ typed' = [typed EXCEPT ![e] = @ + 1]
    /\ \E m \in Messages \cup {buffer[e]} :
          /\ buffer' = [buffer EXCEPT ![e] = m]
          /\ IF link[e] = "open"
             THEN /\ wire' = [wire EXCEPT ![e] = Append(@, m)]
                  /\ talk' = Append(talk, [by |-> e, text |-> m])
             ELSE UNCHANGED <<wire, talk>>
    /\ IF link[e] = "reset"
       THEN pc' = [pc EXCEPT ![e] = "dead"] /\ link' = Gone(e)
       ELSE /\ pc' = [pc EXCEPT ![e] = "recv"]
            /\ link' = [link EXCEPT ![e] = IF @ = "fin" THEN "reset" ELSE @]
    /\ UNCHANGED shown

(* Faulty variants: the message goes elsewhere; the buffer is cleared      *)
(* before recv().                                                          *)
ReceivedElsewhere(e) == buffer[e]
ReceivedBlank(e) == IF wire[Other(e)] # << >> THEN Head(wire[Other(e)]) ELSE CHOOSE t \in Texts : TRUE

(* The buffer after recv(). *)
Received(e) == IF wire[Other(e)] # << >> THEN Head(wire[Other(e)]) ELSE buffer[e]

(* recv(), printf() and strcmp(). *)
Receive(e) ==
    /\ pc[e] = "recv"
    /\ wire[Other(e)] # << >> \/ link[e] # "open"
    /\ buffer' = [buffer EXCEPT ![e] = Received(e)]
    /\ shown' = [shown EXCEPT ![e] = Append(@, Received(e))]
    /\ wire' = [wire EXCEPT ![Other(e)] = IF @ # << >> THEN Tail(@) ELSE @]
    /\ pc' = [pc EXCEPT ![e] = IF Received(e) = Stop THEN "done" ELSE "type"]
    /\ link' = IF Received(e) = Stop THEN Gone(e) ELSE link
    /\ UNCHANGED <<typed, talk>>

(* A user stops a process (Ctrl-C). *)
Kill(e) ==
    /\ pc[e] \in {"type", "recv"}
    /\ Cardinality({f \in Ends : pc[f] = "dead"}) < MaxKills
    /\ pc' = [pc EXCEPT ![e] = "dead"]
    /\ UNCHANGED <<buffer, wire, typed, shown, talk>>
    /\ link' = Gone(e)

Next == \E e \in Ends : Type(e) \/ Receive(e) \/ Kill(e)

Spec == Init /\ [][Next]_vars

(* recv() returns when there is something to return; nobody need type.     *)
FairSpec == Spec /\ \A e \in Ends : WF_vars(Receive(e))

-----------------------------------------------------------------------------
(* Properties. *)

(* At most one message is under way. *)
TypeOK ==
    /\ pc \in [Ends -> {"type", "recv", "done", "dead"}]
    /\ buffer \in [Ends -> Messages]
    /\ link \in [Ends -> {"open", "fin", "reset"}]
    /\ Len(wire["client"]) + Len(wire["server"]) <= 1

(* The pair keeps to the rigid alternation, whoever ends it and however.   *)
Talk == INSTANCE Alternation WITH
            heard <- Len(talk) - Len(wire["client"]) - Len(wire["server"])

Alternates == Talk!TalkSpec

(* What the client said, and the server: the odd and the even entries.     *)
SaidBy(e) ==
    LET first == IF e = "client" THEN 1 ELSE 2
    IN  [i \in 1..((Len(talk) + 2 - first) \div 2) |-> talk[2*i + first - 2].text]

(* The lines printed as the other's are the lines it sent; the only own    *)
(* line among them is the STOP that ended this end as well.  Nothing of    *)
(* the kind holds once a process was killed.                               *)
ShownWasSaid ==
    (\A e \in Ends : pc[e] # "dead") =>
        \A e \in Ends :
            shown[e] \o wire[Other(e)] =
                SaidBy(Other(e)) \o (IF pc[e] = "done" /\ talk[Len(talk)].by = e
                                     THEN <<Stop>> ELSE << >>)

(* STOP ends both: the end that receives it closes, and the end that typed *)
(* it finds its own STOP in the buffer when recv() returns nothing.        *)
StopEndsBoth ==
    \A e \in Ends : pc[e] = "done" ~> pc[Other(e)] \in {"done", "dead"}

=============================================================================
