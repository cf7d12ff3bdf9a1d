----------------------------- MODULE Alternation -----------------------------
(***************************************************************************)
(* The chat that 28_11/E1.c (line 1) sets as its task: both ends send      *)
(* messages and show the ones they receive, in a rigidly alternating       *)
(* scheme, client, server, client, server.  Nobody speaks before hearing   *)
(* what was said last.                                                     *)
(***************************************************************************)
EXTENDS Naturals, Sequences

CONSTANT Messages

VARIABLES
    talk,       \* what has been said: the odd entries by the client
    heard       \* how many of them the other end has shown

TalkInit == talk = << >> /\ heard = 0

(* Whose turn it is. *)
Speaker == IF Len(talk) % 2 = 0 THEN "client" ELSE "server"

Say(who, m) ==
    /\ who = Speaker
    /\ heard = Len(talk)
    /\ talk' = Append(talk, [by |-> who, text |-> m])
    /\ UNCHANGED heard

Hear ==
    /\ heard < Len(talk)
    /\ heard' = heard + 1
    /\ UNCHANGED talk

TalkNext == Hear \/ \E who \in {"client", "server"}, m \in Messages : Say(who, m)

TalkSpec == TalkInit /\ [][TalkNext]_<<talk, heard>>
=============================================================================
