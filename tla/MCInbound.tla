------------------------------ MODULE MCInbound ------------------------------
(* Instances of Inbound for TLC. *)
EXTENDS Inbound

CONSTANTS a, s1, s2, h1, p

\* Messages of one lead: the first writes its address in another case, the third cannot
\* be fetched, and an opt-out comes by webhook.
Senders == [m \in Messages |-> a]

Meanings == [m \in Messages |-> CASE m = p -> "opt_out"
                                  [] m = 2 -> "meeting_confirmation"
                                  [] OTHER -> "interest"]

Approvals == [m \in Messages |-> CASE m = 2 -> BOOLEAN
                                   [] OTHER -> {FALSE}]
=============================================================================
