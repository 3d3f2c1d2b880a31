----------------------------- MODULE MCMailboxes -----------------------------
(* Instances of Mailboxes for TLC. *)
EXTENDS Mailboxes

CONSTANTS x, y, s1, s2, loop
=============================================================================
