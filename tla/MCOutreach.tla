----------------------------- MODULE MCOutreach -----------------------------
(* Instances of Outreach for TLC. *)
EXTENDS Outreach, TLC

CONSTANTS a, b, r1, r2

\* A sequence of two e-mails around a step on LinkedIn, for which the second
\* lead has no data.
ThreeSteps == <<"email", "linkedin", "email">>

\* A sequence is emptied, gets a gap, or starts on another channel and has its second
\* step switched off.
ThreeSequences ==
  LET Wanted(channel, active) == [channel |-> channel, active |-> active] IN
  {<<>>,
   (1 :> Wanted("email", TRUE)) @@ (3 :> Wanted("email", TRUE)),
   <<Wanted("linkedin", TRUE), Wanted("email", FALSE)>>}

\* Bound: of three runs, two operations and one fault, any four.
Few == starts + ops + faults <= 4

RunsAlike == Permutations(Runs)

\* A run sends for both leads, or drafts for one of them.
TwoSettings == {[auto |-> TRUE, batch |-> 2], [auto |-> FALSE, batch |-> 1]}

ReachBoth == [l \in Leads |-> IF l = b THEN {"email"} ELSE Channels]
=============================================================================
