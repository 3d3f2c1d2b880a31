----------------------------- MODULE MailLifecycle -----------------------------
(***************************************************************************)
(* What the draft queue promises of its mails to those who neither see its *)
(* workers nor its transactions: the states a mail may go through, when it *)
(* may leave, and that it leaves again only when the record of its leaving *)
(* was lost.                                                               *)
(***************************************************************************)
EXTENDS Integers

CONSTANT Drafts

VARIABLES
  state,   \* what is on record of each mail
  out,     \* the mails that have left and are not on record as sent
  copies,  \* how often each mail has left
  lost     \* how many failures there were

lifecycle == <<state, out, copies, lost>>

States == {"review", "scheduled", "delivery", "failed", "rejected", "deleted", "sent"}

\* The decisions of reviewers, the claims of workers, and the failures of deliveries.
\* What is scheduled or in delivery can be neither rejected nor deleted, and what is
\* rejected, deleted or sent stays so.
Turns == {<<"review", "scheduled">>, <<"review", "rejected">>, <<"review", "deleted">>,
          <<"scheduled", "review">>, <<"scheduled", "delivery">>,
          <<"delivery", "scheduled">>, <<"delivery", "review">>,
          <<"delivery", "failed">>, <<"failed", "deleted">>}

Init ==
  /\ state \in [Drafts -> {"review", "scheduled"}]
  /\ out = {}
  /\ copies = [d \in Drafts |-> 0]
  /\ lost = 0

\* Some mails move on, none of those that have left.
Turn ==
  /\ state' \in [Drafts -> States]
  /\ \A d \in Drafts : \/ state'[d] = state[d]
                       \/ d \notin out /\ <<state[d], state'[d]>> \in Turns
  /\ UNCHANGED <<out, copies, lost>>

\* A mail in delivery leaves, or one in review that is approved at once.
Leave(d) ==
  /\ state[d] \in {"review", "delivery"} /\ d \notin out
  /\ copies' = [copies EXCEPT ![d] = @ + 1]
  /\ out' = out \cup {d}
  /\ UNCHANGED <<state, lost>>

\* A mail leaves and nobody hears of it.
LeaveUnheard(d) ==
  /\ state[d] \in {"review", "delivery"} /\ d \notin out
  /\ copies' = [copies EXCEPT ![d] = @ + 1]
  /\ lost' = lost + 1
  /\ UNCHANGED <<state, out>>

\* The mails S that have left are recorded as sent.
Record(S) ==
  /\ state' = [d \in Drafts |-> IF d \in S THEN "sent" ELSE state[d]]
  /\ out' = out \ S
  /\ UNCHANGED <<copies, lost>>

\* A failure: it is forgotten that the mails S have left.
Lose(S) ==
  /\ out' = out \ S
  /\ lost' = lost + 1
  /\ UNCHANGED <<state, copies>>

Next ==
  \/ Turn
  \/ \E d \in Drafts : Leave(d) \/ LeaveUnheard(d)
  \/ \E S \in SUBSET out : S # {} /\ Record(S)
  \/ \E S \in SUBSET out : Lose(S)

Spec == Init /\ [][Next]_lifecycle
=============================================================================
