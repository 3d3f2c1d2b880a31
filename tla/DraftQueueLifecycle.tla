-------------------------- MODULE DraftQueueLifecycle --------------------------
(* The draft queue of one replica implements MailLifecycle. *)
EXTENDS DraftQueue

\* What the committed row says of a mail.
StateOf(d) ==
  CASE msg[d].status = "DRAFT"     -> "review"
    [] msg[d].status = "SCHEDULED" -> "scheduled"
    [] msg[d].status = "SENDING"   -> "delivery"
    [] msg[d].status = "FAILED"    -> "failed"
    [] msg[d].status = "REJECTED"  -> "rejected"
    [] msg[d].status = "DELETED"   -> "deleted"
    [] msg[d].status = "SENT"      -> "sent"

\* The provider has accepted the mail in this attempt, and the row that says so is not
\* written or not committed.
IsOut(d) ==
  \/ \E h \in Calls : call[h].at = "mark" /\ call[h].cur = d
  \/ dirty[d].status = "SENT" /\ msg[d].status # "SENT"

Lifecycle == INSTANCE MailLifecycle
  WITH state  <- [d \in Drafts |-> StateOf(d)],
       out    <- {d \in Drafts : IsOut(d)},
       copies <- mails,
       lost   <- faults

\* Whatever workers and reviewers interleave, every step of the queue is one of the
\* lifecycle or invisible in it: a mail leaves only from review or delivery, what has
\* left and is not yet on record is neither decided upon nor sent again, what is
\* scheduled cannot be deleted, and only a failure makes a mail leave twice
\* (process_single_draft_approval, send_approved_draft, send_due_scheduled_drafts).
ImplementsLifecycle == Lifecycle!Spec
=============================================================================
