----------------------------- MODULE DraftQueue -----------------------------
(***************************************************************************)
(* The life of an outbound email: a row of email_messages that reviewers   *)
(* approve, schedule, reject, move, return or delete, and that scheduler   *)
(* workers claim and send (services/draft_service.py, driven by main.py).  *)
(*                                                                         *)
(* Every backend replica runs one asyncio event loop.  A call gives the    *)
(* loop up only where the code awaits: at the safety check of a mail and,  *)
(* when integration webhooks are subscribed, at emit_event.  The mail      *)
(* providers are called synchronously.  Each SQL statement is one step, so *)
(* calls of different replicas interleave between any two statements and   *)
(* calls of one replica only at awaits.  An UPDATE holds the row lock of   *)
(* PostgreSQL until its transaction ends, and a call that waits for a row  *)
(* lock waits inside the driver: it keeps its event loop.                  *)
(***************************************************************************)
EXTENDS Integers, FiniteSets

CONSTANTS
  Drafts,       \* ids of the email_messages rows, ordered as the ids are
  Workers,      \* concurrent runs of send_due_scheduled_drafts
  Reviewers,    \* concurrent reviewer requests
  Replicas,     \* backend processes
  Home,         \* the replica that serves a worker or a reviewer
  NoCall,       \* "nobody": a row that is not locked, a loop that is free
  Ops,          \* the reviewer operations that are in use
  BatchSize,    \* scheduled_sender_batch_size
  MaxAttempts,  \* scheduled_sender_max_attempts
  MaxOps,       \* bound: reviewer requests in a behaviour
  MaxFaults,    \* bound: crashes, errors and lost answers in a behaviour
  Webhooks,     \* whether a webhook is subscribed, so that emit_event awaits
  Prompt        \* whether no claim outlives the claim timeout in live hands

Calls == Workers \cup Reviewers

ReviewerOps == {"send", "schedule", "reject", "delete", "move", "return"}

\* The operations that take a list of drafts (the batch endpoints).
BatchOps == {"send", "schedule", "reject", "delete"}

ASSUME ConstantsAssumption ==
  /\ Drafts \subseteq Nat \ {0}
  /\ Workers \cap Reviewers = {}
  /\ Home \in [Calls -> Replicas]
  /\ NoCall \notin Calls
  /\ Ops \subseteq ReviewerOps
  /\ BatchSize \in Nat \ {0}
  /\ MaxAttempts \in Nat \ {0}
  /\ MaxOps \in Nat
  /\ MaxFaults \in Nat
  /\ Webhooks \in BOOLEAN
  /\ Prompt \in BOOLEAN

VARIABLES
  msg,    \* the committed version of each row
  dirty,  \* the newest version of each row, committed or not
  lock,   \* the call whose open transaction has written the row
  call,   \* what each worker and reviewer request is doing
  loop,   \* the call that runs on each replica's event loop
  mails,  \* history: how often the provider has accepted the mail of a row
  ops,    \* reviewer requests so far
  faults  \* crashes, raised errors and lost provider answers so far

vars == <<msg, dirty, lock, call, loop, mails, ops, faults>>
rows == <<msg, dirty, lock>>
counters == <<mails, ops, faults>>

-----------------------------------------------------------------------------
(* Rows.  Times are kept as what the code compares them with: a schedule   *)
(* is in the future or due, a claim is fresh or older than the timeout.    *)

Statuses == {"DRAFT", "SCHEDULED", "SENDING", "SENT", "FAILED", "REJECTED",
             "DELETED"}

Row == [status: Statuses,
        approved: {-1, 0, 1},
        send_attempts: Nat,
        scheduled: {"none", "future", "due"},
        claimed: {"none", "fresh", "stale"}]

NewDraft == [status |-> "DRAFT", approved |-> 0, send_attempts |-> 0,
             scheduled |-> "none", claimed |-> "none"]

Scheduled(m) == [m EXCEPT !.status = "SCHEDULED", !.approved = 1,
                          !.scheduled = "future", !.send_attempts = 0]

Rejected(m) == [m EXCEPT !.status = "REJECTED", !.approved = -1]

Deleted(m) == [m EXCEPT !.status = "DELETED"]

Moved(m, at) == [m EXCEPT !.scheduled = at]

Returned(m) == [m EXCEPT !.status = "DRAFT", !.approved = 0,
                         !.scheduled = "none"]

Counted(m) == [m EXCEPT !.send_attempts = @ + 1]

\* Mutant: the row is stamped as sent but keeps its status.
Sent_KeepsStatus(m) == [m EXCEPT !.approved = 1, !.scheduled = "none",
                                 !.claimed = "none"]

Sent(m) == [m EXCEPT !.status = "SENT", !.approved = 1,
                     !.scheduled = "none", !.claimed = "none"]

Paused(m) == [m EXCEPT !.status = "DRAFT", !.approved = 0,
                       !.scheduled = "none", !.claimed = "none"]

Blocked(m) == [m EXCEPT !.status = "FAILED", !.claimed = "none"]

\* Mutant: a retry starts counting afresh.
Retried_Recounts(m) == [m EXCEPT !.status = "SCHEDULED", !.scheduled = "future",
                                 !.claimed = "none", !.send_attempts = 0]

Retried(m) == [m EXCEPT !.status = "SCHEDULED", !.scheduled = "future",
                        !.claimed = "none"]

Released(m) == [m EXCEPT !.status = "SCHEDULED", !.claimed = "none"]

\* Mutant: a claim without its time.
Claimed_Untimed(m) == [m EXCEPT !.status = "SENDING"]

\* Mutant: a claim that only sets the time.
Claimed_InPlace(m) == [m EXCEPT !.claimed = "fresh"]

Claimed(m) == [m EXCEPT !.status = "SENDING", !.claimed = "fresh"]

AsStale(m) == [m EXCEPT !.claimed = "stale"]

\* Mutant: the pause does not ask for the status.
Exhausted_AnyStatus(m) == m.approved = 1 /\ m.send_attempts >= MaxAttempts

\* What the WHERE clauses of the sweep and of the claim select.
Exhausted(m) == /\ m.status \in {"SCHEDULED", "SENDING"}
                /\ m.approved = 1
                /\ m.send_attempts >= MaxAttempts

\* Mutant: every claim counts as expired.
Expired_AnyAge(m) == /\ m.status = "SENDING"
                     /\ m.approved = 1
                     /\ m.send_attempts < MaxAttempts
                     /\ m.claimed # "none"

\* Mutant: the release looks for the status that is waiting for a claim.
Expired_Scheduled(m) == /\ m.status = "SCHEDULED"
                        /\ m.approved = 1
                        /\ m.send_attempts < MaxAttempts
                        /\ m.claimed = "stale"

Expired(m) == /\ m.status = "SENDING"
              /\ m.approved = 1
              /\ m.send_attempts < MaxAttempts
              /\ m.claimed = "stale"

Claimable(m) == /\ m.status = "SCHEDULED"
                /\ m.approved = 1
                /\ m.scheduled = "due"
                /\ m.send_attempts < MaxAttempts

\* Mutant: a draft can be deleted whatever its status.
Accepts_DeletesAny(op, m) ==
  \/ /\ op \in {"send", "schedule", "reject"}
     /\ m.status = "DRAFT"
     /\ m.approved = 0
  \/ /\ op = "delete"
     /\ m.status # "DELETED"
  \/ /\ op \in {"move", "return"}
     /\ m.status = "SCHEDULED"
     /\ m.approved = 1

\* Mutant: a row being sent can still be returned to review.
Accepts_ReturnsClaimed(op, m) ==
  \/ /\ op \in {"send", "schedule", "reject", "delete"}
     /\ m.status = "DRAFT"
     /\ m.approved = 0
  \/ /\ op = "delete"
     /\ m.status = "FAILED"
  \/ /\ op \in {"move", "return"}
     /\ m.status \in {"SCHEDULED", "SENDING"}
     /\ m.approved = 1

\* What the SELECT that opens each reviewer operation asks of the row.
Accepts(op, m) ==
  \/ /\ op \in {"send", "schedule", "reject", "delete"}
     /\ m.status = "DRAFT"
     /\ m.approved = 0
  \/ /\ op = "delete"
     /\ m.status = "FAILED"
  \/ /\ op \in {"move", "return"}
     /\ m.status = "SCHEDULED"
     /\ m.approved = 1

\* Mutant: editing a scheduled email may leave it without a time.
Outcomes_MovesToNever(op, m) ==
  CASE op = "schedule" -> {Scheduled(m)}
    [] op = "reject"   -> {Rejected(m)}
    [] op = "delete"   -> {Deleted(m)}
    [] op = "move"     -> {Moved(m, at) : at \in {"none", "future", "due"}}
    [] op = "return"   -> {Returned(m)}

\* What the UPDATE or DELETE of each reviewer operation leaves in the row.
Outcomes(op, m) ==
  CASE op = "schedule" -> {Scheduled(m)}
    [] op = "reject"   -> {Rejected(m)}
    [] op = "delete"   -> {Deleted(m)}
    [] op = "move"     -> {Moved(m, at) : at \in {"future", "due"}}
    [] op = "return"   -> {Returned(m)}

Sendable(m) == /\ m.status \in {"DRAFT", "SCHEDULED", "SENDING"}
               /\ m.approved \in {0, 1}

IsScheduledSend(m) == m.status \in {"SCHEDULED", "SENDING"}

\* Mutant: one attempt too many before the row is paused.
AfterFailure_OneMore(m, c) ==
  CASE c.was /\ c.result = "unsafe" -> Blocked(m)
    [] c.was /\ c.result # "unsafe" /\ c.seen > MaxAttempts -> Paused(m)
    [] c.was /\ c.result # "unsafe" /\ c.seen <= MaxAttempts -> Retried(m)
    [] OTHER -> m

\* What a refused or blocked send leaves in the row.
AfterFailure(m, c) ==
  CASE c.was /\ c.result = "unsafe" -> Blocked(m)
    [] c.was /\ c.result # "unsafe" /\ c.seen >= MaxAttempts -> Paused(m)
    [] c.was /\ c.result # "unsafe" /\ c.seen < MaxAttempts -> Retried(m)
    [] OTHER -> m

-----------------------------------------------------------------------------
(* Calls and the two resources they hold: row locks and the event loop.    *)

Places == {"idle", "sweep", "release", "claim", "select", "update", "read",
           "count", "commit", "check", "mail", "mark", "recount", "fail",
           "emit", "next"}

\* Where a call has no row in hand.
Rowless == {"idle", "sweep", "release", "claim"}

Results == {"none", "error", "unsafe"}

Call == [at: Places,
         op: ReviewerOps \cup {"none", "tick"},
         todo: SUBSET Drafts,
         cur: Drafts \cup {0},
         was: BOOLEAN,
         seen: Nat,
         result: Results]

Idle == [at |-> "idle", op |-> "none", todo |-> {}, cur |-> 0,
         was |-> FALSE, seen |-> 0, result |-> "none"]

First(S) == CHOOSE d \in S : \A e \in S : d <= e

\* Reviewers go through their ids in order, workers as RETURNING lists them.
Heads(h, S) == IF h \in Reviewers THEN {First(S)} ELSE S

Begin(op, at, todo, d) == [Idle EXCEPT !.op = op, !.at = at, !.todo = todo,
                                       !.cur = d]

Takes(h)    == loop' = [loop EXCEPT ![Home[h]] = h]
Yields(h)   == loop' = [loop EXCEPT ![Home[h]] = NoCall]
LoopFree(h) == loop[Home[h]] = NoCall
Runs(h)     == loop[Home[h]] = h

Goes(h, at) == call' = [call EXCEPT ![h].at = at]

\* The send of call h ends with an error.
Fails(h, r) == call' = [call EXCEPT ![h].at = "recount", ![h].result = r]

\* The version of a row that a SELECT of call h returns.
View(h, d) == IF lock[d] = h THEN dirty[d] ELSE msg[d]

\* Mutant: the statement runs outside the transaction.
Update_NoTransaction(h, d, new) ==
  /\ lock[d] \in {h, NoCall}
  /\ IF dirty[d].status = "DELETED"
     THEN UNCHANGED dirty
     ELSE dirty' = [dirty EXCEPT ![d] = new]
  /\ UNCHANGED <<msg, lock>>

\* An UPDATE ... WHERE id = d of call h: it waits for the row, works on the
\* newest version, and changes nothing when the row is gone.
Update(h, d, new) ==
  /\ lock[d] \in {h, NoCall}
  /\ IF dirty[d].status = "DELETED"
     THEN UNCHANGED <<lock, dirty>>
     ELSE /\ lock' = [lock EXCEPT ![d] = h]
          /\ dirty' = [dirty EXCEPT ![d] = new]
  /\ UNCHANGED msg

\* An UPDATE of call h that selects the rows D: it waits for all of them.
UpdateAll(h, D, New(_)) ==
  /\ \A d \in D : lock[d] \in {h, NoCall}
  /\ lock' = [d \in Drafts |-> IF d \in D THEN h ELSE lock[d]]
  /\ dirty' = [d \in Drafts |-> IF d \in D THEN New(dirty[d]) ELSE dirty[d]]
  /\ UNCHANGED msg

Unlock(h) ==
  lock' = [d \in Drafts |-> IF lock[d] = h THEN NoCall ELSE lock[d]]

Commit(h) ==
  /\ msg' = [d \in Drafts |-> View(h, d)]
  /\ Unlock(h)
  /\ UNCHANGED dirty

-----------------------------------------------------------------------------
Init ==
  /\ msg \in [Drafts -> {NewDraft, Scheduled(NewDraft)}]
  /\ dirty = msg
  /\ lock = [d \in Drafts |-> NoCall]
  /\ call = [h \in Calls |-> Idle]
  /\ loop = [r \in Replicas |-> NoCall]
  /\ mails = [d \in Drafts |-> 0]
  /\ ops = 0
  /\ faults = 0

-----------------------------------------------------------------------------
(* Reviewer requests.                                                      *)

\* A request reaches its handler: approve, reject, schedule and delete take
\* one draft or several, the other operations one.
Request(h) ==
  /\ call[h].at = "idle"
  /\ LoopFree(h)
  /\ ops < MaxOps
  /\ \E op \in Ops, D \in (SUBSET Drafts) \ {{}} :
       /\ op \in BatchOps \/ Cardinality(D) = 1
       /\ call' = [call EXCEPT ![h] = Begin(op, "select", D, First(D))]
  /\ ops' = ops + 1
  /\ Takes(h)
  /\ UNCHANGED <<rows, mails, faults>>

\* The SELECT that finds the draft, or answers not_found.
SelectDraft(h) ==
  /\ call[h].at = "select"
  /\ Runs(h)
  /\ Goes(h, IF ~Accepts(call[h].op, View(h, call[h].cur)) THEN "next"
             ELSE IF call[h].op = "send" THEN "read"
             ELSE "update")
  /\ UNCHANGED <<rows, loop, counters>>

\* The write of the operation.  Scheduling and rejecting then emit an event,
\* inside the transaction.
UpdateDraft(h) ==
  LET d == call[h].cur
      emits == Webhooks /\ call[h].op \in {"schedule", "reject"}
  IN
  /\ call[h].at = "update"
  /\ Runs(h)
  /\ \E new \in Outcomes(call[h].op, dirty[d]) : Update(h, d, new)
  /\ IF emits
     THEN Goes(h, "emit") /\ Yields(h)
     ELSE Goes(h, "next") /\ UNCHANGED loop
  /\ UNCHANGED counters

\* The webhooks have been posted and the handler resumes.
EmitDone(h) ==
  /\ call[h].at = "emit"
  /\ LoopFree(h)
  /\ Takes(h)
  /\ Goes(h, "next")
  /\ UNCHANGED <<rows, counters>>

-----------------------------------------------------------------------------
(* send_approved_draft, for a reviewer's approval and for a claimed row.   *)

ReadForSend(h) ==
  LET m == View(h, call[h].cur) IN
  /\ call[h].at = "read"
  /\ Runs(h)
  /\ IF Sendable(m)
     THEN call' = [call EXCEPT ![h].at = "count",
                               ![h].was = IsScheduledSend(m)]
     ELSE Goes(h, "next")
  /\ UNCHANGED <<rows, loop, counters>>

CountAttempt(h) ==
  LET d == call[h].cur IN
  /\ call[h].at = "count"
  /\ Runs(h)
  /\ Update(h, d, Counted(dirty[d]))
  /\ Goes(h, "commit")
  /\ UNCHANGED <<loop, counters>>

\* The attempt is committed before the mail is sent.  The safety check is
\* awaited, unless the mail is refused before (its daily limit, say).
Dispatch(h) ==
  /\ call[h].at = "commit"
  /\ Runs(h)
  /\ Commit(h)
  /\ \/ Goes(h, "check") /\ Yields(h)
     \/ Fails(h, "error") /\ UNCHANGED loop
  /\ UNCHANGED counters

\* The safety check passes, fails, or finds the mail unsafe.
SafetyChecked(h) ==
  /\ call[h].at = "check"
  /\ LoopFree(h)
  /\ Takes(h)
  /\ \/ Goes(h, "mail")
     \/ \E r \in {"error", "unsafe"} : Fails(h, r)
  /\ UNCHANGED <<rows, counters>>

\* The provider accepts the mail.
ProviderAccepts(h) ==
  /\ call[h].at = "mail"
  /\ Runs(h)
  /\ mails' = [mails EXCEPT ![call[h].cur] = @ + 1]
  /\ Goes(h, "mark")
  /\ UNCHANGED <<rows, loop, ops, faults>>

\* The provider refuses the mail, or cannot be reached.
ProviderRefuses(h) ==
  /\ call[h].at = "mail"
  /\ Runs(h)
  /\ Fails(h, "error")
  /\ UNCHANGED <<rows, loop, counters>>

\* The mail is accepted and the answer is lost: the call sees an error.
ProviderAnswerLost(h) ==
  /\ call[h].at = "mail"
  /\ Runs(h)
  /\ faults < MaxFaults
  /\ mails' = [mails EXCEPT ![call[h].cur] = @ + 1]
  /\ Fails(h, "error")
  /\ faults' = faults + 1
  /\ UNCHANGED <<rows, loop, ops>>

MarkSent(h) ==
  LET d == call[h].cur IN
  /\ call[h].at = "mark"
  /\ Runs(h)
  /\ Update(h, d, Sent(dirty[d]))
  /\ IF Webhooks
     THEN Goes(h, "emit") /\ Yields(h)
     ELSE Goes(h, "next") /\ UNCHANGED loop
  /\ UNCHANGED counters

\* The SELECT of send_attempts after a failure (0 when the row is gone).
RecountAttempts(h) ==
  LET m == View(h, call[h].cur) IN
  /\ call[h].at = "recount"
  /\ Runs(h)
  /\ call' = [call EXCEPT ![h].at = "fail",
                          ![h].seen = IF m.status = "DELETED" THEN 0
                                      ELSE m.send_attempts]
  /\ UNCHANGED <<rows, loop, counters>>

RecordFailure(h) ==
  LET d == call[h].cur IN
  /\ call[h].at = "fail"
  /\ Runs(h)
  /\ Update(h, d, AfterFailure(dirty[d], call[h]))
  /\ Goes(h, "next")
  /\ UNCHANGED <<loop, counters>>

\* The loop over the drafts of a call.  A worker commits after every draft,
\* a reviewer when the connection closes after the last one.
NextDraft(h) ==
  LET rest == call[h].todo \ {call[h].cur} IN
  /\ call[h].at = "next"
  /\ Runs(h)
  /\ IF h \in Workers \/ rest = {} THEN Commit(h) ELSE UNCHANGED rows
  /\ IF rest = {}
     THEN /\ call' = [call EXCEPT ![h] = Idle]
          /\ Yields(h)
     ELSE /\ \E d \in Heads(h, rest) :
               call' = [call EXCEPT ![h] =
                          Begin(call[h].op,
                                IF h \in Workers THEN "read" ELSE "select",
                                rest, d)]
          /\ UNCHANGED loop
  /\ UNCHANGED counters

-----------------------------------------------------------------------------
(* send_due_scheduled_drafts.                                              *)

\* A worker run starts: the background loop or the send-due endpoint.  Runs
\* that find nothing to do change nothing and are left out.
Tick(h) ==
  /\ call[h].at = "idle"
  /\ LoopFree(h)
  /\ \E d \in Drafts :
       Exhausted(msg[d]) \/ Expired(msg[d]) \/ Claimable(msg[d])
  /\ call' = [call EXCEPT ![h].at = "sweep", ![h].op = "tick"]
  /\ Takes(h)
  /\ UNCHANGED <<rows, counters>>

\* Rows whose attempts are used up go back to review.
PauseExhausted(h) ==
  /\ call[h].at = "sweep"
  /\ Runs(h)
  /\ UpdateAll(h, {d \in Drafts : Exhausted(View(h, d))}, Paused)
  /\ Goes(h, "release")
  /\ UNCHANGED <<loop, counters>>

\* Claims older than the timeout are given up.
ReleaseExpired(h) ==
  /\ call[h].at = "release"
  /\ Runs(h)
  /\ UpdateAll(h, {d \in Drafts : Expired(View(h, d))}, Released)
  /\ Goes(h, "claim")
  /\ UNCHANGED <<loop, counters>>

\* Up to a batch of due rows is claimed, rows that are locked are skipped,
\* and the sweep is committed.
ClaimDue(h) ==
  LET due == {d \in Drafts : lock[d] \in {h, NoCall} /\ Claimable(View(h, d))}
  IN
  /\ call[h].at = "claim"
  /\ Runs(h)
  /\ \E S \in SUBSET due :
       /\ S = due \/ Cardinality(S) = BatchSize
       /\ Cardinality(S) <= BatchSize
       /\ msg' = [d \in Drafts |-> IF d \in S THEN Claimed(View(h, d))
                                  ELSE View(h, d)]
       /\ dirty' = [d \in Drafts |-> IF d \in S THEN Claimed(dirty[d])
                                    ELSE dirty[d]]
       /\ Unlock(h)
       /\ IF S = {}
          THEN call' = [call EXCEPT ![h] = Idle] /\ Yields(h)
          ELSE /\ \E d \in S :
                    call' = [call EXCEPT ![h] = Begin("tick", "read", S, d)]
               /\ UNCHANGED loop
  /\ UNCHANGED counters

-----------------------------------------------------------------------------
(* Time and failures.                                                      *)

\* The scheduled time of a row arrives.
BecomeDue(d) ==
  LET due(m) == IF m.scheduled = "future" THEN Moved(m, "due") ELSE m IN
  /\ msg[d].scheduled = "future" \/ dirty[d].scheduled = "future"
  /\ msg' = [msg EXCEPT ![d] = due(@)]
  /\ dirty' = [dirty EXCEPT ![d] = due(@)]
  /\ UNCHANGED <<lock, call, loop, counters>>

\* The claim of a row gets older than the claim timeout.
ClaimExpires(d) ==
  LET old(m) == IF m.claimed = "fresh" THEN AsStale(m) ELSE m IN
  /\ msg[d].claimed = "fresh"
  /\ Prompt => \A h \in Calls : d \notin call[h].todo
  /\ msg' = [msg EXCEPT ![d] = old(@)]
  /\ dirty' = [dirty EXCEPT ![d] = old(@)]
  /\ UNCHANGED <<lock, call, loop, counters>>

\* Mutant: the connection goes back to the pool without a rollback.
Vanish_LeaksLocks(dead) ==
  /\ faults < MaxFaults
  /\ call' = [h \in Calls |-> IF h \in dead THEN Idle ELSE call[h]]
  /\ loop' = [r \in Replicas |-> IF loop[r] \in dead THEN NoCall ELSE loop[r]]
  /\ faults' = faults + 1
  /\ UNCHANGED <<rows, mails, ops>>

\* Calls vanish: the database rolls their open transactions back, and mail
\* already handed over stays sent.
Vanish(dead) ==
  /\ faults < MaxFaults
  /\ call' = [h \in Calls |-> IF h \in dead THEN Idle ELSE call[h]]
  /\ dirty' = [d \in Drafts |-> IF lock[d] \in dead THEN msg[d] ELSE dirty[d]]
  /\ lock' = [d \in Drafts |-> IF lock[d] \in dead THEN NoCall ELSE lock[d]]
  /\ loop' = [r \in Replicas |-> IF loop[r] \in dead THEN NoCall ELSE loop[r]]
  /\ faults' = faults + 1
  /\ UNCHANGED <<msg, mails, ops>>

\* A replica dies or restarts.
Crash(r) ==
  LET dead == {h \in Calls : Home[h] = r /\ call[h].at # "idle"} IN
  /\ dead # {}
  /\ Vanish(dead)

\* A statement of a call raises, a lost connection say: the call ends there
\* and the rest of its batch is left as it is.
StatementRaises(h) ==
  /\ call[h].at # "idle"
  /\ Runs(h)
  /\ Vanish({h})

-----------------------------------------------------------------------------
\* The steps a call takes while it has the event loop.
Running(h) ==
  \/ SelectDraft(h) \/ UpdateDraft(h)
  \/ ReadForSend(h) \/ CountAttempt(h) \/ Dispatch(h)
  \/ MarkSent(h) \/ RecountAttempts(h) \/ RecordFailure(h)
  \/ NextDraft(h)

\* The steps that give a waiting call the event loop back.
Resuming(h) == EmitDone(h) \/ SafetyChecked(h)

Sweeping(h) == PauseExhausted(h) \/ ReleaseExpired(h) \/ ClaimDue(h)

Answering(h) == ProviderAccepts(h) \/ ProviderRefuses(h)

Next ==
  \/ \E h \in Reviewers : Request(h)
  \/ \E h \in Workers : Tick(h) \/ Sweeping(h)
  \/ \E h \in Calls :
       \/ Running(h) \/ Resuming(h) \/ Answering(h)
       \/ ProviderAnswerLost(h) \/ StatementRaises(h)
  \/ \E d \in Drafts : BecomeDue(d) \/ ClaimExpires(d)
  \/ \E r \in Replicas : Crash(r)

Spec == Init /\ [][Next]_vars

(* Fairness: an event loop runs its ready callbacks in turn and PostgreSQL *)
(* queues lock waiters, so a call whose next step is possible again and    *)
(* again takes it (strong fairness, per call); webhooks, models and mail   *)
(* providers answer or time out, the scheduler wakes up at every interval, *)
(* and time passes.                                                        *)
(* Nobody has to make requests, and nothing has to go wrong.               *)
Proceeds(h) ==
  \/ Running(h) \/ Resuming(h) \/ Answering(h)
  \/ h \in Workers /\ (Tick(h) \/ Sweeping(h))

Fairness ==
  /\ \A h \in Calls : SF_vars(Proceeds(h))
  /\ \A d \in Drafts : WF_vars(BecomeDue(d) \/ ClaimExpires(d))

FairSpec == Spec /\ Fairness

-----------------------------------------------------------------------------
(* Properties.                                                             *)

\* The variables have their types, and a row nobody is writing has a single
\* version: no transaction ends without its changes kept or undone.
RowsOK ==
  /\ msg \in [Drafts -> Row]
  /\ dirty \in [Drafts -> Row]
  /\ lock \in [Drafts -> Calls \cup {NoCall}]
  /\ \A d \in Drafts : lock[d] = NoCall => dirty[d] = msg[d]

CallsOK ==
  /\ call \in [Calls -> Call]
  /\ \A h \in Calls :
       /\ call[h].at \notin Rowless => call[h].cur \in Drafts
       /\ call[h].at = "update" => call[h].op \in ReviewerOps \ {"send"}

LoopOK == loop \in [Replicas -> Calls \cup {NoCall}]

CountersOK ==
  /\ mails \in [Drafts -> Nat]
  /\ ops \in Nat
  /\ faults \in Nat

TypeOK == RowsOK /\ CallsOK /\ LoopOK /\ CountersOK

\* A committed SENDING row can always be taken up again: it is approved, has
\* a schedule and carries a claim time, so that once its claim is stale (or
\* its attempts are used up) the sweep selects it, whoever crashed while
\* sending it and whatever reviewers did to it in between.
ClaimRecoverable ==
  \A d \in Drafts : msg[d].status = "SENDING" =>
    /\ msg[d].approved = 1
    /\ msg[d].scheduled # "none"
    /\ msg[d].claimed # "none"

\* No attempt is forgotten: however the sends of several calls, the sweeps
\* and the reviewers interleave, the committed send_attempts of a row goes
\* down only when a scheduling approval commits, and then to 0.
AttemptsNeverLost ==
  [][\A d \in Drafts : msg'[d].send_attempts < msg[d].send_attempts =>
       /\ msg'[d].send_attempts = 0
       /\ \E h \in Reviewers : lock[d] = h /\ call[h].op = "schedule"]_msg

\* Two workers never have the same row in hand (claimed and not finished).
ClaimsExclusive ==
  \A v, w \in Workers : v # w => call[v].todo \cap call[w].todo = {}

\* A row that waits for the scheduler can be claimed one day: it is approved
\* and has a time.
NoZombie ==
  \A d \in Drafts : msg[d].status = "SCHEDULED" =>
    /\ msg[d].approved = 1
    /\ msg[d].scheduled # "none"
    /\ msg[d].send_attempts < MaxAttempts

\* The provider accepts the mail of a row once, and once more only for a
\* crash or a lost answer.
DuplicateNeedsFault ==
  \A d \in Drafts : mails[d] <= 1 + faults

\* Mail that left is on record: without faults, once nobody works on a row
\* whose mail was accepted, the row says SENT.
MailIsRecorded ==
  \A d \in Drafts :
    (/\ mails[d] > 0
     /\ faults = 0
     /\ lock[d] = NoCall
     /\ \A h \in Calls : d \notin call[h].todo)
    => msg[d].status = "SENT"

\* Once SENT, always SENT: no later failure, pause, decision or deletion
\* takes a sent row back.
SentIsFinal ==
  [][\A d \in Drafts : msg[d].status = "SENT" => msg'[d].status = "SENT"]_msg

\* A worker puts into the provider's hands only what is approved and claimed
\* at that moment.
WorkerSendsClaimed ==
  \A h \in Workers : call[h].at \in {"commit", "check", "mail"} =>
    LET m == dirty[call[h].cur] IN
    m.status = "SENDING" /\ m.approved = 1

\* Every request and every run of the scheduler ends.
CallsFinish ==
  \A h \in Calls : call[h].at # "idle" ~> call[h].at = "idle"

\* A scheduled or claimed row does not stay so for ever: it is sent, fails
\* for good or comes back to review.
ScheduledResolves ==
  \A d \in Drafts :
    msg[d].status \in {"SCHEDULED", "SENDING"}
      ~> msg[d].status \notin {"SCHEDULED", "SENDING"}

\* Workers of different replicas do not mail the same row at the same time
\* (docs/DEPLOY_AZURE.md, "Scheduler").
SameRowOneSender ==
  \A v, w \in Workers :
    (v # w /\ call[v].at = "mail" /\ call[w].at = "mail")
      => call[v].cur # call[w].cur

\* A claim ends: a row in SENDING is sent or released for a retry
\* (docs/DEPLOY_AZURE.md, "Scheduler").
ClaimReleased ==
  \A d \in Drafts :
    msg[d].status = "SENDING" ~> msg[d].status # "SENDING"

=============================================================================
