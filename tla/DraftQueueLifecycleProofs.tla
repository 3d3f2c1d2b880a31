----------------------- MODULE DraftQueueLifecycleProofs -----------------------
(* The draft queue implements MailLifecycle as long as one scheduler run   *)
(* and one approval that sends are at work on one event loop, whatever the *)
(* number of rows, attempts, faults, requests and other reviewers.         *)
EXTENDS DraftQueueLifecycle, DraftQueueProofs

(* The hypothesis of the theorems of this module: all calls share one      *)
(* event loop, there is at most one scheduler run at a time, and at most   *)
(* one reviewer whose approvals send.  A process that runs the scheduler   *)
(* loop and serves POST /api/drafts/send-due as well, or two approvals     *)
(* that send, are not covered; nor are replicas.  The runs draft_claims,   *)
(* draft_fleet and draft_senders are about those.                          *)
OneSender ==
  /\ \A g, h \in Calls : Home[g] = Home[h]
  /\ \A v, w \in Workers : v = w
  /\ "send" \in Ops => \A r, s \in Reviewers : r = s

(* Where a call is between the SELECT of send_approved_draft and the end   *)
(* of the send.                                                            *)
SendPlaces == {"count", "commit", "check", "mail", "mark", "recount", "fail"}

(* Where a call can be.  Only a call that waits for a safety check or for  *)
(* webhooks has given up the event loop.                                   *)
Placed(h) ==
  /\ call[h].at \in Rowless => call[h].todo = {}
  /\ call[h].at \notin Rowless => call[h].cur \in call[h].todo
  /\ call[h].at \notin {"idle", "check", "emit"} => Runs(h)
  /\ call[h].at \in SendPlaces => (call[h].was <=> h \in Workers)
  /\ h \in Workers => call[h].at \notin {"select", "update"}
  /\ h \in Reviewers =>
       /\ call[h].at \notin {"sweep", "release", "claim"}
       /\ call[h].at # "idle" => call[h].op \in Ops
       /\ call[h].at \in SendPlaces \cup {"read"} => call[h].op = "send"

(* A version of a row as the call that is sending it has read it.          *)
Owned(h, m) ==
  IF h \in Workers THEN m.status = "SENDING" /\ m.approved = 1
                   ELSE m.status = "DRAFT" /\ m.approved = 0

(* Call h goes by what it has read of row d and has not locked the row: d  *)
(* is one of the rows a worker has claimed, or the draft that a reviewer   *)
(* is sending.                                                             *)
Trusts(h, d) ==
  /\ d \in call[h].todo
  /\ IF h \in Workers
     THEN ~ (d = call[h].cur /\ call[h].at \in {"commit", "emit", "next"})
     ELSE d = call[h].cur /\ call[h].at \in (SendPlaces \cup {"read"}) \ {"commit"}

(* What has been read of the row still holds.                              *)
Trusted(h, d) == Trusts(h, d) => lock[d] = NoCall /\ Owned(h, msg[d])

(* From the committed to the uncommitted status of a row: what the sweep   *)
(* does, and what the decisions of reviewers do.                           *)
Sweeps == {<<"SCHEDULED", "DRAFT">>, <<"SENDING", "DRAFT">>,
           <<"SENDING", "SCHEDULED">>}

Decisions == {<<"DRAFT", "SCHEDULED">>, <<"DRAFT", "REJECTED">>,
              <<"DRAFT", "DELETED">>, <<"FAILED", "DELETED">>,
              <<"SCHEDULED", "SCHEDULED">>, <<"SCHEDULED", "DRAFT">>}

Change(d) == <<msg[d].status, dirty[d].status>>

(* A row in the open transaction of a sweep.                               *)
Swept(h, d) == call[h].at \in {"release", "claim"} /\ Change(d) \in Sweeps

(* A row in the open transaction of a send.  A worker holds the one row it *)
(* is sending, an approval holds those it has sent, too.                   *)
Sending(h, d) ==
  /\ call[h].at \notin Rowless
  /\ Owned(h, msg[d])
  /\ IF d = call[h].cur /\ call[h].at = "commit" THEN Owned(h, dirty[d])
     ELSE IF h \in Workers
     THEN /\ d = call[h].cur
          /\ \/ call[h].at = "emit" /\ dirty[d].status = "SENT"
             \/ /\ call[h].at = "next"
                /\ dirty[d].status \in {"SENT", "DRAFT", "SCHEDULED", "FAILED"}
     ELSE /\ d \in call[h].todo => d = call[h].cur /\ call[h].at \in {"emit", "next"}
          /\ dirty[d].status = "SENT" \/ Owned(h, dirty[d])

(* A row in the open transaction of another decision.                      *)
Decided(h, d) ==
  /\ call[h].at \notin Rowless
  /\ d \in call[h].todo => d = call[h].cur /\ call[h].at \in {"emit", "next"}
  /\ Change(d) \in Decisions

HeldRow(h, d) ==
  IF h \in Workers THEN Swept(h, d) \/ Sending(h, d)
  ELSE IF call[h].op = "send" THEN Sending(h, d)
  ELSE Decided(h, d)

(* What a call knows of its rows.                                          *)
Settled(h) ==
  /\ Placed(h)
  /\ \A d \in Drafts : Trusted(h, d) /\ (lock[d] = h => HeldRow(h, d))
  /\ call[h].at = "update" => Accepts(call[h].op, msg[call[h].cur])
  /\ call[h].at = "commit" => lock[call[h].cur] = h
  /\ call[h].at = "fail" => call[h].seen = msg[call[h].cur].send_attempts

(* A version of a row that is scheduled or in delivery is approved and has *)
(* a time, and one that is scheduled has an attempt left.                  *)
Fit(m) ==
  /\ m.status \in {"SCHEDULED", "SENDING"} => m.approved = 1 /\ m.scheduled # "none"
  /\ m.status = "SCHEDULED" => m.send_attempts < MaxAttempts

AllFit == \A d \in Drafts : Fit(msg[d]) /\ Fit(dirty[d])

LoopInv == (\A h \in Calls : Settled(h)) /\ AllFit

-----------------------------------------------------------------------------
(* Two versions of a row that the invariant does not tell apart, and a row *)
(* that a step leaves as it is but for the clock.                          *)
Alike(m, n) ==
  n.status = m.status /\ n.approved = m.approved /\ n.send_attempts = m.send_attempts

Kept(d) == lock'[d] = lock[d] /\ Alike(msg[d], msg'[d]) /\ Alike(dirty[d], dirty'[d])

(* A row of which no other call has read anything it still goes by.        *)
Unread(h, d) ==
  IF h \in Workers THEN msg[d].status \in {"SCHEDULED", "SENDING"}
                   ELSE msg[d].status # "SENDING"

(* No two calls go by the same row.                                        *)
LEMMA NobodyElseTrusts ==
  ASSUME TypeOK, OneSender, LoopInv, NEW g \in Calls, NEW h \in Calls, g # h,
         NEW d \in Drafts, Unread(h, d)
  PROVE  ~ Trusts(g, d)
<1> SUFFICES ASSUME Trusts(g, d) PROVE FALSE
  OBVIOUS
<1>1. Placed(g) /\ Owned(g, msg[d])
  BY DEF LoopInv, Settled, Trusted
<1>2. CASE g \in Workers
  <2>1. h \notin Workers
    BY <1>2 DEF OneSender
  <2>2. QED
    BY <1>1, <1>2, <2>1 DEF Owned, Unread
<1>3. CASE g \notin Workers
  <2>1. call[g].at \in SendPlaces \cup {"read"} /\ g \in Reviewers
    BY <1>3 DEF Trusts, Calls
  <2>2. call[g].at # "idle"
    BY <2>1 DEF SendPlaces
  <2>3. "send" \in Ops
    BY <1>1, <2>1, <2>2 DEF Placed
  <2>4. h \in Workers
    BY <2>1, <2>3 DEF OneSender, Calls
  <2>5. QED
    BY <1>1, <1>3, <2>4 DEF Owned, Unread
<1>4. QED
  BY <1>2, <1>3

(* While a call runs, or may resume, the others are idle or wait.          *)
LEMMA OthersWait ==
  ASSUME TypeOK, OneSender, LoopInv, NEW h \in Calls, Runs(h) \/ LoopFree(h),
         NEW g \in Calls, g # h
  PROVE  call[g].at \in {"idle", "check", "emit"}
<1>1. Home[g] = Home[h] /\ g # NoCall
  BY ConstantsAssumption DEF OneSender
<1>2. QED
  BY <1>1 DEF LoopInv, Settled, Placed, Runs, LoopFree

(* What a waiting call knows survives a step of another call, which leaves *)
(* a row as it is, works on rows it holds, or takes a row that no other    *)
(* call goes by.                                                           *)
LEMMA Bystanders ==
  ASSUME TypeOK, OneSender, LoopInv, NEW h \in Calls, Runs(h) \/ LoopFree(h),
         \A g \in Calls \ {h} : call'[g] = call[g],
         \A d \in Drafts : \/ Kept(d)
                           \/ /\ lock[d] \in {h, NoCall} /\ lock'[d] \in {h, NoCall}
                              /\ lock[d] = NoCall => Unread(h, d),
         Settled(h)', AllFit'
  PROVE  LoopInv'
<1> SUFFICES ASSUME NEW g \in Calls, g # h PROVE Settled(g)'
  BY DEF LoopInv
<1>1. /\ call'[g] = call[g] /\ g # NoCall /\ Settled(g)
      /\ call[g].at \in {"idle", "check", "emit"}
  BY OthersWait, ConstantsAssumption DEF LoopInv
<1>2. Placed(g)'
  BY <1>1 DEF Settled, Placed
<1>3. ASSUME NEW d \in Drafts, Kept(d)
      PROVE  Trusted(g, d)' /\ (lock'[d] = g => HeldRow(g, d)')
  <2>1. Trusted(g, d)'
    BY <1>1, <1>3 DEF Settled, Trusted, Trusts, Kept, Alike, Owned
  <2>2. ASSUME lock'[d] = g PROVE HeldRow(g, d)'
    <3>1. HeldRow(g, d)
      BY <1>1, <1>3, <2>2 DEF Settled, Kept
    <3>2. Swept(g, d) => Swept(g, d)'
      BY <1>1, <1>3 DEF Swept, Change, Kept, Alike
    <3>3. Sending(g, d) => Sending(g, d)'
      BY <1>1, <1>3 DEF Sending, Owned, Kept, Alike
    <3>4. Decided(g, d) => Decided(g, d)'
      BY <1>1, <1>3 DEF Decided, Change, Kept, Alike
    <3>5. QED
      BY <1>1, <3>1, <3>2, <3>3, <3>4 DEF HeldRow
  <2>3. QED
    BY <2>1, <2>2
<1>4. ASSUME NEW d \in Drafts, ~ Kept(d)
      PROVE  Trusted(g, d)' /\ (lock'[d] = g => HeldRow(g, d)')
  <2>1. lock[d] \in {h, NoCall} /\ lock'[d] \in {h, NoCall}
    BY <1>4
  <2>2. ~ Trusts(g, d)
    <3>1. CASE lock[d] = NoCall
      BY <1>4, <3>1, NobodyElseTrusts
    <3>2. CASE lock[d] # NoCall
      BY <1>1, <3>2 DEF Settled, Trusted
    <3>3. QED
      BY <3>1, <3>2
  <2>3. ~ Trusts(g, d)'
    BY <1>1, <2>2 DEF Trusts
  <2>4. QED
    BY <1>1, <2>1, <2>3 DEF Trusted
<1>5. QED
  BY <1>1, <1>2, <1>3, <1>4 DEF Settled

(* Steps that touch no row: what the call goes by afterwards it went by    *)
(* before, but for the draft that an approval has just selected.           *)
LEMMA Moves ==
  ASSUME TypeOK, OneSender, LoopInv, NEW h \in Calls, Runs(h) \/ LoopFree(h),
         UNCHANGED rows, \A g \in Calls \ {h} : call'[g] = call[g],
         call'[h].op = call[h].op, call'[h].todo = call[h].todo,
         call'[h].cur = call[h].cur, Placed(h)',
         call[h].at \notin Rowless \cup {"commit", "next"},
         call'[h].at \notin Rowless \cup {"commit", "emit"},
         call[h].at = "emit" => call'[h].at = "next",
         call'[h].at \in SendPlaces =>
           call[h].at \in (SendPlaces \cup {"read"}) \ {"commit"},
         (call'[h].at = "read" /\ h \notin Workers) =>
           lock[call[h].cur] = NoCall /\ Owned(h, msg[call[h].cur]),
         call'[h].at = "update" => Accepts(call[h].op, msg[call[h].cur]),
         call'[h].at = "fail" => call'[h].seen = msg[call[h].cur].send_attempts
  PROVE  LoopInv'
<1>1. UNCHANGED <<msg, dirty, lock>>
  BY DEF rows
<1>2. \A d \in Drafts : Kept(d)
  BY <1>1 DEF Kept, Alike
<1>3. AllFit'
  BY <1>1 DEF LoopInv, AllFit
<1>4. Settled(h)
  BY DEF LoopInv
<1>5. ASSUME NEW d \in Drafts PROVE Trusted(h, d)'
  <2>1. SUFFICES ASSUME Trusts(h, d)' PROVE lock[d] = NoCall /\ Owned(h, msg[d])
    BY <1>1 DEF Trusted, Owned
  <2>2. CASE Trusts(h, d)
    BY <1>4, <2>2 DEF Settled, Trusted
  <2>3. CASE ~ Trusts(h, d)
    <3>1. h \notin Workers /\ d = call[h].cur /\ call'[h].at = "read"
      BY <2>1, <2>3 DEF Trusts
    <3>2. QED
      BY <3>1
  <2>4. QED
    BY <2>2, <2>3
<1>6. ASSUME NEW d \in Drafts, lock[d] = h PROVE HeldRow(h, d)'
  <2>1. HeldRow(h, d)
    BY <1>4, <1>6 DEF Settled
  <2>2. ~ Swept(h, d)
    BY DEF Swept, Rowless
  <2>3. Sending(h, d) => Sending(h, d)'
    BY <1>1 DEF Sending, Owned
  <2>4. Decided(h, d) => Decided(h, d)'
    BY <1>1 DEF Decided, Change
  <2>5. QED
    BY <2>1, <2>2, <2>3, <2>4 DEF HeldRow
<1>7. Settled(h)'
  BY <1>1, <1>5, <1>6 DEF Settled
<1>8. QED
  BY <1>2, <1>3, <1>7, Bystanders

-----------------------------------------------------------------------------
(* What Goes and Fails leave of a call.                                    *)
LEMMA GoesFields ==
  ASSUME TypeOK, NEW h \in Calls, NEW at, Goes(h, at)
  PROVE  /\ \A g \in Calls \ {h} : call'[g] = call[g]
         /\ call'[h].at = at
         /\ call'[h].op = call[h].op /\ call'[h].todo = call[h].todo
         /\ call'[h].cur = call[h].cur /\ call'[h].was = call[h].was
         /\ call'[h].seen = call[h].seen
BY DEF TypeOK, CallsOK, Call, Goes

(* A failure leaves a call its operation and its place in the batch.      *)
LEMMA FailsFields ==
  ASSUME TypeOK, NEW h \in Calls, NEW r, Fails(h, r)
  PROVE  /\ \A g \in Calls \ {h} : call'[g] = call[g]
         /\ call'[h].at = "recount"
         /\ call'[h].op = call[h].op /\ call'[h].todo = call[h].todo
         /\ call'[h].cur = call[h].cur /\ call'[h].was = call[h].was
BY DEF TypeOK, CallsOK, Call, Fails

(* A call that has taken the loop runs.                                    *)
LEMMA TakesRuns ==
  ASSUME LoopOK, NEW h \in Calls, Takes(h)
  PROVE  Runs(h)'
BY ConstantsAssumption DEF LoopOK, Takes, Runs

(* Nobody has a draft in its transaction that another call has selected.   *)
LEMMA SelectedIsUnlocked ==
  ASSUME TypeOK, OneSender, LoopInv, NEW h \in Calls, Runs(h),
         call[h].at \in {"select", "update"}, NEW d \in Drafts, d = call[h].cur
  PROVE  /\ lock[d] # h
         /\ "send" \in Ops /\ msg[d].status = "DRAFT" => lock[d] = NoCall
<1>1. Settled(h) /\ h \notin Workers /\ h \in Reviewers /\ d \in call[h].todo
  BY DEF LoopInv, Settled, Placed, Rowless, Calls
<1>2. lock[d] # h
  BY <1>1 DEF Settled, HeldRow, Sending, Decided
<1>3. ASSUME "send" \in Ops, msg[d].status = "DRAFT", lock[d] # NoCall PROVE FALSE
  <2> DEFINE g == lock[d]
  <2>1. g \in Calls /\ g # h
    BY <1>2, <1>3 DEF TypeOK, RowsOK
  <2>2. g \in Workers
    BY <1>1, <1>3, <2>1 DEF OneSender, Calls
  <2>3. HeldRow(g, d) /\ call[g].at \in {"idle", "check", "emit"}
    BY <2>1, OthersWait DEF LoopInv, Settled
  <2>4. QED
    BY <1>3, <2>2, <2>3 DEF HeldRow, Swept, Sending, Owned
<1>4. QED
  BY <1>2, <1>3

(* The SELECT of a reviewer operation.                                     *)
LEMMA SelectDraftSettles ==
  ASSUME TypeOK, OneSender, LoopInv, NEW h \in Calls, SelectDraft(h)
  PROVE  LoopInv'
<1> DEFINE d == call[h].cur
           at == IF ~ Accepts(call[h].op, View(h, d)) THEN "next"
                 ELSE IF call[h].op = "send" THEN "read" ELSE "update"
<1>1. /\ call[h].at = "select" /\ Runs(h) /\ Goes(h, at)
      /\ UNCHANGED rows /\ UNCHANGED loop
  BY DEF SelectDraft
<1>2. d \in Drafts /\ at \in {"next", "read", "update"}
  BY <1>1 DEF TypeOK, CallsOK, Rowless
<1>3. /\ \A g \in Calls \ {h} : call'[g] = call[g]
      /\ call'[h].at = at
      /\ call'[h].op = call[h].op /\ call'[h].todo = call[h].todo
      /\ call'[h].cur = call[h].cur /\ call'[h].was = call[h].was
  <2> HIDE DEF at, d
  <2>1. QED
    BY <1>1, GoesFields
<1>4. Placed(h) /\ h \notin Workers /\ h \in Reviewers
  BY <1>1 DEF LoopInv, Settled, Placed, Calls
<1>5. View(h, d) = msg[d]
  BY <1>1, <1>2, SelectedIsUnlocked DEF View
<1>6. ASSUME at = "read" PROVE lock[d] = NoCall /\ Owned(h, msg[d])
  <2>1. Accepts("send", msg[d]) /\ "send" \in Ops
    BY <1>1, <1>4, <1>5, <1>6 DEF Placed
  <2>2. msg[d].status = "DRAFT" /\ msg[d].approved = 0
    BY <2>1 DEF Accepts
  <2>3. QED
    BY <1>1, <1>2, <1>4, <2>1, <2>2, SelectedIsUnlocked DEF Owned
<1>7. at = "update" => Accepts(call[h].op, msg[d])
  BY <1>5
<1>8. at = "read" => call[h].op = "send"
  OBVIOUS
<1> HIDE DEF at, d
<1>9. Placed(h)'
  BY <1>1, <1>2, <1>3, <1>4, <1>8 DEF Placed, Rowless, SendPlaces, Runs
<1>10. QED
  BY <1>1, <1>2, <1>3, <1>6, <1>7, <1>9, Moves DEF Rowless, SendPlaces, d

(* The return from emit_event.                                             *)
LEMMA EmitDoneSettles ==
  ASSUME TypeOK, OneSender, LoopInv, NEW h \in Calls, EmitDone(h)
  PROVE  LoopInv'
<1>1. /\ call[h].at = "emit" /\ LoopFree(h) /\ Goes(h, "next")
      /\ UNCHANGED rows /\ Runs(h)'
  BY TakesRuns DEF EmitDone, TypeOK
<1>2. /\ \A g \in Calls \ {h} : call'[g] = call[g]
      /\ call'[h].at = "next"
      /\ call'[h].op = call[h].op /\ call'[h].todo = call[h].todo
      /\ call'[h].cur = call[h].cur /\ call'[h].was = call[h].was
  BY <1>1, GoesFields
<1>3. Placed(h)'
  BY <1>1, <1>2 DEF LoopInv, Settled, Placed, Rowless, SendPlaces
<1>4. QED
  BY <1>1, <1>2, <1>3, Moves DEF Rowless, SendPlaces

(* The SELECT of send_approved_draft.                                      *)
LEMMA ReadForSendSettles ==
  ASSUME TypeOK, OneSender, LoopInv, NEW h \in Calls, ReadForSend(h)
  PROVE  LoopInv'
<1> DEFINE d == call[h].cur
<1>1. /\ call[h].at = "read" /\ Runs(h)
      /\ UNCHANGED rows /\ UNCHANGED loop
      /\ d \in Drafts
  BY DEF ReadForSend, TypeOK, CallsOK, Rowless
<1>2. Placed(h) /\ lock[d] = NoCall /\ Owned(h, msg[d])
  BY <1>1 DEF LoopInv, Settled, Placed, Rowless, Trusted, Trusts
<1>3. View(h, d) = msg[d]
  BY <1>2, ConstantsAssumption DEF View
<1>4. Sendable(msg[d]) /\ (IsScheduledSend(msg[d]) <=> h \in Workers)
  BY <1>2 DEF Owned, Sendable, IsScheduledSend
<1>5. call' = [call EXCEPT ![h].at = "count",
                           ![h].was = IsScheduledSend(msg[d])]
  BY <1>3, <1>4 DEF ReadForSend
<1>6. /\ \A g \in Calls \ {h} : call'[g] = call[g]
      /\ call'[h].at = "count"
      /\ call'[h].op = call[h].op /\ call'[h].todo = call[h].todo
      /\ call'[h].cur = call[h].cur /\ call'[h].was = IsScheduledSend(msg[d])
  BY <1>5 DEF TypeOK, CallsOK, Call
<1>7. Placed(h)'
  BY <1>1, <1>2, <1>4, <1>6 DEF Placed, Rowless, SendPlaces, Runs
<1> HIDE DEF d
<1>8. QED
  BY <1>1, <1>2, <1>6, <1>7, Moves DEF Rowless, SendPlaces

(* The end of the safety check.                                            *)
LEMMA SafetyCheckedSettles ==
  ASSUME TypeOK, OneSender, LoopInv, NEW h \in Calls, SafetyChecked(h)
  PROVE  LoopInv'
<1>1. /\ call[h].at = "check" /\ LoopFree(h) /\ UNCHANGED rows /\ Runs(h)'
  BY TakesRuns DEF SafetyChecked, TypeOK
<1>2. /\ \A g \in Calls \ {h} : call'[g] = call[g]
      /\ call'[h].at \in {"mail", "recount"}
      /\ call'[h].op = call[h].op /\ call'[h].todo = call[h].todo
      /\ call'[h].cur = call[h].cur /\ call'[h].was = call[h].was
  BY GoesFields, FailsFields DEF SafetyChecked
<1>3. Placed(h)'
  BY <1>1, <1>2 DEF LoopInv, Settled, Placed, Rowless, SendPlaces
<1>4. QED
  BY <1>1, <1>2, <1>3, Moves DEF Rowless, SendPlaces

(* The provider's answer, or its loss.                                     *)
LEMMA ProviderSettles ==
  ASSUME TypeOK, OneSender, LoopInv, NEW h \in Calls,
         ProviderAccepts(h) \/ ProviderRefuses(h) \/ ProviderAnswerLost(h)
  PROVE  LoopInv'
<1>1. /\ call[h].at = "mail" /\ Runs(h) /\ UNCHANGED rows /\ UNCHANGED loop
  BY DEF ProviderAccepts, ProviderRefuses, ProviderAnswerLost
<1>2. /\ \A g \in Calls \ {h} : call'[g] = call[g]
      /\ call'[h].at \in {"mark", "recount"}
      /\ call'[h].op = call[h].op /\ call'[h].todo = call[h].todo
      /\ call'[h].cur = call[h].cur /\ call'[h].was = call[h].was
  BY GoesFields, FailsFields
     DEF ProviderAccepts, ProviderRefuses, ProviderAnswerLost
<1>3. Placed(h)'
  BY <1>1, <1>2 DEF LoopInv, Settled, Placed, Rowless, SendPlaces, Runs
<1>4. QED
  BY <1>1, <1>2, <1>3, Moves DEF Rowless, SendPlaces

(* The SELECT of send_attempts after a failure.                            *)
LEMMA RecountAttemptsSettles ==
  ASSUME TypeOK, OneSender, LoopInv, NEW h \in Calls, RecountAttempts(h)
  PROVE  LoopInv'
<1> DEFINE d == call[h].cur
<1>1. /\ call[h].at = "recount" /\ Runs(h)
      /\ UNCHANGED rows /\ UNCHANGED loop
      /\ d \in Drafts
  BY DEF RecountAttempts, TypeOK, CallsOK, Rowless
<1>2. Placed(h) /\ lock[d] = NoCall /\ Owned(h, msg[d])
  BY <1>1 DEF LoopInv, Settled, Placed, Rowless, Trusted, Trusts, SendPlaces
<1>3. View(h, d) = msg[d] /\ msg[d].status # "DELETED"
  BY <1>2, ConstantsAssumption DEF View, Owned
<1>4. call' = [call EXCEPT ![h].at = "fail", ![h].seen = msg[d].send_attempts]
  BY <1>3 DEF RecountAttempts
<1>5. /\ \A g \in Calls \ {h} : call'[g] = call[g]
      /\ call'[h].at = "fail" /\ call'[h].seen = msg[d].send_attempts
      /\ call'[h].op = call[h].op /\ call'[h].todo = call[h].todo
      /\ call'[h].cur = call[h].cur /\ call'[h].was = call[h].was
  BY <1>4 DEF TypeOK, CallsOK, Call
<1>6. Placed(h)'
  BY <1>1, <1>2, <1>5 DEF Placed, Rowless, SendPlaces, Runs
<1>7. QED
  BY <1>1, <1>5, <1>6, Moves DEF Rowless, SendPlaces

-----------------------------------------------------------------------------
(* A statement on the row in hand, which no transaction holds.             *)
LEMMA Writes ==
  ASSUME TypeOK, OneSender, LoopInv, NEW h \in Calls, Runs(h),
         NEW d \in Drafts, d = call[h].cur, NEW new, Update(h, d, new),
         lock[d] = NoCall, msg[d].status # "DELETED", Unread(h, d),
         NEW at \in {"commit", "emit", "next"}, Goes(h, at),
         call[h].at \in {"update", "count", "mark", "fail"},
         at = "commit" => call[h].at = "count",
         IF at = "emit" THEN Yields(h) ELSE UNCHANGED loop,
         Fit(new), HeldRow(h, d)'
  PROVE  LoopInv'
<1>1. /\ \A g \in Calls \ {h} : call'[g] = call[g]
      /\ call'[h].at = at
      /\ call'[h].op = call[h].op /\ call'[h].todo = call[h].todo
      /\ call'[h].cur = call[h].cur /\ call'[h].was = call[h].was
  BY GoesFields
<1>2. /\ lock' = [lock EXCEPT ![d] = h]
      /\ dirty' = [dirty EXCEPT ![d] = new]
      /\ UNCHANGED msg
  BY DEF Update, TypeOK, RowsOK
<1>3. \A e \in Drafts \ {d} :
        lock'[e] = lock[e] /\ dirty'[e] = dirty[e] /\ msg'[e] = msg[e]
  BY <1>2 DEF TypeOK, RowsOK
<1>4. lock'[d] = h /\ dirty'[d] = new /\ h # NoCall
  BY <1>2, ConstantsAssumption DEF TypeOK, RowsOK
<1>5. \A e \in Drafts : \/ Kept(e)
                        \/ /\ lock[e] \in {h, NoCall} /\ lock'[e] \in {h, NoCall}
                           /\ lock[e] = NoCall => Unread(h, e)
  BY <1>3, <1>4 DEF Kept, Alike
<1>6. AllFit'
  BY <1>2, <1>3, <1>4 DEF LoopInv, AllFit
<1>7. Settled(h) /\ Placed(h)
  BY DEF LoopInv, Settled
<1>8. Placed(h)'
  BY <1>1, <1>7 DEF Placed, Rowless, SendPlaces, Runs
<1>9. ASSUME NEW e \in Drafts PROVE Trusted(h, e)'
  <2>1. SUFFICES ASSUME Trusts(h, e)' PROVE lock'[e] = NoCall /\ Owned(h, msg'[e])
    BY DEF Trusted, Owned
  <2>2. e # d /\ Trusts(h, e)
    BY <1>1, <2>1 DEF Trusts, SendPlaces
  <2>3. QED
    BY <1>3, <1>7, <2>2 DEF Settled, Trusted
<1>10. ASSUME NEW e \in Drafts, lock'[e] = h, e # d PROVE HeldRow(h, e)'
  <2>1. HeldRow(h, e)
    BY <1>3, <1>7, <1>10 DEF Settled
  <2>2. ~ Swept(h, e)
    BY DEF Swept
  <2>3. Sending(h, e) => Sending(h, e)'
    BY <1>1, <1>3, <1>10 DEF Sending, Owned, Rowless
  <2>4. Decided(h, e) => Decided(h, e)'
    BY <1>1, <1>3, <1>10 DEF Decided, Change, Rowless
  <2>5. QED
    BY <1>1, <2>1, <2>2, <2>3, <2>4 DEF HeldRow
<1>11. Settled(h)'
  BY <1>1, <1>4, <1>8, <1>9, <1>10 DEF Settled
<1>12. QED
  BY <1>1, <1>5, <1>6, <1>11, Bystanders

(* What a decision leaves of a row it accepts.                             *)
LEMMA DecisionsFit ==
  ASSUME NEW op \in ReviewerOps \ {"send"}, NEW m \in Row, Accepts(op, m), Fit(m),
         NEW new \in Outcomes(op, m)
  PROVE  Fit(new) /\ <<m.status, new.status>> \in Decisions
<1> USE DEF Row, Fit, Accepts, Decisions
<1>1. CASE op = "schedule"
  <2>1. new = Scheduled(m)
    BY <1>1 DEF Outcomes
  <2>2. /\ new.status = "SCHEDULED" /\ new.approved = 1
        /\ new.scheduled = "future" /\ new.send_attempts = 0
    BY <2>1 DEF Scheduled
  <2>3. 0 < MaxAttempts /\ m.status = "DRAFT"
    BY <1>1, ConstantsAssumption
  <2>4. QED
    BY <2>2, <2>3
<1>2. CASE op = "reject"
  BY <1>2 DEF Outcomes, Rejected
<1>3. CASE op = "delete"
  BY <1>3 DEF Outcomes, Deleted
<1>4. CASE op = "move"
  <2>1. PICK at \in {"future", "due"} : new = Moved(m, at)
    BY <1>4 DEF Outcomes
  <2>2. QED
    BY <1>4, <2>1 DEF Moved
<1>5. CASE op = "return"
  BY <1>5 DEF Outcomes, Returned
<1>6. QED
  BY <1>1, <1>2, <1>3, <1>4, <1>5 DEF ReviewerOps

(* What is known where a reviewer's decision is written.                   *)
LEMMA UpdateDraftFacts ==
  ASSUME TypeOK, OneSender, LoopInv, NEW h \in Calls, UpdateDraft(h),
         NEW d, d = call[h].cur
  PROVE  /\ d \in Drafts /\ d \in call[h].todo
         /\ h \notin Workers /\ call[h].op \in ReviewerOps \ {"send"}
         /\ lock[d] = NoCall /\ dirty[d] = msg[d]
         /\ Accepts(call[h].op, msg[d])
<1>1. call[h].at = "update" /\ Runs(h)
  BY DEF UpdateDraft
<1>2. d \in Drafts /\ call[h].op \in ReviewerOps \ {"send"}
  BY <1>1 DEF TypeOK, CallsOK, Rowless
<1>3. d \in call[h].todo /\ h \notin Workers /\ Accepts(call[h].op, msg[d])
  BY <1>1 DEF LoopInv, Settled, Placed, Rowless
<1>4. lock[d] # h /\ lock[d] \in {h, NoCall}
  BY <1>1, <1>2, SelectedIsUnlocked DEF UpdateDraft, Update
<1>5. QED
  BY <1>2, <1>3, <1>4 DEF TypeOK, RowsOK

(* The write of a reviewer's decision.                                     *)
LEMMA UpdateDraftSettles ==
  ASSUME TypeOK, OneSender, LoopInv, NEW h \in Calls, UpdateDraft(h)
  PROVE  LoopInv'
<1> DEFINE emits == Webhooks /\ call[h].op \in {"schedule", "reject"}
           at == IF emits THEN "emit" ELSE "next"
<1>0. PICK d : d = call[h].cur
  OBVIOUS
<1>1. /\ d \in Drafts /\ d \in call[h].todo
      /\ h \notin Workers /\ call[h].op \in ReviewerOps \ {"send"}
      /\ lock[d] = NoCall /\ dirty[d] = msg[d]
      /\ Accepts(call[h].op, msg[d])
  BY <1>0, UpdateDraftFacts
<1>2. /\ call[h].at = "update" /\ Runs(h) /\ Goes(h, at)
      /\ IF at = "emit" THEN Yields(h) ELSE UNCHANGED loop
  BY DEF UpdateDraft
<1>3. PICK new \in Outcomes(call[h].op, dirty[d]) : Update(h, d, new)
  BY <1>0 DEF UpdateDraft
<1>4. at \in {"emit", "next"} /\ msg[d] \in Row
  BY <1>1 DEF TypeOK, RowsOK
<1> HIDE DEF at
<1>5. Fit(new) /\ <<msg[d].status, new.status>> \in Decisions
  BY <1>1, <1>3, <1>4, DecisionsFit DEF LoopInv, AllFit
<1>6. msg[d].status \notin {"DELETED", "SENDING"}
  BY <1>1 DEF Accepts
<1>7. HeldRow(h, d)'
  <2>1. msg'[d] = msg[d] /\ dirty'[d] = new
    BY <1>1, <1>3, <1>6 DEF Update, TypeOK, RowsOK
  <2>2. call'[h].at = at /\ call'[h].op = call[h].op /\ call'[h].cur = d
    BY <1>0, <1>2, GoesFields
  <2>3. QED
    BY <1>1, <1>4, <1>5, <2>1, <2>2 DEF HeldRow, Decided, Change, Rowless
<1>8. Unread(h, d)
  BY <1>1, <1>6 DEF Unread
<1>9. QED
  BY <1>0, <1>1, <1>2, <1>3, <1>4, <1>5, <1>6, <1>7, <1>8, Writes

(* What is known where a send writes.                                      *)
LEMMA SendFacts ==
  ASSUME TypeOK, OneSender, LoopInv, NEW h \in Calls, NEW d, d = call[h].cur,
         call[h].at \in (SendPlaces \cup {"read"}) \ {"commit"}
  PROVE  /\ d \in Drafts /\ d \in call[h].todo
         /\ lock[d] = NoCall /\ dirty[d] = msg[d] /\ Owned(h, msg[d])
         /\ h \notin Workers => call[h].op = "send"
         /\ call[h].at # "read" => (call[h].was <=> h \in Workers)
         /\ Trusts(h, d)
<1>1. d \in Drafts
  BY DEF TypeOK, CallsOK, Rowless, SendPlaces
<1>2. Placed(h) /\ Trusted(h, d)
  BY <1>1 DEF LoopInv, Settled
<1>3. d \in call[h].todo /\ Trusts(h, d)
  BY <1>2 DEF Placed, Rowless, Trusts, SendPlaces
<1>4. lock[d] = NoCall /\ Owned(h, msg[d])
  BY <1>2, <1>3 DEF Trusted
<1>5. QED
  BY <1>1, <1>2, <1>3, <1>4 DEF TypeOK, RowsOK, Placed, Calls

(* The statements of a send.                                               *)
LEMMA SendStatementsSettle ==
  ASSUME TypeOK, OneSender, LoopInv, NEW h \in Calls,
         CountAttempt(h) \/ MarkSent(h) \/ RecordFailure(h)
  PROVE  LoopInv'
<1>0. PICK d : d = call[h].cur
  OBVIOUS
<1>1. call[h].at \in {"count", "mark", "fail"} /\ Runs(h)
  BY DEF CountAttempt, MarkSent, RecordFailure
<1>2. /\ d \in Drafts /\ d \in call[h].todo
      /\ lock[d] = NoCall /\ dirty[d] = msg[d] /\ Owned(h, msg[d])
      /\ h \notin Workers => call[h].op = "send"
      /\ call[h].was <=> h \in Workers
  BY <1>0, <1>1, SendFacts DEF SendPlaces
<1>3. msg[d] \in Row /\ Fit(msg[d])
  BY <1>2 DEF TypeOK, RowsOK, LoopInv, AllFit
<1>4. PICK at \in {"commit", "emit", "next"},
           new \in {Counted(msg[d]), Sent(msg[d]), AfterFailure(msg[d], call[h])} :
        /\ Update(h, d, new) /\ Goes(h, at)
        /\ IF at = "emit" THEN Yields(h) ELSE UNCHANGED loop
        /\ \/ at = "commit" /\ call[h].at = "count" /\ new = Counted(msg[d])
           \/ at # "commit" /\ new = Sent(msg[d])
           \/ at = "next" /\ call[h].at = "fail" /\ new = AfterFailure(msg[d], call[h])
  <2>1. CASE CountAttempt(h)
    <3>1. /\ Update(h, d, Counted(msg[d])) /\ Goes(h, "commit")
          /\ UNCHANGED loop /\ call[h].at = "count"
      BY <1>0, <1>2, <2>1 DEF CountAttempt
    <3>2. QED
      BY <3>1
  <2>2. CASE MarkSent(h)
    <3>1. /\ Update(h, d, Sent(msg[d]))
          /\ \/ Goes(h, "emit") /\ Yields(h)
             \/ Goes(h, "next") /\ UNCHANGED loop
      BY <1>0, <1>2, <2>2 DEF MarkSent
    <3>2. QED
      BY <3>1
  <2>3. CASE RecordFailure(h)
    <3>1. /\ Update(h, d, AfterFailure(msg[d], call[h])) /\ Goes(h, "next")
          /\ UNCHANGED loop /\ call[h].at = "fail"
      BY <1>0, <1>2, <2>3 DEF RecordFailure
    <3>2. QED
      BY <3>1
  <2>4. QED
    BY <2>1, <2>2, <2>3
<1>5. call[h].at = "fail" => call[h].seen = msg[d].send_attempts
  BY <1>0 DEF LoopInv, Settled
<1>6. /\ Fit(new)
      /\ IF at = "commit" THEN Owned(h, new)
         ELSE \/ new.status = "SENT"
              \/ /\ at = "next"
                 /\ IF h \in Workers THEN new.status \in {"DRAFT", "SCHEDULED", "FAILED"}
                    ELSE Owned(h, new)
  <2>1. CASE new = Counted(msg[d]) /\ at = "commit"
    BY <1>2, <1>3, <2>1 DEF Counted, Owned, Fit, Row
  <2>2. CASE new = Sent(msg[d]) /\ at # "commit"
    BY <1>3, <2>2 DEF Sent, Fit, Row
  <2>3. CASE new = AfterFailure(msg[d], call[h]) /\ at = "next" /\ call[h].at = "fail"
    <3>1. CASE h \notin Workers
      BY <1>2, <1>3, <2>3, <3>1 DEF AfterFailure
    <3>2. CASE h \in Workers
      <4>1. \/ new = Blocked(msg[d])
            \/ new = Paused(msg[d])
            \/ new = Retried(msg[d]) /\ msg[d].send_attempts < MaxAttempts
        BY <1>2, <1>3, <1>5, <2>3, <3>2, ConstantsAssumption DEF AfterFailure, Row
      <4>2. QED
        BY <1>2, <1>3, <2>3, <3>2, <4>1 DEF Blocked, Paused, Retried, Owned, Fit, Row
    <3>3. QED
      BY <3>1, <3>2
  <2>4. QED
    BY <1>4, <2>1, <2>2, <2>3
<1>7. msg[d].status # "DELETED" /\ Unread(h, d)
  BY <1>2 DEF Owned, Unread
<1>8. HeldRow(h, d)'
  <2>1. msg'[d] = msg[d] /\ dirty'[d] = new
    BY <1>2, <1>4, <1>7 DEF Update, TypeOK, RowsOK
  <2>2. /\ call'[h].at = at /\ call'[h].op = call[h].op
        /\ call'[h].cur = d /\ call'[h].todo = call[h].todo
    BY <1>0, <1>4, GoesFields
  <2>3. Sending(h, d)'
    BY <1>2, <1>6, <2>1, <2>2 DEF Sending, Owned, Rowless
  <2>4. QED
    BY <1>2, <2>2, <2>3 DEF HeldRow
<1>9. QED
  BY <1>0, <1>1, <1>2, <1>4, <1>6, <1>7, <1>8, Writes

-----------------------------------------------------------------------------
(* The end of a transaction.  The call goes on with some of the rows it    *)
(* goes by, and with none that it has just committed but for a counted     *)
(* attempt.                                                                *)
LEMMA CommitSettles ==
  ASSUME TypeOK, OneSender, LoopInv, NEW h \in Calls, Runs(h), Commit(h),
         \A g \in Calls \ {h} : call'[g] = call[g], Placed(h)',
         call'[h].at \notin {"commit", "update", "fail"},
         \A d \in Drafts : Trusts(h, d)' =>
           \/ Trusts(h, d)
           \/ lock[d] = h /\ Owned(h, dirty[d])
  PROVE  LoopInv'
<1>1. h # NoCall /\ Settled(h)
  BY ConstantsAssumption DEF LoopInv
<1>2. \A d \in Drafts :
        /\ dirty'[d] = dirty[d]
        /\ msg'[d] = IF lock[d] = h THEN dirty[d] ELSE msg[d]
        /\ lock'[d] = IF lock[d] = h THEN NoCall ELSE lock[d]
  BY DEF Commit, Unlock, View
<1>3. \A d \in Drafts : \/ Kept(d)
                        \/ /\ lock[d] \in {h, NoCall} /\ lock'[d] \in {h, NoCall}
                           /\ lock[d] = NoCall => Unread(h, d)
  BY <1>1, <1>2 DEF Kept, Alike
<1>4. AllFit'
  BY <1>2 DEF LoopInv, AllFit
<1>5. ASSUME NEW d \in Drafts PROVE Trusted(h, d)' /\ lock'[d] # h
  <2>1. lock'[d] # h
    BY <1>1, <1>2
  <2>2. ASSUME Trusts(h, d)' PROVE lock'[d] = NoCall /\ Owned(h, msg'[d])
    <3>1. CASE Trusts(h, d)
      <4>1. lock[d] = NoCall /\ Owned(h, msg[d])
        BY <1>1, <3>1 DEF Settled, Trusted
      <4>2. QED
        BY <1>1, <1>2, <4>1
    <3>2. CASE lock[d] = h /\ Owned(h, dirty[d])
      BY <1>2, <3>2
    <3>3. QED
      BY <2>2, <3>1, <3>2
  <2>3. QED
    BY <2>1, <2>2 DEF Trusted, Owned
<1>6. Settled(h)'
  BY <1>5 DEF Settled
<1>7. QED
  BY <1>3, <1>4, <1>6, Bystanders

(* The commit of the counted attempt.                                      *)
LEMMA DispatchSettles ==
  ASSUME TypeOK, OneSender, LoopInv, NEW h \in Calls, Dispatch(h)
  PROVE  LoopInv'
<1>1. /\ call[h].at = "commit" /\ Runs(h) /\ Commit(h) /\ Settled(h)
  BY DEF Dispatch, LoopInv
<1>2. PICK d \in Drafts : d = call[h].cur
  BY <1>1 DEF TypeOK, CallsOK, Rowless
<1>3. lock[d] = h /\ Owned(h, dirty[d])
  <2>1. lock[d] = h /\ HeldRow(h, d)
    BY <1>1, <1>2 DEF Settled
  <2>2. h \notin Workers => call[h].op = "send"
    BY <1>1 DEF Settled, Placed, SendPlaces, Calls
  <2>3. Sending(h, d)
    BY <1>1, <2>1, <2>2 DEF HeldRow, Swept
  <2>4. QED
    BY <1>1, <1>2, <2>1, <2>3 DEF Sending
<1>4. /\ \A g \in Calls \ {h} : call'[g] = call[g]
      /\ call'[h].at \in {"check", "recount"}
      /\ call'[h].op = call[h].op /\ call'[h].todo = call[h].todo
      /\ call'[h].cur = d /\ call'[h].was = call[h].was
      /\ call'[h].at = "recount" => UNCHANGED loop
  BY <1>2, GoesFields, FailsFields DEF Dispatch
<1>5. Placed(h)'
  BY <1>1, <1>2, <1>4 DEF Settled, Placed, Rowless, SendPlaces, Runs
<1>6. ASSUME NEW e \in Drafts, Trusts(h, e)', e # d PROVE Trusts(h, e)
  BY <1>1, <1>2, <1>4, <1>6 DEF Trusts, SendPlaces
<1>7. QED
  BY <1>1, <1>3, <1>4, <1>5, <1>6, CommitSettles

(* What a call is after it has begun a row, or ended.                      *)
LEMMA BeginFields ==
  ASSUME NEW op, NEW at, NEW todo, NEW d
  PROVE  /\ Begin(op, at, todo, d).at = at /\ Begin(op, at, todo, d).op = op
         /\ Begin(op, at, todo, d).todo = todo /\ Begin(op, at, todo, d).cur = d
         /\ Idle.at = "idle" /\ Idle.todo = {}
BY DEF Begin, Idle

(* The next draft of a call.                                               *)
LEMMA NextDraftFields ==
  ASSUME TypeOK, NEW h \in Calls, NextDraft(h),
         NEW rest, rest = call[h].todo \ {call[h].cur}
  PROVE  /\ \A g \in Calls \ {h} : call'[g] = call[g]
         /\ call'[h].todo = rest
         /\ IF rest = {}
            THEN call'[h].at = "idle"
            ELSE /\ UNCHANGED loop
                 /\ call'[h].at = IF h \in Workers THEN "read" ELSE "select"
                 /\ call'[h].cur \in rest /\ call'[h].op = call[h].op
<1>1. rest \in SUBSET Drafts
  BY DEF TypeOK, CallsOK, Call
<1>2. CASE rest = {}
  <2>1. call' = [call EXCEPT ![h] = Idle]
    BY <1>2 DEF NextDraft
  <2>2. QED
    BY <1>2, <2>1, BeginFields DEF TypeOK, CallsOK
<1>3. CASE rest # {}
  <2>0. PICK at : at = IF h \in Workers THEN "read" ELSE "select"
    OBVIOUS
  <2>1. PICK d \in Heads(h, rest) :
          call' = [call EXCEPT ![h] = Begin(call[h].op, at, rest, d)]
    BY <1>3, <2>0 DEF NextDraft
  <2>2. d \in rest
    BY <1>1, <1>3, <2>1, FirstInSet DEF Heads
  <2>3. UNCHANGED loop
    BY <1>3 DEF NextDraft
  <2>4. call'[h] = Begin(call[h].op, at, rest, d) /\ \A g \in Calls \ {h} : call'[g] = call[g]
    BY <2>1 DEF TypeOK, CallsOK
  <2>5. QED
    BY <1>3, <2>0, <2>2, <2>3, <2>4, BeginFields
<1>4. QED
  BY <1>2, <1>3

(* The end of a draft, and the start of the next one.                      *)
LEMMA NextDraftSettles ==
  ASSUME TypeOK, OneSender, LoopInv, NEW h \in Calls, NextDraft(h)
  PROVE  LoopInv'
<1>1. /\ call[h].at = "next" /\ Runs(h) /\ Settled(h) /\ Placed(h)
      /\ Commit(h) \/ UNCHANGED rows
      /\ h \in Workers \/ call[h].todo = {call[h].cur} \/ call[h].todo = {} => Commit(h)
  BY DEF NextDraft, LoopInv, Settled
<1>2. PICK rest : rest = call[h].todo \ {call[h].cur}
  OBVIOUS
<1>3. /\ \A g \in Calls \ {h} : call'[g] = call[g]
      /\ call'[h].todo = rest
      /\ IF rest = {}
         THEN call'[h].at = "idle"
         ELSE /\ UNCHANGED loop
              /\ call'[h].at = IF h \in Workers THEN "read" ELSE "select"
              /\ call'[h].cur \in rest /\ call'[h].op = call[h].op
  BY <1>2, NextDraftFields
<1>4. Placed(h)'
  BY <1>1, <1>3, ConstantsAssumption DEF Placed, Rowless, SendPlaces, Runs
<1>5. \A d \in Drafts : Trusts(h, d)' => Trusts(h, d)
  BY <1>1, <1>2, <1>3 DEF Trusts, SendPlaces
<1>6. CASE Commit(h)
  BY <1>1, <1>3, <1>4, <1>5, <1>6, CommitSettles
<1>7. CASE ~ Commit(h)
  <2>1. /\ UNCHANGED <<msg, dirty, lock>> /\ h \notin Workers /\ rest # {}
    BY <1>1, <1>2, <1>7 DEF rows
  <2>2. \A d \in Drafts : Kept(d)
    BY <2>1 DEF Kept, Alike
  <2>3. AllFit'
    BY <2>1 DEF LoopInv, AllFit
  <2>4. ASSUME NEW d \in Drafts
        PROVE  Trusted(h, d)' /\ (lock'[d] = h => HeldRow(h, d)')
    <3>1. Trusted(h, d)'
      BY <1>1, <1>5, <2>1 DEF Settled, Trusted, Owned
    <3>2. ASSUME lock'[d] = h PROVE HeldRow(h, d)'
      <4>1. HeldRow(h, d)
        BY <1>1, <2>1, <3>2 DEF Settled
      <4>2. Sending(h, d) => Sending(h, d)'
        BY <1>1, <1>2, <1>3, <2>1 DEF Sending, Owned, Rowless
      <4>3. Decided(h, d) => Decided(h, d)'
        BY <1>1, <1>2, <1>3, <2>1 DEF Decided, Change, Rowless
      <4>4. QED
        BY <1>3, <2>1, <4>1, <4>2, <4>3 DEF HeldRow
    <3>3. QED
      BY <3>1, <3>2
  <2>5. Settled(h)'
    BY <1>3, <1>4, <2>1, <2>4 DEF Settled
  <2>6. QED
    BY <1>1, <1>3, <2>2, <2>3, <2>5, Bystanders
<1>8. QED
  BY <1>6, <1>7

-----------------------------------------------------------------------------
(* A request of a reviewer, and the start of a scheduler run.              *)
LEMMA RequestSettles ==
  ASSUME TypeOK, OneSender, LoopInv, NEW h \in Reviewers, Request(h)
  PROVE  LoopInv'
<1>1. PICK op \in Ops, D \in (SUBSET Drafts) \ {{}} :
        call' = [call EXCEPT ![h] = Begin(op, "select", D, First(D))]
  BY DEF Request
<1>2. First(D) \in D
  <2>1. D \in SUBSET Drafts /\ D # {}
    OBVIOUS
  <2>2. QED
    BY <2>1, FirstInSet
<1>3. h \in Calls /\ h \notin Workers /\ h # NoCall
  BY ConstantsAssumption DEF Calls
<1>4. /\ \A g \in Calls \ {h} : call'[g] = call[g]
      /\ call'[h] = Begin(op, "select", D, First(D))
  BY <1>1, <1>3 DEF TypeOK, CallsOK
<1>5. /\ call'[h].at = "select" /\ call'[h].op = op
      /\ call'[h].todo = D /\ call'[h].cur = First(D)
  BY <1>4, BeginFields
<1>6. /\ call[h].at = "idle" /\ LoopFree(h) /\ Runs(h)' /\ Settled(h)
      /\ UNCHANGED <<msg, dirty, lock>>
  BY <1>3, TakesRuns DEF Request, TypeOK, LoopInv, rows
<1>7. \A d \in Drafts : lock[d] # h
  BY <1>3, <1>6 DEF Settled, HeldRow, Sending, Decided, Rowless
<1>8. Placed(h)'
  BY <1>2, <1>3, <1>5, <1>6 DEF Placed, Rowless, SendPlaces
<1>9. \A d \in Drafts : Kept(d) /\ Trusted(h, d)'
  BY <1>3, <1>5, <1>6 DEF Kept, Alike, Trusted, Trusts, SendPlaces
<1>10. Settled(h)' /\ AllFit'
  BY <1>5, <1>6, <1>7, <1>8, <1>9 DEF Settled, LoopInv, AllFit
<1>11. QED
  BY <1>3, <1>4, <1>6, <1>9, <1>10, Bystanders

(* The start of a scheduler run.                                           *)
LEMMA TickSettles ==
  ASSUME TypeOK, OneSender, LoopInv, NEW h \in Workers, Tick(h)
  PROVE  LoopInv'
<1>1. h \in Calls /\ h \notin Reviewers /\ h # NoCall
  BY ConstantsAssumption DEF Calls
<1>2. /\ call[h].at = "idle" /\ LoopFree(h) /\ Runs(h)' /\ Settled(h)
      /\ UNCHANGED <<msg, dirty, lock>>
  BY <1>1, TakesRuns DEF Tick, TypeOK, LoopInv, rows
<1>3. /\ \A g \in Calls \ {h} : call'[g] = call[g]
      /\ call'[h].at = "sweep" /\ call'[h].todo = call[h].todo
  BY <1>1 DEF Tick, TypeOK, CallsOK, Call
<1>4. call[h].todo = {} /\ Placed(h)'
  BY <1>1, <1>2, <1>3 DEF Settled, Placed, Rowless, SendPlaces
<1>5. \A d \in Drafts : lock[d] # h
  BY <1>1, <1>2 DEF Settled, HeldRow, Swept, Sending, Rowless
<1>6. \A d \in Drafts : Kept(d) /\ Trusted(h, d)'
  BY <1>2, <1>3, <1>4 DEF Kept, Alike, Trusted, Trusts
<1>7. Settled(h)' /\ AllFit'
  BY <1>2, <1>3, <1>4, <1>5, <1>6 DEF Settled, LoopInv, AllFit
<1>8. QED
  BY <1>1, <1>2, <1>3, <1>6, <1>7, Bystanders

(* What the two statements of the sweep write.                             *)
LEMMA SweepOperations ==
  ASSUME NEW m \in Row, Fit(m)
  PROVE  /\ Exhausted(m) => /\ <<m.status, Paused(m).status>> \in Sweeps
                            /\ Fit(Paused(m)) /\ Paused(m).status = "DRAFT"
         /\ Expired(m) => /\ <<m.status, Released(m).status>> \in Sweeps
                          /\ Fit(Released(m)) /\ Released(m).status = "SCHEDULED"
         /\ Claimable(m) => /\ Fit(Claimed(m)) /\ Claimed(m).status = "SENDING"
                            /\ Claimed(m).approved = 1
<1> USE DEF Row, Fit, Sweeps
<1>1. Exhausted(m) => /\ <<m.status, Paused(m).status>> \in Sweeps
                      /\ Fit(Paused(m)) /\ Paused(m).status = "DRAFT"
  BY DEF Exhausted, Paused
<1>2. Expired(m) => /\ <<m.status, Released(m).status>> \in Sweeps
                    /\ Fit(Released(m)) /\ Released(m).status = "SCHEDULED"
  BY DEF Expired, Released
<1>3. Claimable(m) => /\ Fit(Claimed(m)) /\ Claimed(m).status = "SENDING"
                      /\ Claimed(m).approved = 1
  BY DEF Claimable, Claimed
<1>4. QED
  BY <1>1, <1>2, <1>3

(* A statement of the sweep, on rows that no transaction holds.            *)
LEMMA SweepWrites ==
  ASSUME TypeOK, OneSender, LoopInv, NEW h \in Workers, Runs(h),
         call[h].at \in {"sweep", "release"}, NEW at \in {"release", "claim"},
         Goes(h, at), UNCHANGED <<loop, msg>>, NEW D \in SUBSET Drafts,
         \A d \in D : /\ lock[d] = NoCall /\ lock'[d] = h
                      /\ msg[d].status \in {"SCHEDULED", "SENDING"}
                      /\ Fit(dirty'[d]) /\ Change(d)' \in Sweeps,
         \A d \in Drafts \ D : lock'[d] = lock[d] /\ dirty'[d] = dirty[d]
  PROVE  LoopInv'
<1>1. h \in Calls /\ h \notin Reviewers /\ h # NoCall
  BY ConstantsAssumption DEF Calls
<1>2. /\ \A g \in Calls \ {h} : call'[g] = call[g]
      /\ call'[h].at = at /\ call'[h].todo = call[h].todo
      /\ Settled(h)
  BY <1>1, GoesFields DEF LoopInv
<1>3. call[h].todo = {} /\ Placed(h)'
  BY <1>1, <1>2 DEF Settled, Placed, Rowless, SendPlaces, Runs
<1>4. \A d \in Drafts : \/ Kept(d)
                        \/ /\ lock[d] \in {h, NoCall} /\ lock'[d] \in {h, NoCall}
                           /\ lock[d] = NoCall => Unread(h, d)
  BY DEF Kept, Alike, Unread
<1>5. AllFit'
  BY DEF LoopInv, AllFit
<1>6. ASSUME NEW d \in Drafts
      PROVE  Trusted(h, d)' /\ (lock'[d] = h => HeldRow(h, d)')
  <2>1. Trusted(h, d)'
    BY <1>2, <1>3 DEF Trusted, Trusts
  <2>2. CASE d \in D
    BY <1>2, <2>1, <2>2 DEF HeldRow, Swept
  <2>3. CASE d \notin D
    <3>1. lock[d] = h => Swept(h, d)
      BY <1>2 DEF Settled, HeldRow, Sending, Rowless
    <3>2. Swept(h, d) => Swept(h, d)'
      BY <1>2, <2>3 DEF Swept, Change
    <3>3. QED
      BY <2>1, <2>3, <3>1, <3>2 DEF HeldRow
  <2>4. QED
    BY <2>2, <2>3
<1>7. Settled(h)'
  BY <1>2, <1>3, <1>6 DEF Settled
<1>8. QED
  BY <1>1, <1>2, <1>4, <1>5, <1>7, Bystanders

(* The sweep of stuck rows.                                                *)
LEMMA SweepSettles ==
  ASSUME TypeOK, OneSender, LoopInv, NEW h \in Workers,
         PauseExhausted(h) \/ ReleaseExpired(h)
  PROVE  LoopInv'
<1>1. h \in Calls /\ h # NoCall /\ Settled(h)
  BY ConstantsAssumption DEF Calls, LoopInv
<1>2. \A d \in Drafts : /\ lock[d] = h => Swept(h, d)
                        /\ lock[d] = NoCall => dirty[d] = msg[d] /\ View(h, d) = msg[d]
                        /\ lock[d] = h => View(h, d) = dirty[d]
                        /\ msg[d] \in Row /\ Fit(msg[d])
  BY <1>1 DEF Settled, HeldRow, Sending, Rowless, PauseExhausted, ReleaseExpired,
              TypeOK, RowsOK, View, LoopInv, AllFit
<1>3. CASE PauseExhausted(h)
  <2> DEFINE D == {d \in Drafts : Exhausted(View(h, d))}
  <2>1. /\ UNCHANGED <<loop, msg>> /\ Goes(h, "release") /\ Runs(h)
        /\ call[h].at = "sweep" /\ D \in SUBSET Drafts
        /\ \A d \in D : /\ lock[d] \in {h, NoCall} /\ lock'[d] = h
                        /\ dirty'[d] = Paused(dirty[d]) /\ Exhausted(View(h, d))
        /\ \A d \in Drafts \ D : lock'[d] = lock[d] /\ dirty'[d] = dirty[d]
    BY <1>3 DEF PauseExhausted, UpdateAll
  <2> HIDE DEF D
  <2>2. ASSUME NEW d \in D
        PROVE  /\ lock[d] = NoCall /\ lock'[d] = h
               /\ msg[d].status \in {"SCHEDULED", "SENDING"}
               /\ Fit(dirty'[d]) /\ Change(d)' \in Sweeps
    <3>1. d \in Drafts /\ lock[d] = NoCall /\ Exhausted(msg[d])
      BY <1>2, <2>1 DEF Swept
    <3>2. dirty'[d] = Paused(msg[d]) /\ msg'[d] = msg[d]
      BY <1>2, <2>1, <3>1
    <3>3. QED
      BY <1>2, <2>1, <3>1, <3>2, SweepOperations DEF Exhausted, Change
  <2>3. QED
    BY <2>1, <2>2, SweepWrites
<1>4. CASE ReleaseExpired(h)
  <2> DEFINE D == {d \in Drafts : Expired(View(h, d))}
  <2>1. /\ UNCHANGED <<loop, msg>> /\ Goes(h, "claim") /\ Runs(h)
        /\ call[h].at = "release" /\ D \in SUBSET Drafts
        /\ \A d \in D : /\ lock[d] \in {h, NoCall} /\ lock'[d] = h
                        /\ dirty'[d] = Released(dirty[d]) /\ Expired(View(h, d))
        /\ \A d \in Drafts \ D : lock'[d] = lock[d] /\ dirty'[d] = dirty[d]
    BY <1>4 DEF ReleaseExpired, UpdateAll
  <2> HIDE DEF D
  <2>2. ASSUME NEW d \in D
        PROVE  /\ lock[d] = NoCall /\ lock'[d] = h
               /\ msg[d].status \in {"SCHEDULED", "SENDING"}
               /\ Fit(dirty'[d]) /\ Change(d)' \in Sweeps
    <3>1. d \in Drafts /\ lock[d] = NoCall
      BY <1>2, <2>1 DEF Swept, Change, Sweeps, Expired
    <3>2. /\ Expired(msg[d]) /\ dirty'[d] = Released(msg[d]) /\ msg'[d] = msg[d]
      BY <1>2, <2>1, <3>1
    <3>3. QED
      BY <1>2, <2>1, <3>1, <3>2, SweepOperations DEF Expired, Change
  <2>3. QED
    BY <2>1, <2>2, SweepWrites
<1>5. QED
  BY <1>3, <1>4

(* The claim: what it takes, and where the worker goes.                    *)
LEMMA ClaimDueFacts ==
  ASSUME TypeOK, NEW h \in Workers, ClaimDue(h)
  PROVE  /\ call[h].at = "claim" /\ Runs(h)
         /\ \A g \in Calls \ {h} : call'[g] = call[g]
         /\ IF call'[h].todo = {} THEN call'[h].at = "idle"
            ELSE /\ call'[h].at = "read" /\ call'[h].cur \in call'[h].todo
                 /\ UNCHANGED loop
         /\ \A d \in Drafts :
              IF d \in call'[h].todo
              THEN /\ lock[d] \in {h, NoCall} /\ lock'[d] = NoCall
                   /\ Claimable(dirty[d])
                   /\ msg'[d] = Claimed(dirty[d]) /\ dirty'[d] = Claimed(dirty[d])
              ELSE IF lock[d] = h
              THEN lock'[d] = NoCall /\ msg'[d] = dirty[d] /\ dirty'[d] = dirty[d]
              ELSE lock'[d] = lock[d] /\ msg'[d] = msg[d] /\ dirty'[d] = dirty[d]
<1>0. h \in Calls /\ h # NoCall /\ call \in [Calls -> Call]
  BY ConstantsAssumption DEF Calls, TypeOK, CallsOK
<1>1. PICK S \in SUBSET Drafts :
        /\ \A d \in S : lock[d] \in {h, NoCall} /\ Claimable(View(h, d))
        /\ msg' = [d \in Drafts |-> IF d \in S THEN Claimed(View(h, d)) ELSE View(h, d)]
        /\ dirty' = [d \in Drafts |-> IF d \in S THEN Claimed(dirty[d]) ELSE dirty[d]]
        /\ Unlock(h)
        /\ IF S = {} THEN call' = [call EXCEPT ![h] = Idle]
           ELSE /\ \E d \in S : call' = [call EXCEPT ![h] = Begin("tick", "read", S, d)]
                /\ UNCHANGED loop
  BY DEF ClaimDue
<1>2. /\ \A g \in Calls \ {h} : call'[g] = call[g]
      /\ call'[h].todo = S
      /\ IF S = {} THEN call'[h].at = "idle"
         ELSE call'[h].at = "read" /\ call'[h].cur \in S /\ UNCHANGED loop
  <2>1. CASE S = {}
    <3>1. call'[h] = Idle /\ \A g \in Calls \ {h} : call'[g] = call[g]
      BY <1>0, <1>1, <2>1
    <3>2. QED
      BY <2>1, <3>1, BeginFields
  <2>2. CASE S # {}
    <3>1. PICK d \in S : call' = [call EXCEPT ![h] = Begin("tick", "read", S, d)]
      BY <1>1, <2>2
    <3>2. /\ call'[h] = Begin("tick", "read", S, d)
          /\ \A g \in Calls \ {h} : call'[g] = call[g]
      BY <1>0, <3>1
    <3>3. QED
      BY <1>1, <2>2, <3>1, <3>2, BeginFields
  <2>3. QED
    BY <2>1, <2>2
<1>3. \A d \in Drafts :
        /\ lock[d] = NoCall => dirty[d] = msg[d]
        /\ View(h, d) = IF lock[d] = h THEN dirty[d] ELSE msg[d]
        /\ lock'[d] = IF lock[d] = h THEN NoCall ELSE lock[d]
  BY <1>1 DEF TypeOK, RowsOK, View, Unlock
<1>4. ASSUME NEW d \in Drafts
      PROVE  IF d \in call'[h].todo
             THEN /\ lock[d] \in {h, NoCall} /\ lock'[d] = NoCall
                  /\ Claimable(dirty[d])
                  /\ msg'[d] = Claimed(dirty[d]) /\ dirty'[d] = Claimed(dirty[d])
             ELSE IF lock[d] = h
             THEN lock'[d] = NoCall /\ msg'[d] = dirty[d] /\ dirty'[d] = dirty[d]
             ELSE lock'[d] = lock[d] /\ msg'[d] = msg[d] /\ dirty'[d] = dirty[d]
  <2>1. CASE d \in S
    <3>1. View(h, d) = dirty[d] /\ lock'[d] = NoCall
      BY <1>0, <1>1, <1>3, <2>1
    <3>2. QED
      BY <1>1, <1>2, <2>1, <3>1
  <2>2. CASE d \notin S
    BY <1>1, <1>2, <1>3, <2>2
  <2>3. QED
    BY <2>1, <2>2
<1>5. call[h].at = "claim" /\ Runs(h)
  BY DEF ClaimDue
<1>6. IF call'[h].todo = {} THEN call'[h].at = "idle"
      ELSE /\ call'[h].at = "read" /\ call'[h].cur \in call'[h].todo
           /\ UNCHANGED loop
  BY <1>2
<1>7. QED
  BY <1>2, <1>4, <1>5, <1>6

(* The claim of due rows.                                                  *)
LEMMA ClaimDueSettles ==
  ASSUME TypeOK, OneSender, LoopInv, NEW h \in Workers, ClaimDue(h)
  PROVE  LoopInv'
<1> DEFINE S == call'[h].todo
<1>1. h \in Calls /\ h \notin Reviewers /\ h # NoCall
  BY ConstantsAssumption DEF Calls
<1>2. /\ call[h].at = "claim" /\ Runs(h)
      /\ \A g \in Calls \ {h} : call'[g] = call[g]
      /\ IF S = {} THEN call'[h].at = "idle"
         ELSE call'[h].at = "read" /\ call'[h].cur \in S /\ UNCHANGED loop
      /\ \A d \in Drafts :
           IF d \in S
           THEN /\ lock[d] \in {h, NoCall} /\ lock'[d] = NoCall
                /\ Claimable(dirty[d])
                /\ msg'[d] = Claimed(dirty[d]) /\ dirty'[d] = Claimed(dirty[d])
           ELSE IF lock[d] = h
           THEN lock'[d] = NoCall /\ msg'[d] = dirty[d] /\ dirty'[d] = dirty[d]
           ELSE lock'[d] = lock[d] /\ msg'[d] = msg[d] /\ dirty'[d] = dirty[d]
  BY ClaimDueFacts
<1>3. \A d \in Drafts : dirty[d] \in Row /\ Fit(dirty[d]) /\ Fit(msg[d])
  BY DEF TypeOK, RowsOK, LoopInv, AllFit
<1>4. ASSUME NEW d \in Drafts, d \in S
      PROVE  Fit(msg'[d]) /\ Fit(dirty'[d]) /\ Owned(h, msg'[d])
  <2>1. /\ Claimable(dirty[d]) /\ dirty[d] \in Row /\ Fit(dirty[d])
        /\ msg'[d] = Claimed(dirty[d]) /\ dirty'[d] = Claimed(dirty[d])
    BY <1>2, <1>3, <1>4
  <2>2. /\ Fit(Claimed(dirty[d])) /\ Claimed(dirty[d]).status = "SENDING"
        /\ Claimed(dirty[d]).approved = 1
    BY <2>1, SweepOperations
  <2>3. QED
    BY <2>1, <2>2 DEF Owned
<1>5. AllFit'
  BY <1>2, <1>3, <1>4 DEF AllFit
<1>6. \A d \in Drafts : \/ Kept(d)
                        \/ /\ lock[d] \in {h, NoCall} /\ lock'[d] \in {h, NoCall}
                           /\ lock[d] = NoCall => Unread(h, d)
  BY <1>2 DEF Kept, Alike, Unread, Claimable, TypeOK, RowsOK
<1>7. Placed(h)'
  BY <1>1, <1>2 DEF Placed, Rowless, SendPlaces, Runs
<1>8. ASSUME NEW d \in Drafts PROVE Trusted(h, d)' /\ lock'[d] # h
  <2>1. lock'[d] # h
    BY <1>1, <1>2
  <2>2. Trusted(h, d)'
    BY <1>2, <1>4 DEF Trusted, Trusts, Owned
  <2>3. QED
    BY <2>1, <2>2
<1>9. Settled(h)'
  BY <1>2, <1>7, <1>8 DEF Settled
<1>10. QED
  BY <1>1, <1>2, <1>5, <1>6, <1>9, Bystanders

(* The clock changes nothing a call goes by.                               *)
LEMMA TimeSettles ==
  ASSUME TypeOK, LoopInv, NEW d \in Drafts, BecomeDue(d) \/ ClaimExpires(d)
  PROVE  LoopInv'
<1>1. UNCHANGED <<lock, call, loop>>
  BY DEF BecomeDue, ClaimExpires
<1>2. ASSUME NEW e \in Drafts
      PROVE  Kept(e) /\ Fit(msg'[e]) /\ Fit(dirty'[e])
  <2>1. /\ msg'[e] \in {msg[e], Moved(msg[e], "due"), AsStale(msg[e])}
        /\ dirty'[e] \in {dirty[e], Moved(dirty[e], "due"), AsStale(dirty[e])}
    BY DEF BecomeDue, ClaimExpires, TypeOK, RowsOK
  <2>2. \A m \in Row : \A n \in {m, Moved(m, "due"), AsStale(m)} :
          Alike(m, n) /\ (Fit(m) => Fit(n))
    BY DEF Alike, Fit, Row, Moved, AsStale
  <2>3. msg[e] \in Row /\ dirty[e] \in Row /\ Fit(msg[e]) /\ Fit(dirty[e])
    BY DEF TypeOK, RowsOK, LoopInv, AllFit
  <2>4. QED
    BY <1>1, <2>1, <2>2, <2>3 DEF Kept
<1>3. ASSUME NEW h \in Calls PROVE Settled(h)'
  <2>1. Settled(h)
    BY DEF LoopInv
  <2>2. Placed(h)'
    BY <1>1, <2>1 DEF Settled, Placed, Runs
  <2>3. ASSUME NEW e \in Drafts
        PROVE  Trusted(h, e)' /\ (lock'[e] = h => HeldRow(h, e)')
    <3>1. Trusted(h, e)'
      BY <1>1, <1>2, <2>1 DEF Settled, Trusted, Trusts, Owned, Kept, Alike
    <3>2. HeldRow(h, e) => HeldRow(h, e)'
      BY <1>1, <1>2 DEF HeldRow, Swept, Sending, Decided, Change, Owned, Kept, Alike
    <3>3. QED
      BY <1>1, <2>1, <3>1, <3>2 DEF Settled
  <2>4. /\ call[h].at = "update" => Accepts(call[h].op, msg'[call[h].cur])
        /\ call[h].at = "fail" => call[h].seen = msg'[call[h].cur].send_attempts
    <3>1. call[h].at \in {"update", "fail"} => call[h].cur \in Drafts
      BY DEF TypeOK, CallsOK, Rowless
    <3>2. QED
      BY <1>2, <2>1, <3>1 DEF Settled, Accepts, Kept, Alike
  <2>5. QED
    BY <1>1, <2>1, <2>2, <2>3, <2>4 DEF Settled
<1>4. QED
  BY <1>2, <1>3 DEF LoopInv, AllFit

(* Crashes and errors.                                                     *)
LEMMA VanishSettles ==
  ASSUME TypeOK, LoopInv, NEW dead \in SUBSET Calls, Vanish(dead)
  PROVE  LoopInv'
<1>1. /\ \A g \in Calls : call'[g] = IF g \in dead THEN Idle ELSE call[g]
      /\ \A d \in Drafts :
           /\ dirty'[d] = IF lock[d] \in dead THEN msg[d] ELSE dirty[d]
           /\ lock'[d] = IF lock[d] \in dead THEN NoCall ELSE lock[d]
      /\ \A r \in Replicas : loop'[r] = IF loop[r] \in dead THEN NoCall ELSE loop[r]
      /\ UNCHANGED msg /\ NoCall \notin dead
  BY ConstantsAssumption DEF Vanish
<1>2. AllFit'
  BY <1>1 DEF LoopInv, AllFit
<1>3. ASSUME NEW g \in Calls, g \in dead PROVE Settled(g)'
  <2>1. call'[g].at = "idle" /\ call'[g].todo = {}
    BY <1>1, <1>3, BeginFields
  <2>2. \A d \in Drafts : lock'[d] # g
    BY <1>1, <1>3
  <2>3. Placed(g)'
    BY <2>1 DEF Placed, Rowless, SendPlaces
  <2>4. QED
    BY <2>1, <2>2, <2>3 DEF Settled, Trusted, Trusts
<1>4. ASSUME NEW g \in Calls, g \notin dead PROVE Settled(g)'
  <2>1. call'[g] = call[g] /\ Settled(g) /\ Home[g] \in Replicas
    BY <1>1, <1>4, ConstantsAssumption DEF LoopInv
  <2>2. Placed(g)'
    BY <1>1, <1>4, <2>1 DEF Settled, Placed, Runs
  <2>3. ASSUME NEW d \in Drafts
        PROVE  Trusted(g, d)' /\ (lock'[d] = g => HeldRow(g, d)')
    <3>1. Trusted(g, d)'
      BY <1>1, <2>1 DEF Settled, Trusted, Trusts, Owned
    <3>2. ASSUME lock'[d] = g PROVE HeldRow(g, d)'
      <4>1. lock[d] = g /\ dirty'[d] = dirty[d]
        BY <1>1, <1>4, <3>2, ConstantsAssumption
      <4>2. HeldRow(g, d)
        BY <2>1, <4>1 DEF Settled
      <4>3. QED
        BY <1>1, <2>1, <4>1, <4>2
           DEF HeldRow, Swept, Sending, Decided, Change, Owned
    <3>3. QED
      BY <3>1, <3>2
  <2>4. call[g].at = "commit" => lock'[call[g].cur] = g
    <3>1. call[g].at = "commit" => call[g].cur \in Drafts
      BY DEF TypeOK, CallsOK, Rowless
    <3>2. QED
      BY <1>1, <1>4, <2>1, <3>1 DEF Settled
  <2>5. QED
    BY <1>1, <2>1, <2>2, <2>3, <2>4 DEF Settled
<1>5. QED
  BY <1>2, <1>3, <1>4 DEF LoopInv

(* The invariant is inductive.                                             *)
LEMMA LoopInvInit ==
  ASSUME Init
  PROVE  LoopInv
<1>1. ASSUME NEW h \in Calls PROVE Settled(h)
  <2>1. call[h].at = "idle" /\ call[h].todo = {} /\ h # NoCall
    BY ConstantsAssumption, BeginFields DEF Init
  <2>2. Placed(h)
    BY <2>1 DEF Placed, Rowless, SendPlaces
  <2>3. QED
    BY <2>1, <2>2 DEF Settled, Trusted, Trusts, Init
<1>2. AllFit
  <2> SUFFICES ASSUME NEW d \in Drafts PROVE Fit(msg[d])
    BY DEF AllFit, Init
  <2>1. msg[d] \in {NewDraft, Scheduled(NewDraft)}
    BY DEF Init
  <2>2. QED
    <3>1. NewDraft.status = "DRAFT"
      BY DEF NewDraft
    <3>2. /\ Scheduled(NewDraft).status = "SCHEDULED"
          /\ Scheduled(NewDraft).approved = 1
          /\ Scheduled(NewDraft).scheduled = "future"
          /\ Scheduled(NewDraft).send_attempts = 0
      BY DEF NewDraft, Scheduled
    <3>3. 0 < MaxAttempts
      BY ConstantsAssumption
    <3>4. QED
      BY <2>1, <3>1, <3>2, <3>3 DEF Fit
<1>3. QED
  BY <1>1, <1>2 DEF LoopInv

(* Every step keeps it.                                                    *)
LEMMA LoopInvStep ==
  ASSUME TypeOK, OneSender, LoopInv, [Next]_vars
  PROVE  LoopInv'
<1>1. CASE Next
  BY <1>1, StepCases, RequestSettles, TickSettles, SweepSettles, ClaimDueSettles,
     SelectDraftSettles, UpdateDraftSettles, EmitDoneSettles, ReadForSendSettles,
     SendStatementsSettle, DispatchSettles, ProviderSettles, SafetyCheckedSettles,
     RecountAttemptsSettles, NextDraftSettles, TimeSettles, VanishSettles
<1>2. CASE UNCHANGED vars
  BY <1>2 DEF vars, LoopInv, AllFit, Settled, Placed, Trusted, Trusts, HeldRow,
              Swept, Sending, Decided, Change, Owned, Runs
<1>3. QED
  BY <1>1, <1>2

(* With one scheduler run and one sending reviewer on one event loop, no   *)
(* row is left behind: whatever is scheduled is approved, has a time and   *)
(* an attempt left, through every sweep, retry, decision and crash.        *)
THEOREM NoRowIsLeftBehind ==
  ASSUME OneSender
  PROVE  Spec => []NoZombie
<1>1. Init => LoopInv
  BY LoopInvInit
<1>2. TypeOK /\ LoopInv /\ [Next]_vars => LoopInv'
  BY LoopInvStep
<1>3. LoopInv => NoZombie
  BY DEF LoopInv, AllFit, Fit, NoZombie
<1>4. QED
  BY <1>1, <1>2, <1>3, TypeCorrect, PTL DEF Spec

(* With one scheduler run and one sending reviewer on one event loop, what *)
(* the run hands to the provider is claimed and approved at that moment:   *)
(* neither its wait for the safety check nor what reviewers do meanwhile   *)
(* makes the claim stale.  A second run, whose sweep may pause a row of    *)
(* the batch, is excluded.                                                 *)
THEOREM WorkersSendWhatIsClaimed ==
  ASSUME OneSender
  PROVE  Spec => []WorkerSendsClaimed
<1>1. Init => LoopInv
  BY LoopInvInit
<1>2. TypeOK /\ LoopInv /\ [Next]_vars => LoopInv'
  BY LoopInvStep
<1>3. TypeOK /\ LoopInv => WorkerSendsClaimed
  <2> SUFFICES ASSUME TypeOK, OneSender, LoopInv, NEW h \in Workers,
                      call[h].at \in {"commit", "check", "mail"}, NEW d, d = call[h].cur
               PROVE  dirty[d].status = "SENDING" /\ dirty[d].approved = 1
    BY DEF WorkerSendsClaimed
  <2>1. h \in Calls /\ Settled(h)
    BY DEF Calls, LoopInv
  <2>2. CASE call[h].at = "commit"
    <3>1. d \in Drafts /\ lock[d] = h
      BY <2>1, <2>2 DEF TypeOK, CallsOK, Rowless, Settled
    <3>2. Sending(h, d)
      BY <2>1, <2>2, <3>1 DEF Settled, HeldRow, Swept
    <3>3. QED
      BY <2>2, <3>2 DEF Sending, Owned
  <2>3. CASE call[h].at # "commit"
    <3>1. dirty[d] = msg[d] /\ Owned(h, msg[d])
      BY <2>1, <2>3, SendFacts DEF SendPlaces
    <3>2. QED
      BY <3>1 DEF Owned
  <2>4. QED
    BY <2>2, <2>3
<1>4. QED
  BY <1>1, <1>2, <1>3, TypeCorrect, PTL DEF Spec

-----------------------------------------------------------------------------
(* The refinement.  First the abstract state of a status, and what each    *)
(* kind of concrete step is in the abstract specification.                 *)
StateFor(status) ==
  CASE status = "DRAFT"     -> "review"
    [] status = "SCHEDULED" -> "scheduled"
    [] status = "SENDING"   -> "delivery"
    [] status = "FAILED"    -> "failed"
    [] status = "REJECTED"  -> "rejected"
    [] status = "DELETED"   -> "deleted"
    [] status = "SENT"      -> "sent"

(* The turns of a status.                                                  *)
StatusTurns ==
  Sweeps \cup Decisions \cup
    {<<"SCHEDULED", "SENDING">>, <<"SENDING", "FAILED">>}

(* What the columns go through is what the lifecycle allows.               *)
LEMMA StatusTurnsAreTurns ==
  /\ \A s \in Statuses : StateFor(s) \in Lifecycle!States
  /\ \A s, t \in Statuses :
       <<s, t>> \in StatusTurns =>
         s = t \/ <<StateFor(s), StateFor(t)>> \in Lifecycle!Turns
<1>1. \A s \in Statuses : StateFor(s) \in Lifecycle!States
  BY DEF Statuses, StateFor, Lifecycle!States
<1>2. ASSUME NEW s \in Statuses, NEW t \in Statuses, <<s, t>> \in StatusTurns
      PROVE  s = t \/ <<StateFor(s), StateFor(t)>> \in Lifecycle!Turns
  <2>1. CASE <<s, t>> \in Sweeps
    BY <2>1 DEF Sweeps, StateFor, Lifecycle!Turns
  <2>2. CASE <<s, t>> \in Decisions
    BY <2>2 DEF Decisions, StateFor, Lifecycle!Turns
  <2>3. CASE <<s, t>> \in {<<"SCHEDULED", "SENDING">>, <<"SENDING", "FAILED">>}
    BY <2>3 DEF StateFor, Lifecycle!Turns
  <2>4. QED
    BY <1>2, <2>1, <2>2, <2>3 DEF StatusTurns
<1>3. QED
  BY <1>1, <1>2

(* The state of a mail is read off its committed status.                   *)
LEMMA StatesAreStatuses ==
  /\ \A d \in Drafts : StateOf(d) = StateFor(msg[d].status)
  /\ \A d \in Drafts : StateOf(d)' = StateFor(msg'[d].status)
<1>1. \A d \in Drafts : StateOf(d) = StateFor(msg[d].status)
  BY DEF StateOf, StateFor
<1>2. \A d \in Drafts : StateOf(d)' = StateFor(msg'[d].status)
  BY DEF StateOf, StateFor
<1>3. QED
  BY <1>1, <1>2

(* The mails that are out.                                                 *)
Outs == {d \in Drafts : IsOut(d)}

(* Rows that turn, or stay, while no mail leaves and none is recorded.     *)
LEMMA TurnSteps ==
  ASSUME TypeOK, TypeOK', UNCHANGED <<mails, faults>>, Outs' = Outs,
         \A d \in Drafts :
           \/ msg'[d].status = msg[d].status
           \/ d \notin Outs /\ <<msg[d].status, msg'[d].status>> \in StatusTurns
  PROVE  Lifecycle!Turn
<1>1. \A d \in Drafts : msg[d].status \in Statuses /\ msg'[d].status \in Statuses
  BY DEF TypeOK, RowsOK, Row
<1>2. \A d \in Drafts : StateOf(d)' \in Lifecycle!States
  BY <1>1, StatusTurnsAreTurns, StatesAreStatuses
<1>3. ASSUME NEW d \in Drafts
      PROVE  \/ StateOf(d)' = StateOf(d)
             \/ d \notin Outs /\ <<StateOf(d), StateOf(d)'>> \in Lifecycle!Turns
  <2>1. CASE msg'[d].status = msg[d].status
    BY <2>1, StatesAreStatuses
  <2>2. CASE d \notin Outs /\ <<msg[d].status, msg'[d].status>> \in StatusTurns
    BY <1>1, <2>2, StatusTurnsAreTurns, StatesAreStatuses
  <2>3. QED
    BY <2>1, <2>2
<1>4. QED
  BY <1>2, <1>3 DEF Lifecycle!Turn, Outs

(* A mail leaves, heard of or not.                                         *)
LEMMA LeaveSteps ==
  ASSUME TypeOK, NEW d \in Drafts, d \notin Outs, UNCHANGED msg,
         msg[d].status \in {"DRAFT", "SENDING"},
         mails' = [mails EXCEPT ![d] = @ + 1],
         \/ Outs' = Outs \cup {d} /\ faults' = faults
         \/ Outs' = Outs /\ faults' = faults + 1
  PROVE  Lifecycle!Next
<1>1. StateOf(d) \in {"review", "delivery"}
  BY StatesAreStatuses DEF StateFor
<1>2. \A e \in Drafts : StateOf(e)' = StateOf(e)
  BY StatesAreStatuses
<1>3. CASE Outs' = Outs \cup {d} /\ faults' = faults
  <2>1. Lifecycle!Leave(d)
    BY <1>1, <1>2, <1>3 DEF Lifecycle!Leave, Outs
  <2>2. QED
    BY <2>1 DEF Lifecycle!Next
<1>4. CASE Outs' = Outs /\ faults' = faults + 1
  <2>1. Lifecycle!LeaveUnheard(d)
    BY <1>1, <1>2, <1>4 DEF Lifecycle!LeaveUnheard, Outs
  <2>2. QED
    BY <2>1 DEF Lifecycle!Next
<1>5. QED
  BY <1>3, <1>4

(* Mails that have left are recorded.                                      *)
LEMMA RecordSteps ==
  ASSUME NEW S \in SUBSET Outs, S # {}, Outs' = Outs \ S,
         UNCHANGED <<mails, faults>>,
         \A d \in Drafts : IF d \in S THEN msg'[d].status = "SENT"
                           ELSE msg'[d].status = msg[d].status
  PROVE  Lifecycle!Next
<1>1. \A d \in Drafts : StateOf(d)' = IF d \in S THEN "sent" ELSE StateOf(d)
  BY StatesAreStatuses DEF StateFor
<1>2. Lifecycle!Record(S)
  BY <1>1 DEF Lifecycle!Record, Outs
<1>3. QED
  BY <1>2 DEF Lifecycle!Next, Outs

(* A failure forgets mails that have left.                                 *)
LEMMA LoseSteps ==
  ASSUME Outs' \subseteq Outs, UNCHANGED <<msg, mails>>, faults' = faults + 1
  PROVE  Lifecycle!Next
<1>1. \A d \in Drafts : StateOf(d)' = StateOf(d)
  BY StatesAreStatuses
<1>2. PICK S \in SUBSET Outs : Outs' = Outs \ S
  <2>1. Outs' = Outs \ (Outs \ Outs')
    OBVIOUS
  <2>2. QED
    BY <2>1
<1>3. Lifecycle!Lose(S)
  BY <1>1, <1>2 DEF Lifecycle!Lose, Outs
<1>4. QED
  BY <1>2, <1>3 DEF Lifecycle!Next, Outs

-----------------------------------------------------------------------------
(* Which mails are out: the one a running call has just handed over, whose *)
(* row nobody has locked, and those whose record is not committed.         *)
Marking(d) == \E h \in Calls : call[h].at = "mark" /\ call[h].cur = d

Unrecorded(d) == dirty[d].status = "SENT" /\ msg[d].status # "SENT"

(* Those are all.                                                          *)
LEMMA OutIsMarkingOrUnrecorded ==
  /\ \A d \in Drafts : d \in Outs <=> Marking(d) \/ Unrecorded(d)
  /\ \A d \in Drafts : d \in Outs' <=> Marking(d)' \/ Unrecorded(d)'
BY DEF Outs, IsOut, Marking, Unrecorded

(* While a call runs that is not there itself, no mail has just been       *)
(* handed over.                                                            *)
LEMMA NobodyMarks ==
  ASSUME TypeOK, OneSender, LoopInv, NEW h \in Calls, Runs(h) \/ LoopFree(h),
         NEW d
  PROVE  /\ call[h].at # "mark" => ~ Marking(d)
         /\ call[h].at = "mark" => (Marking(d) <=> call[h].cur = d)
BY OthersWait DEF Marking

(* Steps that hand nothing over and record nothing are turns.              *)
LEMMA QuietSteps ==
  ASSUME TypeOK, TypeOK', UNCHANGED <<mails, faults>>,
         \A d \in Drafts : /\ msg'[d].status = msg[d].status
                           /\ dirty'[d].status = "SENT" <=> dirty[d].status = "SENT"
                           /\ Marking(d)' <=> Marking(d)
  PROVE  Lifecycle!Turn
<1>1. \A d \in Drafts : d \in Outs' <=> d \in Outs
  BY OutIsMarkingOrUnrecorded DEF Unrecorded
<1>2. Outs' = Outs
  BY <1>1 DEF Outs
<1>3. QED
  BY <1>2, TurnSteps

(* A step of one call that hands nothing over.                             *)
LEMMA StillMarks ==
  ASSUME TypeOK, NEW h \in Calls, \A g \in Calls \ {h} : call'[g] = call[g],
         call[h].at # "mark", call'[h].at # "mark", NEW d
  PROVE  Marking(d)' <=> Marking(d)
BY DEF Marking

(* The steps that touch no row, and the clock.                             *)
LEMMA PlainStepsAreTurns ==
  ASSUME TypeOK, TypeOK', NEW h \in Calls,
         \/ h \in Reviewers /\ Request(h)
         \/ h \in Workers /\ Tick(h)
         \/ SelectDraft(h) \/ EmitDone(h) \/ ReadForSend(h) \/ SafetyChecked(h)
         \/ ProviderRefuses(h) \/ RecountAttempts(h)
  PROVE  Lifecycle!Turn
<1>1. UNCHANGED <<msg, dirty, mails, faults>> /\ call[h].at # "mark"
  BY DEF Request, Tick, SelectDraft, EmitDone, ReadForSend, SafetyChecked,
         ProviderRefuses, RecountAttempts, rows, counters
<1>2. call'[h].at # "mark" /\ \A g \in Calls \ {h} : call'[g] = call[g]
  <2>1. CASE Request(h)
    <3>1. PICK op \in Ops, D \in (SUBSET Drafts) \ {{}} :
            call' = [call EXCEPT ![h] = Begin(op, "select", D, First(D))]
      BY <2>1 DEF Request
    <3>2. QED
      BY <3>1, BeginFields DEF TypeOK, CallsOK
  <2>2. CASE Tick(h) \/ ReadForSend(h) \/ RecountAttempts(h)
    BY <2>2, GoesFields DEF Tick, ReadForSend, RecountAttempts, TypeOK, CallsOK, Call
  <2>3. CASE EmitDone(h) \/ SafetyChecked(h) \/ ProviderRefuses(h)
    BY <2>3, GoesFields, FailsFields DEF EmitDone, SafetyChecked, ProviderRefuses
  <2>4. CASE SelectDraft(h)
    <3>1. PICK at \in {"next", "read", "update"} : Goes(h, at)
      BY <2>4 DEF SelectDraft
    <3>2. QED
      BY <3>1, GoesFields
  <2>5. QED
    BY <2>1, <2>2, <2>3, <2>4
<1>3. QED
  BY <1>1, <1>2, StillMarks, QuietSteps

(* A time that comes, or a claim that expires, changes no status.          *)
LEMMA TimeStepsAreTurns ==
  ASSUME TypeOK, TypeOK', NEW d \in Drafts, BecomeDue(d) \/ ClaimExpires(d)
  PROVE  Lifecycle!Turn
<1>1. UNCHANGED <<call, mails, faults>>
  BY DEF BecomeDue, ClaimExpires, counters
<1>2. ASSUME NEW e \in Drafts
      PROVE  msg'[e].status = msg[e].status /\ dirty'[e].status = dirty[e].status
  <2>1. /\ msg'[e] \in {msg[e], Moved(msg[e], "due"), AsStale(msg[e])}
        /\ dirty'[e] \in {dirty[e], Moved(dirty[e], "due"), AsStale(dirty[e])}
    BY DEF BecomeDue, ClaimExpires, TypeOK, RowsOK
  <2>2. msg[e] \in Row /\ dirty[e] \in Row
    BY DEF TypeOK, RowsOK
  <2>3. QED
    BY <2>1, <2>2 DEF Row, Moved, AsStale
<1>3. \A e \in Drafts : Marking(e)' <=> Marking(e)
  BY <1>1 DEF Marking
<1>4. QED
  BY <1>1, <1>2, <1>3, QuietSteps

(* A statement on one row.                                                 *)
LEMMA UpdateIsTurn ==
  ASSUME TypeOK, TypeOK', OneSender, LoopInv, NEW h \in Calls, Runs(h),
         NEW d \in Drafts, NEW new, Update(h, d, new), NEW at, Goes(h, at),
         call[h].at # "mark", at # "mark", UNCHANGED <<mails, faults>>,
         dirty[d].status # "SENT", new.status # "SENT"
  PROVE  Lifecycle!Turn
<1>1. /\ \A g \in Calls \ {h} : call'[g] = call[g]
      /\ call'[h].at # "mark"
  BY GoesFields
<1>2. UNCHANGED msg /\ \A e \in Drafts : dirty'[e].status = "SENT" <=> dirty[e].status = "SENT"
  BY DEF Update, TypeOK, RowsOK
<1>3. \A e \in Drafts : Marking(e)' <=> Marking(e)
  BY <1>1, StillMarks
<1>4. QED
  BY <1>2, <1>3, QuietSteps

(* A reviewer's decision is one of the lifecycle, on a mail that is not    *)
(* out.                                                                    *)
LEMMA UpdateDraftIsTurn ==
  ASSUME TypeOK, TypeOK', OneSender, LoopInv, NEW h \in Calls, UpdateDraft(h)
  PROVE  Lifecycle!Turn
<1>1. PICK d : d = call[h].cur
  OBVIOUS
<1>2. /\ d \in Drafts /\ call[h].op \in ReviewerOps \ {"send"}
      /\ dirty[d] = msg[d] /\ Accepts(call[h].op, msg[d])
  BY <1>1, UpdateDraftFacts
<1>3. PICK new \in Outcomes(call[h].op, dirty[d]) : Update(h, d, new)
  BY <1>1 DEF UpdateDraft
<1>4. PICK at \in {"emit", "next"} : Goes(h, at)
  BY DEF UpdateDraft
<1>5. msg[d] \in Row /\ Fit(msg[d])
  BY <1>2 DEF TypeOK, RowsOK, LoopInv, AllFit
<1>6. <<msg[d].status, new.status>> \in Decisions
  BY <1>2, <1>3, <1>5, DecisionsFit
<1>7. dirty[d].status # "SENT" /\ new.status # "SENT"
  BY <1>2, <1>6 DEF Decisions
<1>8. call[h].at = "update" /\ Runs(h) /\ UNCHANGED <<mails, faults>>
  BY DEF UpdateDraft, counters
<1>9. QED
  BY <1>2, <1>3, <1>4, <1>7, <1>8, UpdateIsTurn

(* Counting an attempt and recording a failure leave a mail in delivery or *)
(* take it to failed.                                                      *)
LEMMA SendStatementsAreTurns ==
  ASSUME TypeOK, TypeOK', OneSender, LoopInv, NEW h \in Calls,
         CountAttempt(h) \/ RecordFailure(h)
  PROVE  Lifecycle!Turn
<1>1. PICK d : d = call[h].cur
  OBVIOUS
<1>2. /\ call[h].at \in {"count", "fail"} /\ Runs(h)
      /\ UNCHANGED <<mails, faults>>
  BY DEF CountAttempt, RecordFailure, counters
<1>3. d \in Drafts /\ dirty[d] = msg[d] /\ Owned(h, msg[d]) /\ msg[d] \in Row
  BY <1>1, <1>2, SendFacts DEF SendPlaces, TypeOK, RowsOK
<1>4. PICK at \in {"commit", "next"},
           new \in {msg[d], Counted(msg[d]), Blocked(msg[d]), Paused(msg[d]), Retried(msg[d])} :
        Goes(h, at) /\ Update(h, d, new)
  <2>1. CASE CountAttempt(h)
    BY <1>1, <1>3, <2>1 DEF CountAttempt
  <2>2. CASE RecordFailure(h)
    <3>1. Update(h, d, AfterFailure(msg[d], call[h])) /\ Goes(h, "next")
      BY <1>1, <1>3, <2>2 DEF RecordFailure
    <3>2. AfterFailure(msg[d], call[h]) \in
            {msg[d], Blocked(msg[d]), Paused(msg[d]), Retried(msg[d])}
      BY DEF AfterFailure
    <3>3. QED
      BY <3>1, <3>2
  <2>3. QED
    BY <2>1, <2>2
<1>5. msg[d].status # "SENT" /\ new.status # "SENT"
  BY <1>3, <1>4 DEF Owned, Row, Counted, Blocked, Paused, Retried
<1>6. QED
  BY <1>2, <1>3, <1>4, <1>5, UpdateIsTurn

(* The sweep releases or gives up mails in delivery that are not out.      *)
LEMMA SweepIsTurn ==
  ASSUME TypeOK, TypeOK', OneSender, LoopInv, NEW h \in Workers,
         PauseExhausted(h) \/ ReleaseExpired(h)
  PROVE  Lifecycle!Turn
<1>1. h \in Calls /\ h # NoCall
  BY ConstantsAssumption DEF Calls
<1>2. /\ call[h].at # "mark" /\ UNCHANGED <<msg, mails, faults>>
      /\ \A g \in Calls \ {h} : call'[g] = call[g]
      /\ call'[h].at # "mark"
  BY <1>1, GoesFields DEF PauseExhausted, ReleaseExpired, UpdateAll, counters
<1>3. ASSUME NEW d \in Drafts
      PROVE  dirty'[d].status = "SENT" <=> dirty[d].status = "SENT"
  <2>1. lock[d] \in {h, NoCall} => View(h, d) = dirty[d]
    BY DEF TypeOK, RowsOK, View
  <2>2. \/ dirty'[d] = dirty[d]
        \/ Exhausted(View(h, d)) /\ lock[d] \in {h, NoCall} /\ dirty'[d] = Paused(dirty[d])
        \/ Expired(View(h, d)) /\ lock[d] \in {h, NoCall} /\ dirty'[d] = Released(dirty[d])
    BY DEF PauseExhausted, ReleaseExpired, UpdateAll
  <2>3. dirty[d] \in Row
    BY DEF TypeOK, RowsOK
  <2>4. CASE dirty'[d] # dirty[d]
    <3>1. dirty[d].status \in {"SCHEDULED", "SENDING"}
      BY <2>1, <2>2, <2>4 DEF Exhausted, Expired
    <3>2. Paused(dirty[d]).status = "DRAFT" /\ Released(dirty[d]).status = "SCHEDULED"
      BY <2>3 DEF Paused, Released, Row
    <3>3. QED
      BY <2>2, <2>4, <3>1, <3>2
  <2>5. QED
    BY <2>4
<1>4. \A e \in Drafts : Marking(e)' <=> Marking(e)
  BY <1>1, <1>2, StillMarks
<1>5. QED
  BY <1>2, <1>3, <1>4, QuietSteps

(* The mail that was handed over stays out until its record is committed.  *)
LEMMA MarkSentIsTurn ==
  ASSUME TypeOK, TypeOK', OneSender, LoopInv, NEW h \in Calls, MarkSent(h)
  PROVE  Lifecycle!Turn
<1>1. PICK d : d = call[h].cur
  OBVIOUS
<1>2. call[h].at = "mark" /\ Runs(h) /\ UNCHANGED <<mails, faults>>
  BY DEF MarkSent, counters
<1>3. /\ d \in Drafts /\ dirty[d] = msg[d] /\ Owned(h, msg[d]) /\ msg[d] \in Row
      /\ lock[d] = NoCall
  BY <1>1, <1>2, SendFacts DEF SendPlaces, TypeOK, RowsOK
<1>4. Update(h, d, Sent(dirty[d]))
  BY <1>1 DEF MarkSent
<1>5. /\ \A g \in Calls \ {h} : call'[g] = call[g]
      /\ call'[h].at # "mark"
  BY GoesFields DEF MarkSent
<1>6. msg[d].status \notin {"SENT", "DELETED"} /\ Sent(dirty[d]).status = "SENT"
  BY <1>3 DEF Owned, Sent, Row
<1>7. /\ UNCHANGED msg /\ dirty'[d].status = "SENT"
      /\ \A e \in Drafts \ {d} : dirty'[e] = dirty[e]
  BY <1>3, <1>4, <1>6 DEF Update, TypeOK, RowsOK
<1>8. ASSUME NEW e \in Drafts PROVE e \in Outs' <=> e \in Outs
  <2>1. Marking(e) <=> e = d
    BY <1>1, <1>2, NobodyMarks
  <2>2. ~ Marking(e)'
    BY <1>2, <1>5, OthersWait DEF Marking
  <2>3. CASE e = d
    BY <1>3, <1>6, <1>7, <2>1, <2>2, <2>3, OutIsMarkingOrUnrecorded DEF Unrecorded
  <2>4. CASE e # d
    BY <1>3, <1>7, <2>1, <2>2, <2>4, OutIsMarkingOrUnrecorded DEF Unrecorded
  <2>5. QED
    BY <2>3, <2>4
<1>9. Outs' = Outs
  BY <1>8 DEF Outs
<1>10. QED
  BY <1>2, <1>7, <1>9, TurnSteps

(* The provider takes a mail that is not out already.                      *)
LEMMA ProviderTakesMail ==
  ASSUME TypeOK, TypeOK', OneSender, LoopInv, NEW h \in Calls,
         ProviderAccepts(h) \/ ProviderAnswerLost(h)
  PROVE  Lifecycle!Next
<1>1. PICK d : d = call[h].cur
  OBVIOUS
<1>2. /\ call[h].at = "mail" /\ Runs(h) /\ UNCHANGED <<msg, dirty, lock>>
      /\ mails' = [mails EXCEPT ![d] = @ + 1]
  BY <1>1 DEF ProviderAccepts, ProviderAnswerLost, rows
<1>3. d \in Drafts /\ dirty[d] = msg[d] /\ Owned(h, msg[d])
  BY <1>1, <1>2, SendFacts DEF SendPlaces
<1>4. \A e \in Drafts : ~ Marking(e)
  BY <1>2, NobodyMarks
<1>5. d \notin Outs /\ msg[d].status \in {"DRAFT", "SENDING"}
  BY <1>3, <1>4, OutIsMarkingOrUnrecorded DEF Unrecorded, Owned
<1>6. CASE ProviderAccepts(h)
  <2>1. /\ \A g \in Calls \ {h} : call'[g] = call[g]
        /\ call'[h].at = "mark" /\ call'[h].cur = d /\ faults' = faults
    BY <1>1, <1>6, GoesFields DEF ProviderAccepts
  <2>2. \A e \in Drafts : Marking(e)' <=> e = d
    BY <1>2, <2>1, OthersWait DEF Marking
  <2>3. \A e \in Drafts : e \in Outs' <=> e \in Outs \/ e = d
    BY <1>2, <1>4, <2>2, OutIsMarkingOrUnrecorded DEF Unrecorded
  <2>4. Outs' = Outs \cup {d}
    BY <1>3, <2>3 DEF Outs
  <2>5. QED
    BY <1>2, <1>3, <1>5, <2>1, <2>4, LeaveSteps
<1>7. CASE ProviderAnswerLost(h)
  <2>1. /\ \A g \in Calls \ {h} : call'[g] = call[g]
        /\ call'[h].at = "recount" /\ faults' = faults + 1
    BY <1>7, FailsFields DEF ProviderAnswerLost
  <2>2. \A e \in Drafts : ~ Marking(e)'
    BY <1>2, <2>1, OthersWait DEF Marking
  <2>3. \A e \in Drafts : e \in Outs' <=> e \in Outs
    BY <1>2, <1>4, <2>2, OutIsMarkingOrUnrecorded DEF Unrecorded
  <2>4. Outs' = Outs
    BY <2>3 DEF Outs
  <2>5. QED
    BY <1>2, <1>3, <1>5, <2>1, <2>4, LeaveSteps
<1>8. QED
  BY <1>6, <1>7

(* A failure forgets mails that are out, and nothing else of them.         *)
LEMMA VanishLoses ==
  ASSUME TypeOK, LoopInv, NEW dead \in SUBSET Calls, Vanish(dead)
  PROVE  Lifecycle!Next
<1>1. /\ UNCHANGED <<msg, mails>> /\ faults' = faults + 1
      /\ \A g \in Calls : call'[g] = IF g \in dead THEN Idle ELSE call[g]
      /\ \A d \in Drafts : dirty'[d] \in {msg[d], dirty[d]}
  BY DEF Vanish
<1>2. \A d \in Drafts : Marking(d)' => Marking(d)
  BY <1>1, BeginFields DEF Marking
<1>3. \A d \in Drafts : Unrecorded(d)' => Unrecorded(d)
  BY <1>1 DEF Unrecorded
<1>4. Outs' \subseteq Outs
  BY <1>2, <1>3, OutIsMarkingOrUnrecorded DEF Outs
<1>5. QED
  BY <1>1, <1>4, LoseSteps

(* The end of a transaction: the rows it has locked turn, or are recorded  *)
(* as sent, never both at once.                                            *)
LEMMA CommitIsTurnOrRecord ==
  ASSUME TypeOK, TypeOK', OneSender, LoopInv, NEW h \in Calls, Runs(h), Commit(h),
         UNCHANGED <<mails, faults>>, call[h].at # "mark", call'[h].at # "mark",
         \A g \in Calls \ {h} : call'[g] = call[g],
         \/ \A d \in Drafts : lock[d] = h =>
              \/ dirty[d].status = msg[d].status
              \/ dirty[d].status = "SENT"
         \/ \A d \in Drafts : lock[d] = h => Change(d) \in StatusTurns
         \/ \E e : \A d \in Drafts : lock[d] = h =>
              /\ d = e
              /\ dirty[d].status = "SENT" \/ Change(d) \in StatusTurns
  PROVE  Lifecycle!Next
<1> DEFINE S == {d \in Outs : lock[d] = h}
<1>1. \A d \in Drafts :
        /\ dirty'[d] = dirty[d]
        /\ msg'[d] = IF lock[d] = h THEN dirty[d] ELSE msg[d]
  BY DEF Commit, View
<1>2. \A d \in Drafts : ~ Marking(d) /\ ~ Marking(d)'
  BY NobodyMarks, StillMarks
<1>3. \A d \in Drafts : /\ d \in Outs <=> Unrecorded(d)
                        /\ d \in Outs' <=> d \in Outs /\ lock[d] # h
  BY <1>1, <1>2, OutIsMarkingOrUnrecorded DEF Unrecorded
<1>4. Outs' = Outs \ S /\ S \in SUBSET Outs
  BY <1>3 DEF Outs
<1>5. \A d \in Drafts : dirty[d].status \in Statuses /\ msg[d].status \in Statuses
  BY DEF TypeOK, RowsOK, Row
<1>6. CASE S = {}
  <2>1. Outs' = Outs
    BY <1>4, <1>6
  <2>2. ASSUME NEW d \in Drafts
        PROVE  \/ msg'[d].status = msg[d].status
               \/ d \notin Outs /\ <<msg[d].status, msg'[d].status>> \in StatusTurns
    <3>1. CASE lock[d] # h
      BY <1>1, <3>1
    <3>2. CASE lock[d] = h /\ msg'[d].status # msg[d].status
      <4>1. d \notin Outs
        BY <1>6, <3>2
      <4>2. dirty[d].status # "SENT"
        BY <1>1, <1>3, <3>2, <4>1 DEF Unrecorded
      <4>3. Change(d) \in StatusTurns
        BY <1>1, <3>2, <4>2
      <4>4. QED
        BY <1>1, <3>2, <4>1, <4>3 DEF Change
    <3>3. QED
      BY <3>1, <3>2
  <2>3. QED
    BY <2>1, <2>2, TurnSteps DEF Lifecycle!Next
<1>7. CASE S # {}
  <2>1. PICK s \in S : TRUE
    BY <1>7
  <2>2. /\ s \in Drafts /\ lock[s] = h /\ dirty[s].status = "SENT"
        /\ msg[s].status # "SENT"
    BY <1>3, <2>1 DEF Unrecorded, Outs
  <2>3. Change(s) \notin StatusTurns
    BY <2>2 DEF Change, StatusTurns, Sweeps, Decisions
  <2>4. ASSUME NEW d \in Drafts
        PROVE  IF d \in S THEN msg'[d].status = "SENT"
               ELSE msg'[d].status = msg[d].status
    <3>1. CASE lock[d] # h
      BY <1>1, <3>1
    <3>2. CASE lock[d] = h
      <4>1. dirty[d].status = msg[d].status \/ dirty[d].status = "SENT"
        BY <2>2, <2>3, <3>2
      <4>2. d \in S <=> Unrecorded(d)
        BY <1>3, <3>2
      <4>3. QED
        BY <1>1, <3>2, <4>1, <4>2 DEF Unrecorded
    <3>3. QED
      BY <3>1, <3>2
  <2>5. QED
    BY <1>4, <1>7, <2>4, RecordSteps
<1>8. QED
  BY <1>6, <1>7

(* The commit of a counted attempt records what an approval sent before.   *)
LEMMA DispatchRefines ==
  ASSUME TypeOK, TypeOK', OneSender, LoopInv, NEW h \in Calls, Dispatch(h)
  PROVE  Lifecycle!Next
<1>1. /\ call[h].at = "commit" /\ Runs(h) /\ Commit(h) /\ Settled(h)
      /\ UNCHANGED <<mails, faults>>
  BY DEF Dispatch, LoopInv, counters
<1>2. /\ \A g \in Calls \ {h} : call'[g] = call[g]
      /\ call'[h].at # "mark"
  BY GoesFields, FailsFields DEF Dispatch
<1>3. ASSUME NEW d \in Drafts, lock[d] = h
      PROVE  dirty[d].status = msg[d].status \/ dirty[d].status = "SENT"
  <2>1. h \notin Workers => call[h].op = "send"
    BY <1>1 DEF Settled, Placed, SendPlaces, Calls
  <2>2. Sending(h, d)
    BY <1>1, <1>3, <2>1 DEF Settled, HeldRow, Swept
  <2>3. QED
    BY <1>1, <2>2 DEF Sending, Owned
<1>4. QED
  BY <1>1, <1>2, <1>3, CommitIsTurnOrRecord

(* The commit after a draft, or after the last one.                        *)
LEMMA NextDraftRefines ==
  ASSUME TypeOK, TypeOK', OneSender, LoopInv, NEW h \in Calls, NextDraft(h)
  PROVE  Lifecycle!Next
<1>1. /\ call[h].at = "next" /\ Runs(h) /\ Settled(h)
      /\ Commit(h) \/ UNCHANGED rows
      /\ UNCHANGED <<mails, faults>>
  BY DEF NextDraft, LoopInv, counters
<1>2. PICK rest : rest = call[h].todo \ {call[h].cur}
  OBVIOUS
<1>3. /\ \A g \in Calls \ {h} : call'[g] = call[g]
      /\ call'[h].at # "mark"
  BY <1>2, NextDraftFields
<1>4. CASE UNCHANGED rows
  <2>1. Lifecycle!Turn
    BY <1>1, <1>3, <1>4, StillMarks, QuietSteps DEF rows
  <2>2. QED
    BY <2>1 DEF Lifecycle!Next
<1>5. CASE Commit(h)
  <2>1. \A d \in Drafts : lock[d] = h => HeldRow(h, d) /\ ~ Swept(h, d)
    BY <1>1 DEF Settled, Swept
  <2>2. CASE h \in Workers
    <3>1. \A d \in Drafts : lock[d] = h =>
            /\ d = call[h].cur
            /\ dirty[d].status = "SENT" \/ Change(d) \in StatusTurns
      BY <1>1, <2>1, <2>2
         DEF HeldRow, Sending, Owned, Change, StatusTurns, Sweeps
    <3>2. QED
      BY <1>1, <1>3, <1>5, <3>1, CommitIsTurnOrRecord
  <2>3. CASE h \notin Workers /\ call[h].op = "send"
    <3>1. \A d \in Drafts : lock[d] = h =>
            dirty[d].status = msg[d].status \/ dirty[d].status = "SENT"
      BY <1>1, <2>1, <2>3 DEF HeldRow, Sending, Owned
    <3>2. QED
      BY <1>1, <1>3, <1>5, <3>1, CommitIsTurnOrRecord
  <2>4. CASE h \notin Workers /\ call[h].op # "send"
    <3>1. \A d \in Drafts : lock[d] = h => Change(d) \in StatusTurns
      BY <2>1, <2>4 DEF HeldRow, Decided, StatusTurns
    <3>2. QED
      BY <1>1, <1>3, <1>5, <3>1, CommitIsTurnOrRecord
  <2>5. QED
    BY <2>2, <2>3, <2>4
<1>6. QED
  BY <1>1, <1>4, <1>5

(* The commit of a sweep and of a claim.                                   *)
LEMMA ClaimDueRefines ==
  ASSUME TypeOK, TypeOK', OneSender, LoopInv, NEW h \in Workers, ClaimDue(h)
  PROVE  Lifecycle!Turn
<1>1. h \in Calls /\ h # NoCall /\ Settled(h) /\ UNCHANGED <<mails, faults>>
  BY ConstantsAssumption DEF Calls, LoopInv, ClaimDue, counters
<1>2. /\ call[h].at = "claim" /\ Runs(h)
      /\ \A g \in Calls \ {h} : call'[g] = call[g]
      /\ call'[h].at # "mark"
  BY ClaimDueFacts
<1>3. \A d \in Drafts : ~ Marking(d) /\ ~ Marking(d)'
  BY <1>1, <1>2, NobodyMarks, StillMarks
<1>4. ASSUME NEW d \in Drafts
      PROVE  /\ d \in Outs' <=> d \in Outs
             /\ \/ msg'[d].status = msg[d].status
                \/ d \notin Outs /\ <<msg[d].status, msg'[d].status>> \in StatusTurns
  <2>1. dirty[d] \in Row /\ (lock[d] = NoCall => dirty[d] = msg[d])
    BY DEF TypeOK, RowsOK
  <2>2. lock[d] = h => Change(d) \in Sweeps
    BY <1>1, <1>2 DEF Settled, HeldRow, Swept, Sending, Rowless
  <2>3. CASE d \in call'[h].todo
    <3>1. /\ lock[d] \in {h, NoCall} /\ dirty[d].status = "SCHEDULED"
          /\ msg'[d] = Claimed(dirty[d]) /\ dirty'[d] = Claimed(dirty[d])
      BY <2>3, ClaimDueFacts DEF Claimable
    <3>2. Claimed(dirty[d]).status = "SENDING"
      BY <2>1 DEF Claimed, Row
    <3>3. msg[d].status \in {"SCHEDULED", "SENDING"}
      BY <1>1, <2>1, <2>2, <3>1 DEF Change, Sweeps
    <3>4. QED
      BY <1>3, <3>1, <3>2, <3>3, OutIsMarkingOrUnrecorded DEF Unrecorded, StatusTurns
  <2>4. CASE d \notin call'[h].todo /\ lock[d] = h
    <3>1. msg'[d] = dirty[d] /\ dirty'[d] = dirty[d]
      BY <2>4, ClaimDueFacts
    <3>2. <<msg[d].status, msg'[d].status>> \in Sweeps /\ dirty[d].status # "SENT"
      BY <2>2, <2>4, <3>1 DEF Change, Sweeps
    <3>3. QED
      BY <1>3, <3>1, <3>2, OutIsMarkingOrUnrecorded DEF Unrecorded, StatusTurns
  <2>5. CASE d \notin call'[h].todo /\ lock[d] # h
    <3>1. msg'[d] = msg[d] /\ dirty'[d] = dirty[d]
      BY <2>5, ClaimDueFacts
    <3>2. QED
      BY <1>3, <3>1, OutIsMarkingOrUnrecorded DEF Unrecorded
  <2>6. QED
    BY <2>3, <2>4, <2>5
<1>5. Outs' = Outs
  BY <1>4 DEF Outs
<1>6. QED
  BY <1>1, <1>4, <1>5, TurnSteps

(* Every step of the queue is a step of the lifecycle, or invisible in it. *)
LEMMA StepRefines ==
  ASSUME TypeOK, TypeOK', OneSender, LoopInv, [Next]_vars
  PROVE  [Lifecycle!Next]_(Lifecycle!lifecycle)
<1>1. CASE Next
  <2>0. Workers \subseteq Calls /\ Reviewers \subseteq Calls
    BY DEF Calls
  <2>1. Lifecycle!Turn \/ Lifecycle!Next
    BY <1>1, <2>0, StepCases, PlainStepsAreTurns, TimeStepsAreTurns, UpdateDraftIsTurn,
       SendStatementsAreTurns, SweepIsTurn, MarkSentIsTurn, ProviderTakesMail,
       VanishLoses, DispatchRefines, NextDraftRefines, ClaimDueRefines
  <2>2. QED
    BY <2>1 DEF Lifecycle!Next
<1>2. CASE UNCHANGED vars
  BY <1>2 DEF vars, Lifecycle!lifecycle, StateOf, IsOut
<1>3. QED
  BY <1>1, <1>2

(* Drafts begin in review or scheduled, and none is out.                   *)
LEMMA InitRefines ==
  ASSUME Init
  PROVE  Lifecycle!Init
<1>1. ASSUME NEW d \in Drafts PROVE StateOf(d) \in {"review", "scheduled"} /\ ~ IsOut(d)
  <2>1. msg[d] \in {NewDraft, Scheduled(NewDraft)} /\ dirty[d] = msg[d]
    BY DEF Init
  <2>2. msg[d].status \in {"DRAFT", "SCHEDULED"}
    <3>1. NewDraft.status = "DRAFT"
      BY DEF NewDraft
    <3>2. "status" \in DOMAIN NewDraft
      BY DEF NewDraft
    <3>3. Scheduled(NewDraft).status = "SCHEDULED"
      BY <3>2 DEF Scheduled
    <3>4. QED
      BY <2>1, <3>1, <3>3
  <2>3. \A h \in Calls : call[h].at = "idle"
    BY IdleIsCall DEF Init
  <2>4. QED
    BY <2>1, <2>2, <2>3, StatesAreStatuses DEF StateFor, IsOut
<1>2. QED
  BY <1>1 DEF Init, Lifecycle!Init

(* With one scheduler run and one sending reviewer on one event loop, the  *)
(* draft queue implements the lifecycle of mails: whatever statements,     *)
(* commits, crashes and lost answers interleave with what reviewers do, a  *)
(* mail leaves only from review or delivery, what has left is neither      *)
(* decided upon nor sent again before it is recorded, and only a failure   *)
(* makes it leave twice.                                                   *)
THEOREM QueueImplementsLifecycle ==
  ASSUME OneSender
  PROVE  Spec => ImplementsLifecycle
<1>1. Init => LoopInv /\ Lifecycle!Init
  BY LoopInvInit, InitRefines
<1>2. TypeOK /\ LoopInv /\ [Next]_vars => LoopInv'
  BY LoopInvStep
<1>3. TypeOK /\ TypeOK' /\ LoopInv /\ [Next]_vars
        => [Lifecycle!Next]_(Lifecycle!lifecycle)
  BY StepRefines
<1>4. QED
  BY <1>1, <1>2, <1>3, TypeCorrect, PTL DEF Spec, ImplementsLifecycle, Lifecycle!Spec

-----------------------------------------------------------------------------
(* What follows from the lifecycle.                                        *)

(* A mail has left as often as there were failures, and once more when it  *)
(* is out or on record.                                                    *)
Accounted ==
  \A d \in Drafts :
    mails[d] <= faults + (IF d \in Outs \/ StateOf(d) = "sent" THEN 1 ELSE 0)

(* Every step of the lifecycle keeps the account.                          *)
LEMMA StaysAccounted ==
  ASSUME TypeOK, Accounted, [Lifecycle!Next]_(Lifecycle!lifecycle)
  PROVE  Accounted'
<1> SUFFICES ASSUME NEW d \in Drafts
             PROVE  mails'[d] <= faults' + (IF d \in Outs' \/ StateOf(d)' = "sent"
                                            THEN 1 ELSE 0)
  BY DEF Accounted
<1>1. /\ mails[d] \in Nat /\ faults \in Nat /\ mails \in [Drafts -> Nat]
      /\ mails[d] <= faults + (IF d \in Outs \/ StateOf(d) = "sent" THEN 1 ELSE 0)
  BY DEF TypeOK, CountersOK, Accounted
<1>2. CASE Lifecycle!Turn
  <2>1. /\ UNCHANGED <<mails, faults>> /\ Outs' = Outs
        /\ StateOf(d)' = StateOf(d) \/ <<StateOf(d), StateOf(d)'>> \in Lifecycle!Turns
    BY <1>2 DEF Lifecycle!Turn, Outs
  <2>2. StateOf(d) = "sent" => StateOf(d)' = "sent"
    BY <2>1 DEF Lifecycle!Turns
  <2>3. QED
    BY <1>1, <2>1, <2>2
<1>3. ASSUME NEW e \in Drafts, Lifecycle!Leave(e)
      PROVE  mails'[d] <= faults' + (IF d \in Outs' \/ StateOf(d)' = "sent" THEN 1 ELSE 0)
  <2>1. /\ mails' = [mails EXCEPT ![e] = @ + 1] /\ faults' = faults
        /\ Outs' = Outs \cup {e} /\ StateOf(d)' = StateOf(d)
        /\ e \notin Outs /\ StateOf(e) # "sent"
    BY <1>3 DEF Lifecycle!Leave, Outs
  <2>2. QED
    BY <1>1, <2>1
<1>4. ASSUME NEW e \in Drafts, Lifecycle!LeaveUnheard(e)
      PROVE  mails'[d] <= faults' + (IF d \in Outs' \/ StateOf(d)' = "sent" THEN 1 ELSE 0)
  <2>1. /\ mails' = [mails EXCEPT ![e] = @ + 1] /\ faults' = faults + 1
        /\ Outs' = Outs /\ StateOf(d)' = StateOf(d)
    BY <1>4 DEF Lifecycle!LeaveUnheard, Outs
  <2>2. QED
    BY <1>1, <2>1
<1>5. ASSUME NEW S \in SUBSET Outs, Lifecycle!Record(S)
      PROVE  mails'[d] <= faults' + (IF d \in Outs' \/ StateOf(d)' = "sent" THEN 1 ELSE 0)
  <2>1. /\ mails' = mails /\ faults' = faults /\ Outs' = Outs \ S
        /\ StateOf(d)' = IF d \in S THEN "sent" ELSE StateOf(d)
    BY <1>5 DEF Lifecycle!Record, Outs
  <2>2. QED
    BY <1>1, <2>1
<1>6. ASSUME NEW S \in SUBSET Outs, Lifecycle!Lose(S)
      PROVE  mails'[d] <= faults' + (IF d \in Outs' \/ StateOf(d)' = "sent" THEN 1 ELSE 0)
  <2>1. /\ mails' = mails /\ faults' = faults + 1 /\ StateOf(d)' = StateOf(d)
    BY <1>6 DEF Lifecycle!Lose, Outs
  <2>2. QED
    BY <1>1, <2>1
<1>7. CASE UNCHANGED Lifecycle!lifecycle
  <2>1. /\ mails' = mails /\ faults' = faults /\ Outs' = Outs
        /\ StateOf(d)' = StateOf(d)
    BY <1>7 DEF Lifecycle!lifecycle, Outs
  <2>2. QED
    BY <1>1, <2>1
<1>8. QED
  BY <1>2, <1>3, <1>4, <1>5, <1>6, <1>7 DEF Lifecycle!Next, Outs

(* With one scheduler run and one sending reviewer on one event loop, a    *)
(* mail leaves twice only because of a failure.                            *)
THEOREM DuplicatesNeedFaults ==
  ASSUME OneSender
  PROVE  Spec => []DuplicateNeedsFault
<1>1. Init => LoopInv /\ Accounted
  BY LoopInvInit DEF Init, Accounted
<1>2. TypeOK /\ TypeOK' /\ LoopInv /\ Accounted /\ [Next]_vars
        => LoopInv' /\ Accounted'
  BY LoopInvStep, StepRefines, StaysAccounted
<1>3. TypeOK /\ Accounted => DuplicateNeedsFault
  BY DEF TypeOK, CountersOK, Accounted, DuplicateNeedsFault
<1>4. QED
  BY <1>1, <1>2, <1>3, TypeCorrect, PTL DEF Spec

(* With one scheduler run and one sending reviewer on one event loop, and  *)
(* without failures, a mail that has left and that nobody works on is on   *)
(* record as sent: it is not left in a transaction, nor in a state from    *)
(* which it could leave again.                                             *)
THEOREM SentMailIsRecorded ==
  ASSUME OneSender
  PROVE  Spec => []MailIsRecorded
<1>1. Init => LoopInv /\ Accounted
  BY LoopInvInit DEF Init, Accounted
<1>2. TypeOK /\ TypeOK' /\ LoopInv /\ Accounted /\ [Next]_vars
        => LoopInv' /\ Accounted'
  BY LoopInvStep, StepRefines, StaysAccounted
<1>3. TypeOK /\ LoopInv /\ Accounted => MailIsRecorded
  <2> SUFFICES ASSUME TypeOK, OneSender, LoopInv, Accounted, NEW d \in Drafts,
                      mails[d] > 0, faults = 0, lock[d] = NoCall,
                      \A h \in Calls : d \notin call[h].todo
               PROVE  msg[d].status = "SENT"
    BY DEF MailIsRecorded
  <2>1. d \in Outs \/ StateOf(d) = "sent"
    BY DEF Accounted, TypeOK, CountersOK
  <2>2. d \notin Outs
    <3>1. ~ Unrecorded(d)
      BY DEF Unrecorded, TypeOK, RowsOK
    <3>2. ~ Marking(d)
      BY DEF Marking, LoopInv, Settled, Placed, Rowless
    <3>3. QED
      BY <3>1, <3>2, OutIsMarkingOrUnrecorded
  <2>3. msg[d].status \in Statuses /\ StateFor(msg[d].status) = "sent"
    BY <2>1, <2>2, StatesAreStatuses DEF TypeOK, RowsOK, Row
  <2>4. QED
    BY <2>3 DEF Statuses, StateFor
<1>4. QED
  BY <1>1, <1>2, <1>3, TypeCorrect, PTL DEF Spec

(* A step that takes no mail off the record.                               *)
SentStays == \A d \in Drafts : msg[d].status = "SENT" => msg'[d].status = "SENT"

(* With one scheduler run and one sending reviewer on one event loop, what *)
(* is on record as sent stays so, whatever is decided, swept, retried or   *)
(* lost afterwards.                                                        *)
THEOREM SentStaysSent ==
  ASSUME OneSender
  PROVE  Spec => SentIsFinal
<1>1. Init => LoopInv
  BY LoopInvInit
<1>2. TypeOK /\ LoopInv /\ [Next]_vars => LoopInv'
  BY LoopInvStep
<1>3. TypeOK /\ TypeOK' /\ LoopInv /\ [Next]_vars => [SentStays]_msg
  <2> SUFFICES ASSUME TypeOK, TypeOK', OneSender, LoopInv, [Next]_vars,
                      NEW d \in Drafts, msg[d].status = "SENT"
               PROVE  msg'[d].status = "SENT"
    BY DEF SentStays
  <2>1. [Lifecycle!Next]_(Lifecycle!lifecycle)
    BY StepRefines
  <2>2. StateOf(d) = "sent"
    BY StatesAreStatuses DEF StateFor
  <2>3. StateOf(d)' = "sent"
    <3>1. CASE Lifecycle!Turn
      <4>1. StateOf(d)' = StateOf(d) \/ <<StateOf(d), StateOf(d)'>> \in Lifecycle!Turns
        BY <3>1 DEF Lifecycle!Turn
      <4>2. QED
        BY <2>2, <4>1 DEF Lifecycle!Turns
    <3>2. CASE \E e \in Drafts : Lifecycle!Leave(e) \/ Lifecycle!LeaveUnheard(e)
      BY <2>2, <3>2 DEF Lifecycle!Leave, Lifecycle!LeaveUnheard
    <3>3. CASE \E S \in SUBSET Outs : Lifecycle!Record(S) \/ Lifecycle!Lose(S)
      BY <2>2, <3>3 DEF Lifecycle!Record, Lifecycle!Lose
    <3>4. CASE UNCHANGED Lifecycle!lifecycle
      BY <2>2, <3>4 DEF Lifecycle!lifecycle
    <3>5. QED
      BY <2>1, <3>1, <3>2, <3>3, <3>4 DEF Lifecycle!Next, Outs
  <2>4. msg'[d].status \in Statuses /\ StateFor(msg'[d].status) = "sent"
    BY <2>3, StatesAreStatuses DEF TypeOK, RowsOK, Row
  <2>5. QED
    BY <2>4 DEF Statuses, StateFor
<1>4. QED
  BY <1>1, <1>2, <1>3, TypeCorrect, PTL DEF Spec, SentIsFinal, SentStays
================================================================================
