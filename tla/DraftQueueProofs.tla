-------------------------- MODULE DraftQueueProofs --------------------------
(* Theorems about DraftQueue, for every value of its constants. *)
EXTENDS DraftQueue, WellFoundedInduction, TLAPS

(* A set of drafts that is not empty has a first one.                      *)
LEMMA FirstInSet ==
  ASSUME NEW S \in SUBSET Drafts, S # {}
  PROVE  First(S) \in S
<1> DEFINE Less == {ss \in Nat \X Nat : ss[1] < ss[2]}
<1>1. S \subseteq Nat
  BY ConstantsAssumption
<1>2. IsWellFoundedOn(Less, Nat)
  BY NatLessThanWellFounded DEF OpToRel
<1>3. PICK d \in S : \A e \in S : ~ (<<e, d>> \in Less)
  <2> HIDE DEF Less
  <2>1. QED
    BY <1>1, <1>2, WFMin, Zenon
<1>4. \A e \in S : d <= e
  <2>1. SUFFICES ASSUME NEW e \in S, ~ (d <= e) PROVE FALSE
    OBVIOUS
  <2>2. d \in Nat /\ e \in Nat
    BY <1>1
  <2>3. <<e, d>> \in Less
    BY <2>1, <2>2
  <2>4. QED
    BY <1>3, <2>3
<1>5. QED
  BY <1>4 DEF First

(* Every row operation yields a row.                                       *)
LEMMA RowOperations ==
  ASSUME NEW m \in Row
  PROVE  /\ Scheduled(m) \in Row
         /\ Rejected(m) \in Row
         /\ Deleted(m) \in Row
         /\ \A at \in {"none", "future", "due"} : Moved(m, at) \in Row
         /\ Returned(m) \in Row
         /\ Counted(m) \in Row
         /\ Sent(m) \in Row
         /\ Paused(m) \in Row
         /\ Blocked(m) \in Row
         /\ Retried(m) \in Row
         /\ Released(m) \in Row
         /\ Claimed(m) \in Row
<1> USE DEF Row, Statuses
<1>1. Scheduled(m) \in Row /\ Rejected(m) \in Row /\ Deleted(m) \in Row
  BY DEF Scheduled, Rejected, Deleted
<1>2. \A at \in {"none", "future", "due"} : Moved(m, at) \in Row
  BY DEF Moved
<1>3. Returned(m) \in Row /\ Sent(m) \in Row
  BY DEF Returned, Sent
<1>4. Counted(m) \in Row
  <2>1. m.send_attempts + 1 \in Nat
    OBVIOUS
  <2>2. QED
    BY <2>1 DEF Counted
<1>5. Paused(m) \in Row /\ Blocked(m) \in Row /\ Retried(m) \in Row
  BY DEF Paused, Blocked, Retried
<1>6. Released(m) \in Row /\ Claimed(m) \in Row
  BY DEF Released, Claimed
<1>7. QED
  BY <1>1, <1>2, <1>3, <1>4, <1>5, <1>6

(* What a SELECT returns is a row.                                         *)
LEMMA ViewIsRow ==
  ASSUME RowsOK, NEW h \in Calls, NEW d \in Drafts
  PROVE  View(h, d) \in Row
BY DEF RowsOK, View

(* Statements and commits keep the versions of the rows in order.          *)
LEMMA UpdateKeepsRows ==
  ASSUME RowsOK, NEW h \in Calls, NEW d \in Drafts, NEW new \in Row,
         Update(h, d, new)
  PROVE  RowsOK'
BY ConstantsAssumption DEF RowsOK, Update

(* The end of a transaction keeps the rows well-typed.                     *)
LEMMA CommitKeepsRows ==
  ASSUME RowsOK, NEW h \in Calls, Commit(h)
  PROVE  RowsOK'
<1>1. \A d \in Drafts : View(h, d) \in Row
  BY ViewIsRow
<1>2. \A d \in Drafts : View(h, d) = IF lock[d] = h THEN dirty[d] ELSE msg[d]
  BY DEF View
<1>3. QED
  BY <1>1, <1>2, ConstantsAssumption DEF RowsOK, Commit, Unlock

(* The place of a call changes to another place.                           *)
LEMMA GoesKeepsCalls ==
  ASSUME CallsOK, NEW h \in Calls, NEW at \in Places, Goes(h, at),
         at \in Rowless \/ call[h].cur \in Drafts,
         at = "update" => call[h].op \in ReviewerOps \ {"send"}
  PROVE  CallsOK'
<1>1. [call[h] EXCEPT !.at = at] \in Call
  BY DEF CallsOK, Call
<1>2. call' \in [Calls -> Call]
  BY <1>1 DEF CallsOK, Goes
<1>3. ASSUME NEW g \in Calls
      PROVE  /\ call'[g].at \notin Rowless => call'[g].cur \in Drafts
             /\ call'[g].at = "update" => call'[g].op \in ReviewerOps \ {"send"}
  <2>1. CASE g = h
    BY <2>1 DEF CallsOK, Goes, Call
  <2>2. CASE g # h
    BY <2>2 DEF CallsOK, Goes, Call
  <2>3. QED
    BY <2>1, <2>2
<1>4. QED
  BY <1>2, <1>3 DEF CallsOK

(* A call that begins a row, or ends, is a call.                           *)
LEMMA CallReplaced ==
  ASSUME CallsOK, NEW h \in Calls, NEW c \in Call,
         call' = [call EXCEPT ![h] = c],
         c.at \in Rowless \/ c.cur \in Drafts, c.at # "update"
  PROVE  CallsOK'
BY DEF CallsOK

(* A call that has ended is a call.                                        *)
LEMMA IdleIsCall == Idle \in Call /\ Idle.at = "idle"
BY DEF Idle, Call, Places, Results, Rowless

(* A call that takes up a draft is a call.                                 *)
LEMMA BeginIsCall ==
  ASSUME NEW op \in ReviewerOps \cup {"none", "tick"}, NEW at \in Places,
         NEW todo \in SUBSET Drafts, NEW d \in Drafts
  PROVE  /\ Begin(op, at, todo, d) \in Call
         /\ Begin(op, at, todo, d).cur \in Drafts
         /\ Begin(op, at, todo, d).at = at
         /\ Begin(op, at, todo, d).op = op
         /\ Begin(op, at, todo, d).todo = todo
BY DEF Begin, Idle, Call, Places, Results

(* Taking and yielding the event loop.                                     *)
LEMMA LoopSteps ==
  ASSUME LoopOK, NEW h \in Calls, Takes(h) \/ Yields(h) \/ UNCHANGED loop
  PROVE  LoopOK'
BY ConstantsAssumption DEF LoopOK, Takes, Yields

(* What an action leaves alone stays well-typed.                           *)
LEMMA KeepsRows ==
  ASSUME RowsOK, UNCHANGED rows
  PROVE  RowsOK'
BY DEF RowsOK, rows

(* Counters that a step leaves alone stay numbers.                         *)
LEMMA KeepsCounters ==
  ASSUME CountersOK, UNCHANGED counters
  PROVE  CountersOK'
BY DEF CountersOK, counters

-----------------------------------------------------------------------------
(* Type correctness, action by action.                                     *)

(* A reviewer request reaching its handler keeps the types.                *)
LEMMA RequestTypes ==
  ASSUME TypeOK, NEW h \in Reviewers, Request(h)
  PROVE  TypeOK'
<1> USE DEF TypeOK
<1>0. h \in Calls
  BY DEF Calls
<1>1. RowsOK'
  BY KeepsRows DEF Request
<1>2. CallsOK'
  <2>1. PICK op \in Ops, D \in (SUBSET Drafts) \ {{}} :
          call' = [call EXCEPT ![h] = Begin(op, "select", D, First(D))]
    BY DEF Request
  <2>2. First(D) \in Drafts
    <3>1. D \in SUBSET Drafts /\ D # {}
      OBVIOUS
    <3>2. First(D) \in D
      BY <3>1, FirstInSet
    <3>3. QED
      BY <3>1, <3>2
  <2>3. op \in ReviewerOps \cup {"none", "tick"} /\ "select" \in Places
    BY ConstantsAssumption DEF Places
  <2>4. /\ Begin(op, "select", D, First(D)) \in Call
        /\ Begin(op, "select", D, First(D)).cur \in Drafts
        /\ Begin(op, "select", D, First(D)).at = "select"
    BY <2>2, <2>3, BeginIsCall
  <2>5. QED
    BY <1>0, <2>1, <2>4, CallReplaced
<1>3. LoopOK'
  BY <1>0, LoopSteps DEF Request
<1>4. CountersOK'
  BY DEF Request, CountersOK
<1>5. QED
  BY <1>1, <1>2, <1>3, <1>4

(* The SELECT of a reviewer operation keeps the types.                     *)
LEMMA SelectDraftTypes ==
  ASSUME TypeOK, NEW h \in Calls, SelectDraft(h)
  PROVE  TypeOK'
<1> USE DEF TypeOK
<1>1. RowsOK'
  BY KeepsRows DEF SelectDraft
<1>2. CallsOK'
  <2>1. call[h].cur \in Drafts
    BY DEF SelectDraft, CallsOK, Rowless
  <2>2. PICK at \in {"next", "read", "update"} :
          Goes(h, at) /\ (at = "update" => call[h].op \in ReviewerOps \ {"send"})
    BY DEF SelectDraft, Accepts, ReviewerOps
  <2>3. QED
    BY <2>1, <2>2, GoesKeepsCalls DEF Places
<1>3. LoopOK'
  BY LoopSteps DEF SelectDraft
<1>4. CountersOK'
  BY KeepsCounters DEF SelectDraft
<1>5. QED
  BY <1>1, <1>2, <1>3, <1>4

(* What a reviewer operation writes is a row.                              *)
LEMMA OutcomesAreRows ==
  ASSUME NEW m \in Row, NEW op \in ReviewerOps \ {"send"},
         NEW new \in Outcomes(op, m)
  PROVE  new \in Row
<1>1. CASE op = "move"
  <2>1. PICK at \in {"future", "due"} : new = Moved(m, at)
    BY <1>1 DEF Outcomes
  <2>2. QED
    BY <2>1, RowOperations
<1>2. CASE op # "move"
  BY <1>2, RowOperations DEF Outcomes, ReviewerOps
<1>3. QED
  BY <1>1, <1>2

(* The write of a reviewer operation keeps the types.                      *)
LEMMA UpdateDraftTypes ==
  ASSUME TypeOK, NEW h \in Calls, UpdateDraft(h)
  PROVE  TypeOK'
<1> USE DEF TypeOK
<1> DEFINE d == call[h].cur
<1>0. d \in Drafts /\ call[h].op \in ReviewerOps \ {"send"}
  BY DEF UpdateDraft, CallsOK, Rowless
<1>1. RowsOK'
  <2>1. PICK new \in Outcomes(call[h].op, dirty[d]) : Update(h, d, new)
    BY DEF UpdateDraft
  <2>2. dirty[d] \in Row
    BY <1>0 DEF RowsOK
  <2>3. new \in Row
    BY <1>0, <2>2, OutcomesAreRows
  <2>4. QED
    BY <1>0, <2>1, <2>3, UpdateKeepsRows
<1>2. CallsOK'
  <2>1. PICK at \in {"emit", "next"} : Goes(h, at)
    BY DEF UpdateDraft
  <2>2. QED
    BY <1>0, <2>1, GoesKeepsCalls DEF Places
<1>3. LoopOK'
  BY LoopSteps DEF UpdateDraft
<1>4. CountersOK'
  BY KeepsCounters DEF UpdateDraft
<1>5. QED
  BY <1>1, <1>2, <1>3, <1>4

(* The return from emit_event keeps the types.                             *)
LEMMA EmitDoneTypes ==
  ASSUME TypeOK, NEW h \in Calls, EmitDone(h)
  PROVE  TypeOK'
<1> USE DEF TypeOK
<1>0. h \in Calls
  BY DEF Calls
<1>1. RowsOK'
  BY KeepsRows DEF EmitDone
<1>2. CallsOK'
  <2>1. call[h].cur \in Drafts
    BY <1>0 DEF EmitDone, CallsOK, Rowless
  <2>2. PICK at \in {"next"} : Goes(h, at)
    BY DEF EmitDone
  <2>3. QED
    BY <1>0, <2>1, <2>2, GoesKeepsCalls DEF Places
<1>3. LoopOK'
  BY <1>0, LoopSteps DEF EmitDone
<1>4. CountersOK'
  BY KeepsCounters DEF EmitDone
<1>5. QED
  BY <1>1, <1>2, <1>3, <1>4

(* The SELECT of send_approved_draft keeps the types.                      *)
LEMMA ReadForSendTypes ==
  ASSUME TypeOK, NEW h \in Calls, ReadForSend(h)
  PROVE  TypeOK'
<1> USE DEF TypeOK
<1>1. RowsOK'
  BY KeepsRows DEF ReadForSend
<1>2. CallsOK'
  <2>1. call[h].cur \in Drafts
    BY DEF ReadForSend, CallsOK, Rowless
  <2>2. CASE Goes(h, "next")
    BY <2>1, <2>2, GoesKeepsCalls DEF Places
  <2>3. CASE ~ Goes(h, "next")
    <3> DEFINE scheduled == IsScheduledSend(View(h, call[h].cur))
               c == [call[h] EXCEPT !.at = "count", !.was = scheduled]
    <3>1. call' = [call EXCEPT ![h] = c]
      BY <2>3 DEF ReadForSend
    <3>2. scheduled \in BOOLEAN
      BY DEF IsScheduledSend
    <3>3. c \in Call /\ c.cur = call[h].cur /\ c.at = "count"
      <4> HIDE DEF scheduled
      <4>1. QED
        BY <3>2 DEF CallsOK, Call, Places
    <3> HIDE DEF c
    <3>4. QED
      BY <2>1, <3>1, <3>3, CallReplaced
  <2>4. QED
    BY <2>2, <2>3
<1>3. LoopOK'
  BY LoopSteps DEF ReadForSend
<1>4. CountersOK'
  BY KeepsCounters DEF ReadForSend
<1>5. QED
  BY <1>1, <1>2, <1>3, <1>4

(* Counting the attempt keeps the types.                                   *)
LEMMA CountAttemptTypes ==
  ASSUME TypeOK, NEW h \in Calls, CountAttempt(h)
  PROVE  TypeOK'
<1> USE DEF TypeOK
<1>0. h \in Calls
  BY DEF Calls
<1>1. RowsOK'
  <2>1. call[h].cur \in Drafts
    BY <1>0 DEF CountAttempt, CallsOK, Rowless
  <2>2. dirty[call[h].cur] \in Row
    BY <2>1 DEF RowsOK
  <2>3. Counted(dirty[call[h].cur]) \in Row
    BY <2>2, RowOperations
  <2>4. QED
    BY <1>0, <2>1, <2>3, UpdateKeepsRows DEF CountAttempt
<1>2. CallsOK'
  <2>1. call[h].cur \in Drafts
    BY <1>0 DEF CountAttempt, CallsOK, Rowless
  <2>2. PICK at \in {"commit"} : Goes(h, at)
    BY DEF CountAttempt
  <2>3. QED
    BY <1>0, <2>1, <2>2, GoesKeepsCalls DEF Places
<1>3. LoopOK'
  BY <1>0, LoopSteps DEF CountAttempt
<1>4. CountersOK'
  BY KeepsCounters DEF CountAttempt
<1>5. QED
  BY <1>1, <1>2, <1>3, <1>4

(* A send that ends with an error keeps the calls well-typed.              *)
LEMMA FailsKeepsCalls ==
  ASSUME CallsOK, NEW h \in Calls, NEW r \in Results, call[h].at \notin Rowless,
         Fails(h, r)
  PROVE  CallsOK'
<1> DEFINE c == [call[h] EXCEPT !.at = "recount", !.result = r]
<1>1. c \in Call /\ c.cur \in Drafts /\ c.at = "recount"
  BY DEF CallsOK, Call, Places
<1>2. call' = [call EXCEPT ![h] = c]
  BY DEF Fails
<1> HIDE DEF c
<1>3. QED
  BY <1>1, <1>2, CallReplaced

(* The commit before the mail is sent keeps the types.                     *)
LEMMA DispatchTypes ==
  ASSUME TypeOK, NEW h \in Calls, Dispatch(h)
  PROVE  TypeOK'
<1> USE DEF TypeOK
<1>0. h \in Calls
  BY DEF Calls
<1>1. RowsOK'
  BY <1>0, CommitKeepsRows DEF Dispatch
<1>2. CallsOK'
  <2>1. call[h].cur \in Drafts /\ call[h].at \notin Rowless
    BY <1>0 DEF Dispatch, CallsOK, Rowless
  <2>2. CASE Fails(h, "error")
    BY <1>0, <2>1, <2>2, FailsKeepsCalls DEF Results
  <2>3. CASE Goes(h, "check")
    <3>1. PICK at \in {"check"} : Goes(h, at)
      BY <2>3
    <3>2. QED
      BY <1>0, <2>1, <3>1, GoesKeepsCalls DEF Places
  <2>4. QED
    BY <2>2, <2>3 DEF Dispatch
<1>3. LoopOK'
  BY <1>0, LoopSteps DEF Dispatch
<1>4. CountersOK'
  BY KeepsCounters DEF Dispatch
<1>5. QED
  BY <1>1, <1>2, <1>3, <1>4

(* The end of the safety check keeps the types.                            *)
LEMMA SafetyCheckedTypes ==
  ASSUME TypeOK, NEW h \in Calls, SafetyChecked(h)
  PROVE  TypeOK'
<1> USE DEF TypeOK
<1>0. h \in Calls
  BY DEF Calls
<1>1. RowsOK'
  BY KeepsRows DEF SafetyChecked
<1>2. CallsOK'
  <2>1. call[h].cur \in Drafts /\ call[h].at \notin Rowless
    BY <1>0 DEF SafetyChecked, CallsOK, Rowless
  <2>2. CASE \E r \in {"error", "unsafe"} : Fails(h, r)
    BY <1>0, <2>1, <2>2, FailsKeepsCalls DEF Results
  <2>3. CASE Goes(h, "mail")
    <3>1. PICK at \in {"mail"} : Goes(h, at)
      BY <2>3
    <3>2. QED
      BY <1>0, <2>1, <3>1, GoesKeepsCalls DEF Places
  <2>4. QED
    BY <2>2, <2>3 DEF SafetyChecked
<1>3. LoopOK'
  BY <1>0, LoopSteps DEF SafetyChecked
<1>4. CountersOK'
  BY KeepsCounters DEF SafetyChecked
<1>5. QED
  BY <1>1, <1>2, <1>3, <1>4

(* An accepted mail keeps the types.                                       *)
LEMMA ProviderAcceptsTypes ==
  ASSUME TypeOK, NEW h \in Calls, ProviderAccepts(h)
  PROVE  TypeOK'
<1> USE DEF TypeOK
<1>0. h \in Calls /\ call[h].cur \in Drafts
  BY DEF Calls, ProviderAccepts, CallsOK, Rowless
<1>1. RowsOK'
  BY KeepsRows DEF ProviderAccepts
<1>2. CallsOK'
  <2>1. PICK at \in {"mark"} : Goes(h, at)
    BY DEF ProviderAccepts
  <2>2. QED
    BY <1>0, <2>1, GoesKeepsCalls DEF Places
<1>3. LoopOK'
  BY <1>0, LoopSteps DEF ProviderAccepts
<1>4. CountersOK'
  BY <1>0 DEF ProviderAccepts, CountersOK
<1>5. QED
  BY <1>1, <1>2, <1>3, <1>4

(* A refused mail, and a lost answer, keep the types.                      *)
LEMMA ProviderFailsTypes ==
  ASSUME TypeOK, NEW h \in Calls, ProviderRefuses(h) \/ ProviderAnswerLost(h)
  PROVE  TypeOK'
<1> USE DEF TypeOK
<1>0. h \in Calls /\ call[h].cur \in Drafts /\ call[h].at \notin Rowless
  BY DEF Calls, ProviderRefuses, ProviderAnswerLost, CallsOK, Rowless
<1>1. RowsOK'
  BY KeepsRows DEF ProviderRefuses, ProviderAnswerLost
<1>2. CallsOK'
  BY <1>0, FailsKeepsCalls DEF ProviderRefuses, ProviderAnswerLost, Results
<1>3. LoopOK'
  BY <1>0, LoopSteps DEF ProviderRefuses, ProviderAnswerLost
<1>4. CountersOK'
  BY <1>0, KeepsCounters DEF ProviderRefuses, ProviderAnswerLost, CountersOK
<1>5. QED
  BY <1>1, <1>2, <1>3, <1>4

(* Recording a sent mail keeps the types.                                  *)
LEMMA MarkSentTypes ==
  ASSUME TypeOK, NEW h \in Calls, MarkSent(h)
  PROVE  TypeOK'
<1> USE DEF TypeOK
<1>0. h \in Calls
  BY DEF Calls
<1>1. RowsOK'
  <2>1. call[h].cur \in Drafts
    BY <1>0 DEF MarkSent, CallsOK, Rowless
  <2>2. dirty[call[h].cur] \in Row
    BY <2>1 DEF RowsOK
  <2>3. Sent(dirty[call[h].cur]) \in Row
    BY <2>2, RowOperations
  <2>4. QED
    BY <1>0, <2>1, <2>3, UpdateKeepsRows DEF MarkSent
<1>2. CallsOK'
  <2>1. call[h].cur \in Drafts
    BY <1>0 DEF MarkSent, CallsOK, Rowless
  <2>2. PICK at \in {"emit", "next"} : Goes(h, at)
    BY DEF MarkSent
  <2>3. QED
    BY <1>0, <2>1, <2>2, GoesKeepsCalls DEF Places
<1>3. LoopOK'
  BY <1>0, LoopSteps DEF MarkSent
<1>4. CountersOK'
  BY KeepsCounters DEF MarkSent
<1>5. QED
  BY <1>1, <1>2, <1>3, <1>4

(* The SELECT of send_attempts keeps the types.                            *)
LEMMA RecountAttemptsTypes ==
  ASSUME TypeOK, NEW h \in Calls, RecountAttempts(h)
  PROVE  TypeOK'
<1> USE DEF TypeOK
<1>1. RowsOK'
  BY KeepsRows DEF RecountAttempts
<1>2. CallsOK'
  <2>1. call[h].cur \in Drafts
    BY DEF RecountAttempts, CallsOK, Rowless
  <2>2. View(h, call[h].cur).send_attempts \in Nat
    BY <2>1, ViewIsRow DEF Row
  <2>3. PICK n \in Nat :
          call' = [call EXCEPT ![h].at = "fail", ![h].seen = n]
    BY <2>2 DEF RecountAttempts
  <2> DEFINE c == [call[h] EXCEPT !.at = "fail", !.seen = n]
  <2>4. c \in Call /\ c.cur = call[h].cur /\ c.at = "fail"
    BY DEF CallsOK, Call, Places
  <2>5. call' = [call EXCEPT ![h] = c]
    BY <2>3
  <2> HIDE DEF c
  <2>6. QED
    BY <2>1, <2>4, <2>5, CallReplaced
<1>3. LoopOK'
  BY LoopSteps DEF RecountAttempts
<1>4. CountersOK'
  BY KeepsCounters DEF RecountAttempts
<1>5. QED
  BY <1>1, <1>2, <1>3, <1>4

(* What a failed send leaves behind is a row.                              *)
LEMMA AfterFailureIsRow ==
  ASSUME NEW m \in Row, NEW c \in Call
  PROVE  AfterFailure(m, c) \in Row
BY RowOperations DEF AfterFailure

(* Recording a failed send keeps the types.                                *)
LEMMA RecordFailureTypes ==
  ASSUME TypeOK, NEW h \in Calls, RecordFailure(h)
  PROVE  TypeOK'
<1> USE DEF TypeOK
<1>0. h \in Calls
  BY DEF Calls
<1>1. RowsOK'
  <2>1. call[h].cur \in Drafts
    BY <1>0 DEF RecordFailure, CallsOK, Rowless
  <2>2. dirty[call[h].cur] \in Row
    BY <2>1 DEF RowsOK
  <2>3. AfterFailure(dirty[call[h].cur], call[h]) \in Row
    BY <2>2, RowOperations, AfterFailureIsRow DEF CallsOK
  <2>4. QED
    BY <1>0, <2>1, <2>3, UpdateKeepsRows DEF RecordFailure
<1>2. CallsOK'
  <2>1. call[h].cur \in Drafts
    BY <1>0 DEF RecordFailure, CallsOK, Rowless
  <2>2. PICK at \in {"next"} : Goes(h, at)
    BY DEF RecordFailure
  <2>3. QED
    BY <1>0, <2>1, <2>2, GoesKeepsCalls DEF Places
<1>3. LoopOK'
  BY <1>0, LoopSteps DEF RecordFailure
<1>4. CountersOK'
  BY KeepsCounters DEF RecordFailure
<1>5. QED
  BY <1>1, <1>2, <1>3, <1>4

(* The step to the next draft keeps the types.                             *)
LEMMA NextDraftTypes ==
  ASSUME TypeOK, NEW h \in Calls, NextDraft(h)
  PROVE  TypeOK'
<1> USE DEF TypeOK
<1> DEFINE rest == call[h].todo \ {call[h].cur}
<1>0. rest \in SUBSET Drafts /\ call[h].op \in ReviewerOps \cup {"none", "tick"}
  BY DEF CallsOK, Call
<1>1. RowsOK'
  <2>1. CASE Commit(h)
    BY <2>1, CommitKeepsRows
  <2>2. CASE UNCHANGED rows
    BY <2>2, KeepsRows
  <2>3. QED
    BY <2>1, <2>2 DEF NextDraft
<1>2. CallsOK'
  <2>1. CASE rest = {}
    <3>1. call' = [call EXCEPT ![h] = Idle]
      BY <2>1 DEF NextDraft
    <3>2. QED
      BY <3>1, IdleIsCall, CallReplaced DEF Rowless
  <2>2. CASE rest # {}
    <3> DEFINE at == IF h \in Workers THEN "read" ELSE "select"
    <3>1. PICK d \in Heads(h, rest) :
            call' = [call EXCEPT ![h] = Begin(call[h].op, at, rest, d)]
      BY <2>2 DEF NextDraft
    <3>2. d \in Drafts
      BY <1>0, <2>2, <3>1, FirstInSet DEF Heads
    <3>3. at \in Places /\ at # "update"
      BY DEF Places
    <3> HIDE DEF at, rest
    <3>4. /\ Begin(call[h].op, at, rest, d) \in Call
          /\ Begin(call[h].op, at, rest, d).cur \in Drafts
          /\ Begin(call[h].op, at, rest, d).at = at
      BY <1>0, <3>2, <3>3, BeginIsCall
    <3>5. QED
      BY <3>1, <3>3, <3>4, CallReplaced
  <2>3. QED
    BY <2>1, <2>2
<1>3. LoopOK'
  BY LoopSteps DEF NextDraft
<1>4. CountersOK'
  BY KeepsCounters DEF NextDraft
<1>5. QED
  BY <1>1, <1>2, <1>3, <1>4

(* The start of a scheduler run keeps the types.                           *)
LEMMA TickTypes ==
  ASSUME TypeOK, NEW h \in Workers, Tick(h)
  PROVE  TypeOK'
<1> USE DEF TypeOK
<1>0. h \in Calls
  BY DEF Calls
<1>1. RowsOK'
  BY KeepsRows DEF Tick
<1>2. CallsOK'
  <2> DEFINE c == [call[h] EXCEPT !.at = "sweep", !.op = "tick"]
  <2>1. c \in Call /\ c.at = "sweep"
    BY <1>0 DEF CallsOK, Call, Places
  <2>2. call' = [call EXCEPT ![h] = c]
    BY DEF Tick
  <2> HIDE DEF c
  <2>3. QED
    BY <1>0, <2>1, <2>2, CallReplaced DEF Rowless
<1>3. LoopOK'
  BY <1>0, LoopSteps DEF Tick
<1>4. CountersOK'
  BY KeepsCounters DEF Tick
<1>5. QED
  BY <1>1, <1>2, <1>3, <1>4

(* The pause of exhausted rows keeps the types.                            *)
LEMMA PauseExhaustedTypes ==
  ASSUME TypeOK, NEW h \in Workers, PauseExhausted(h)
  PROVE  TypeOK'
<1> USE DEF TypeOK
<1>0. h \in Calls /\ h # NoCall
  BY ConstantsAssumption DEF Calls
<1>1. RowsOK'
  <2>1. \A d \in Drafts : Paused(dirty[d]) \in Row
    BY RowOperations DEF RowsOK
  <2> DEFINE D == {d \in Drafts : Exhausted(View(h, d))}
  <2> HIDE DEF D
  <2>2. UpdateAll(h, D, Paused)
    BY DEF PauseExhausted, D
  <2>3. QED
    BY <1>0, <2>1, <2>2 DEF RowsOK, UpdateAll
<1>2. CallsOK'
  BY <1>0, GoesKeepsCalls DEF PauseExhausted, Places, Rowless
<1>3. LoopOK'
  BY <1>0, LoopSteps DEF PauseExhausted
<1>4. CountersOK'
  BY KeepsCounters DEF PauseExhausted
<1>5. QED
  BY <1>1, <1>2, <1>3, <1>4

(* The release of expired claims keeps the types.                          *)
LEMMA ReleaseExpiredTypes ==
  ASSUME TypeOK, NEW h \in Workers, ReleaseExpired(h)
  PROVE  TypeOK'
<1> USE DEF TypeOK
<1>0. h \in Calls /\ h # NoCall
  BY ConstantsAssumption DEF Calls
<1>1. RowsOK'
  <2>1. \A d \in Drafts : Released(dirty[d]) \in Row
    BY RowOperations DEF RowsOK
  <2> DEFINE D == {d \in Drafts : Expired(View(h, d))}
  <2> HIDE DEF D
  <2>2. UpdateAll(h, D, Released)
    BY DEF ReleaseExpired, D
  <2>3. QED
    BY <1>0, <2>1, <2>2 DEF RowsOK, UpdateAll
<1>2. CallsOK'
  BY <1>0, GoesKeepsCalls DEF ReleaseExpired, Places, Rowless
<1>3. LoopOK'
  BY <1>0, LoopSteps DEF ReleaseExpired
<1>4. CountersOK'
  BY KeepsCounters DEF ReleaseExpired
<1>5. QED
  BY <1>1, <1>2, <1>3, <1>4

(* The claim of due rows keeps the types.                                  *)
LEMMA ClaimDueTypes ==
  ASSUME TypeOK, NEW h \in Workers, ClaimDue(h)
  PROVE  TypeOK'
<1> USE DEF TypeOK
<1>0. h \in Calls /\ h # NoCall
  BY ConstantsAssumption DEF Calls
<1>1. PICK S \in SUBSET {d \in Drafts : /\ lock[d] \in {h, NoCall}
                                        /\ Claimable(View(h, d))} :
        /\ msg' = [d \in Drafts |-> IF d \in S THEN Claimed(View(h, d))
                                    ELSE View(h, d)]
        /\ dirty' = [d \in Drafts |-> IF d \in S THEN Claimed(dirty[d])
                                      ELSE dirty[d]]
        /\ Unlock(h)
        /\ IF S = {}
           THEN call' = [call EXCEPT ![h] = Idle] /\ Yields(h)
           ELSE /\ \E d \in S :
                     call' = [call EXCEPT ![h] = Begin("tick", "read", S, d)]
                /\ UNCHANGED loop
  BY DEF ClaimDue
<1>2. \A d \in S : d \in Drafts /\ lock[d] \in {h, NoCall}
  OBVIOUS
<1>3. RowsOK'
  <2>1. \A d \in Drafts : View(h, d) \in Row /\ dirty[d] \in Row
    BY <1>0, ViewIsRow DEF RowsOK
  <2>2. \A d \in Drafts : Claimed(View(h, d)) \in Row /\ Claimed(dirty[d]) \in Row
    BY <2>1, RowOperations
  <2>3. msg' \in [Drafts -> Row] /\ dirty' \in [Drafts -> Row]
    BY <1>1, <2>1, <2>2
  <2>4. lock' \in [Drafts -> Calls \cup {NoCall}]
    BY <1>1 DEF RowsOK, Unlock
  <2>5. ASSUME NEW d \in Drafts, lock'[d] = NoCall
        PROVE  dirty'[d] = msg'[d]
    <3>1. lock[d] \in {h, NoCall}
      BY <1>1, <2>5 DEF RowsOK, Unlock
    <3>2. View(h, d) = dirty[d]
      BY <1>0, <3>1 DEF RowsOK, View
    <3>3. QED
      BY <1>1, <3>2
  <2>6. QED
    BY <2>3, <2>4, <2>5 DEF RowsOK
<1>4. CallsOK'
  <2>1. CASE S = {}
    BY <1>0, <1>1, <2>1, IdleIsCall, CallReplaced DEF Rowless
  <2>2. CASE S # {}
    <3>1. PICK d \in S : call' = [call EXCEPT ![h] = Begin("tick", "read", S, d)]
      BY <1>1, <2>2
    <3>2. S \in SUBSET Drafts /\ d \in Drafts /\ "read" \in Places
      BY DEF Places
    <3>3. /\ Begin("tick", "read", S, d) \in Call
          /\ Begin("tick", "read", S, d).cur \in Drafts
          /\ Begin("tick", "read", S, d).at = "read"
      BY <3>2, BeginIsCall
    <3>4. QED
      BY <1>0, <3>1, <3>3, CallReplaced
  <2>3. QED
    BY <2>1, <2>2
<1>5. LoopOK'
  BY <1>0, <1>1, LoopSteps
<1>6. CountersOK'
  BY KeepsCounters DEF ClaimDue
<1>7. QED
  BY <1>3, <1>4, <1>5, <1>6

(* Time changes both versions of a row alike.                              *)
LEMMA TimeKeepsRows ==
  ASSUME RowsOK, NEW d \in Drafts, NEW m \in Row, NEW n \in Row,
         dirty[d] = msg[d] => m = n,
         msg' = [msg EXCEPT ![d] = m], dirty' = [dirty EXCEPT ![d] = n],
         UNCHANGED lock
  PROVE  RowsOK'
BY DEF RowsOK

(* A schedule that arrives keeps the types.                                *)
LEMMA BecomeDueTypes ==
  ASSUME TypeOK, NEW d \in Drafts, BecomeDue(d)
  PROVE  TypeOK'
<1> USE DEF TypeOK
<1> DEFINE due(m) == IF m.scheduled = "future" THEN Moved(m, "due") ELSE m
<1>1. msg[d] \in Row /\ dirty[d] \in Row
  BY DEF RowsOK
<1>2. due(msg[d]) \in Row /\ due(dirty[d]) \in Row
  BY <1>1, RowOperations
<1>3. /\ msg' = [msg EXCEPT ![d] = due(msg[d])]
      /\ dirty' = [dirty EXCEPT ![d] = due(dirty[d])]
      /\ UNCHANGED <<lock, call, loop, counters>>
  BY DEF BecomeDue
<1>4. dirty[d] = msg[d] => due(msg[d]) = due(dirty[d])
  OBVIOUS
<1> HIDE DEF due
<1>5. RowsOK'
  BY <1>2, <1>3, <1>4, TimeKeepsRows
<1>6. QED
  BY <1>3, <1>5, KeepsCounters DEF CallsOK, LoopOK

(* A claim that gets old keeps the types.                                  *)
LEMMA ClaimExpiresTypes ==
  ASSUME TypeOK, NEW d \in Drafts, ClaimExpires(d)
  PROVE  TypeOK'
<1> USE DEF TypeOK
<1> DEFINE old(m) == IF m.claimed = "fresh" THEN AsStale(m) ELSE m
<1>1. msg[d] \in Row /\ dirty[d] \in Row
  BY DEF RowsOK
<1>2. old(msg[d]) \in Row /\ old(dirty[d]) \in Row
  BY <1>1 DEF Row, AsStale
<1>3. /\ msg' = [msg EXCEPT ![d] = old(msg[d])]
      /\ dirty' = [dirty EXCEPT ![d] = old(dirty[d])]
      /\ UNCHANGED <<lock, call, loop, counters>>
  BY DEF ClaimExpires
<1>4. dirty[d] = msg[d] => old(msg[d]) = old(dirty[d])
  OBVIOUS
<1> HIDE DEF old
<1>5. RowsOK'
  BY <1>2, <1>3, <1>4, TimeKeepsRows
<1>6. QED
  BY <1>3, <1>5, KeepsCounters DEF CallsOK, LoopOK

(* A rollback of vanished calls keeps the types.                           *)
LEMMA VanishTypes ==
  ASSUME TypeOK, NEW dead \in SUBSET Calls, Vanish(dead)
  PROVE  TypeOK'
<1> USE DEF TypeOK
<1>1. RowsOK'
  BY ConstantsAssumption DEF RowsOK, Vanish
<1>2. CallsOK'
  BY IdleIsCall DEF CallsOK, Vanish, Rowless
<1>3. LoopOK'
  BY DEF LoopOK, Vanish
<1>4. CountersOK'
  BY DEF CountersOK, Vanish
<1>5. QED
  BY <1>1, <1>2, <1>3, <1>4

-----------------------------------------------------------------------------
(* The steps of Next, one by one.  A theorem about every step cites this   *)
(* instead of unfolding Next again.                                        *)
LEMMA StepCases ==
  ASSUME Next
  PROVE  \/ \E h \in Reviewers : Request(h)
         \/ \E h \in Workers : \/ Tick(h) \/ PauseExhausted(h)
                               \/ ReleaseExpired(h) \/ ClaimDue(h)
         \/ \E h \in Calls : \/ SelectDraft(h) \/ UpdateDraft(h) \/ EmitDone(h)
                             \/ ReadForSend(h) \/ CountAttempt(h) \/ Dispatch(h)
                             \/ ProviderAccepts(h) \/ ProviderRefuses(h)
                             \/ ProviderAnswerLost(h) \/ SafetyChecked(h)
                             \/ MarkSent(h) \/ RecountAttempts(h)
                             \/ RecordFailure(h) \/ NextDraft(h)
         \/ \E d \in Drafts : BecomeDue(d) \/ ClaimExpires(d)
         \/ \E dead \in SUBSET Calls : dead # {} /\ Vanish(dead)
BY DEF Next, Running, Resuming, Answering, Sweeping, Crash, StatementRaises

(* The variables have their types in every reachable state, and a row that *)
(* no transaction has open has one version only.                           *)
THEOREM TypeCorrect == Spec => []TypeOK
<1>1. Init => TypeOK
  <2> SUFFICES ASSUME Init PROVE TypeOK
    OBVIOUS
  <2>1. NewDraft \in Row
    BY DEF NewDraft, Row, Statuses
  <2>2. Scheduled(NewDraft) \in Row
    BY <2>1, RowOperations
  <2>3. RowsOK
    BY <2>1, <2>2 DEF Init, RowsOK
  <2>4. CallsOK
    BY IdleIsCall DEF Init, CallsOK, Rowless
  <2>5. LoopOK /\ CountersOK
    BY DEF Init, LoopOK, CountersOK
  <2>6. QED
    BY <2>3, <2>4, <2>5 DEF TypeOK
<1>2. TypeOK /\ [Next]_vars => TypeOK'
  <2> SUFFICES ASSUME TypeOK, [Next]_vars PROVE TypeOK'
    OBVIOUS
  <2>1. CASE Next
    BY <2>1, StepCases, RequestTypes, TickTypes, PauseExhaustedTypes,
       ReleaseExpiredTypes, ClaimDueTypes, SelectDraftTypes, UpdateDraftTypes,
       EmitDoneTypes, ReadForSendTypes, CountAttemptTypes, DispatchTypes,
       ProviderAcceptsTypes, ProviderFailsTypes,
       SafetyCheckedTypes, MarkSentTypes, RecountAttemptsTypes,
       RecordFailureTypes, NextDraftTypes, BecomeDueTypes, ClaimExpiresTypes,
       VanishTypes
  <2>2. CASE UNCHANGED vars
    BY <2>2 DEF vars, TypeOK, RowsOK, CallsOK, LoopOK, CountersOK
  <2>3. QED
    BY <2>1, <2>2
<1>3. QED
  BY <1>1, <1>2, PTL DEF Spec

-----------------------------------------------------------------------------
(* Versions of rows.  Becomes(m, n): one step of the system can turn the   *)
(* version m of a row into the version n.                                  *)
Becomes(m, n) ==
  \/ n \in {m, Scheduled(m), Rejected(m), Deleted(m), Moved(m, "future"),
            Moved(m, "due"), Returned(m), Counted(m), Sent(m), Paused(m),
            Blocked(m), Retried(m), Released(m), AsStale(m)}
  \/ Claimable(m) /\ n = Claimed(m)

Versions(d) == {msg[d], dirty[d]}

(* A statement on one row changes the newest version of that row at most.  *)
LEMMA UpdateVersions ==
  ASSUME RowsOK, NEW h \in Calls, NEW d \in Drafts, NEW new,
         Becomes(dirty[d], new), Update(h, d, new), NEW e \in Drafts
  PROVE  \A n \in Versions(e)' : \E m \in Versions(e) : Becomes(m, n)
BY DEF RowsOK, Update, Versions, Becomes

(* A commit turns the newest versions of its rows into committed ones.     *)
LEMMA CommitVersions ==
  ASSUME RowsOK, NEW h \in Calls, Commit(h), NEW e \in Drafts
  PROVE  \A n \in Versions(e)' : \E m \in Versions(e) : Becomes(m, n)
BY DEF RowsOK, Commit, View, Versions, Becomes

(* A step that leaves the rows alone leaves both versions alone.           *)
LEMMA SameVersions ==
  ASSUME UNCHANGED <<msg, dirty>>, NEW e \in Drafts
  PROVE  \A n \in Versions(e)' : \E m \in Versions(e) : Becomes(m, n)
BY DEF Versions, Becomes

(* Whatever step is taken, a version of a row comes from a version of the  *)
(* same row by one of the row operations.                                  *)
LEMMA VersionSteps ==
  ASSUME TypeOK, [Next]_vars, NEW e \in Drafts
  PROVE  \A n \in Versions(e)' : \E m \in Versions(e) : Becomes(m, n)
<1> DEFINE Goal == \A n \in Versions(e)' : \E m \in Versions(e) : Becomes(m, n)
<1> HIDE DEF Goal
<1>0. RowsOK /\ CallsOK
  BY DEF TypeOK
<1>1. ASSUME UNCHANGED <<msg, dirty>> PROVE Goal
  BY <1>1, SameVersions DEF Goal
<1>2. ASSUME NEW h \in Reviewers, Request(h) PROVE Goal
  BY <1>1, <1>2 DEF Request, rows
<1>3. ASSUME NEW h \in Workers, Tick(h) PROVE Goal
  BY <1>1, <1>3 DEF Tick, rows
<1>4. ASSUME NEW h \in Workers, PauseExhausted(h) PROVE Goal
  <2> DEFINE D == {d \in Drafts : Exhausted(View(h, d))}
  <2> HIDE DEF D
  <2>1. UpdateAll(h, D, Paused)
    BY <1>4 DEF PauseExhausted, D
  <2>2. msg'[e] = msg[e] /\ dirty'[e] \in {dirty[e], Paused(dirty[e])}
    BY <2>1 DEF UpdateAll
  <2>3. QED
    BY <2>2 DEF Goal, Versions, Becomes
<1>5. ASSUME NEW h \in Workers, ReleaseExpired(h) PROVE Goal
  <2> DEFINE D == {d \in Drafts : Expired(View(h, d))}
  <2> HIDE DEF D
  <2>1. UpdateAll(h, D, Released)
    BY <1>5 DEF ReleaseExpired, D
  <2>2. msg'[e] = msg[e] /\ dirty'[e] \in {dirty[e], Released(dirty[e])}
    BY <2>1 DEF UpdateAll
  <2>3. QED
    BY <2>2 DEF Goal, Versions, Becomes
<1>6. ASSUME NEW h \in Workers, ClaimDue(h) PROVE Goal
  <2>1. \/ msg'[e] = View(h, e) /\ dirty'[e] = dirty[e]
        \/ /\ lock[e] \in {h, NoCall} /\ Claimable(View(h, e))
           /\ msg'[e] = Claimed(View(h, e)) /\ dirty'[e] = Claimed(dirty[e])
    BY <1>6 DEF ClaimDue
  <2>2. lock[e] \in {h, NoCall} => View(h, e) = dirty[e]
    BY <1>0 DEF RowsOK, View
  <2>3. View(h, e) \in Versions(e)
    BY DEF View, Versions
  <2>4. QED
    BY <2>1, <2>2, <2>3 DEF Goal, Versions, Becomes
<1>7. ASSUME NEW h \in Calls, SelectDraft(h) \/ EmitDone(h) \/ ReadForSend(h)
                              \/ RecountAttempts(h) \/ SafetyChecked(h)
      PROVE Goal
  BY <1>1, <1>7 DEF SelectDraft, EmitDone, ReadForSend, RecountAttempts,
                    SafetyChecked, rows
<1>8. ASSUME NEW h \in Calls, ProviderAccepts(h) \/ ProviderRefuses(h)
                              \/ ProviderAnswerLost(h)
      PROVE Goal
  BY <1>1, <1>8 DEF ProviderAccepts, ProviderRefuses, ProviderAnswerLost, rows
<1>9. ASSUME NEW h \in Calls, UpdateDraft(h) PROVE Goal
  <2> DEFINE d == call[h].cur
  <2>1. d \in Drafts /\ call[h].op \in ReviewerOps \ {"send"}
    BY <1>0, <1>9 DEF UpdateDraft, CallsOK, Rowless
  <2>2. PICK new \in Outcomes(call[h].op, dirty[d]) : Update(h, d, new)
    BY <1>9 DEF UpdateDraft
  <2>3. Becomes(dirty[d], new)
    BY <2>1, <2>2 DEF Becomes, Outcomes, ReviewerOps
  <2>4. QED
    BY <1>0, <2>1, <2>2, <2>3, UpdateVersions DEF Goal
<1>10. ASSUME NEW h \in Calls, CountAttempt(h) \/ MarkSent(h) \/ RecordFailure(h)
       PROVE Goal
  <2> DEFINE d == call[h].cur
  <2>1. d \in Drafts
    BY <1>0, <1>10 DEF CountAttempt, MarkSent, RecordFailure, CallsOK, Rowless
  <2>2. PICK new \in {Counted(dirty[d]), Sent(dirty[d]),
                      AfterFailure(dirty[d], call[h])} : Update(h, d, new)
    BY <1>10 DEF CountAttempt, MarkSent, RecordFailure
  <2>3. Becomes(dirty[d], new)
    BY <2>2 DEF Becomes, AfterFailure
  <2>4. QED
    BY <1>0, <2>1, <2>2, <2>3, UpdateVersions DEF Goal
<1>11. ASSUME NEW h \in Calls, Dispatch(h) \/ NextDraft(h) PROVE Goal
  <2>1. Commit(h) \/ UNCHANGED <<msg, dirty>>
    BY <1>11 DEF Dispatch, NextDraft, rows
  <2>2. QED
    BY <1>0, <1>1, <2>1, CommitVersions DEF Goal
<1>12. ASSUME NEW d \in Drafts, BecomeDue(d) PROVE Goal
  <2>1. /\ msg'[e] \in {msg[e], Moved(msg[e], "due")}
        /\ dirty'[e] \in {dirty[e], Moved(dirty[e], "due")}
    BY <1>0, <1>12 DEF BecomeDue, RowsOK
  <2>2. QED
    BY <2>1 DEF Goal, Versions, Becomes
<1>13. ASSUME NEW d \in Drafts, ClaimExpires(d) PROVE Goal
  <2>1. /\ msg'[e] \in {msg[e], AsStale(msg[e])}
        /\ dirty'[e] \in {dirty[e], AsStale(dirty[e])}
    BY <1>0, <1>13 DEF ClaimExpires, RowsOK, AsStale
  <2>2. QED
    BY <2>1 DEF Goal, Versions, Becomes
<1>14. ASSUME NEW dead \in SUBSET Calls, Vanish(dead) PROVE Goal
  <2>1. msg'[e] = msg[e] /\ dirty'[e] \in {msg[e], dirty[e]}
    BY <1>14 DEF Vanish
  <2>2. QED
    BY <2>1 DEF Goal, Versions, Becomes
<1>15. ASSUME UNCHANGED vars PROVE Goal
  BY <1>1, <1>15 DEF vars
<1>16. ASSUME Next PROVE Goal
  BY <1>2, <1>3, <1>4, <1>5, <1>6, <1>7, <1>8, <1>9, <1>10, <1>11, <1>12,
     <1>13, <1>14, <1>16, StepCases
<1>17. QED
  BY <1>15, <1>16 DEF Goal

-----------------------------------------------------------------------------
(* What makes a claim recoverable, of one version of a row: the statement  *)
(* has to hold of uncommitted versions too, since a commit publishes them. *)
Recoverable(m) ==
  m.status = "SENDING" =>
    m.approved = 1 /\ m.scheduled # "none" /\ m.claimed # "none"

AllRecoverable == \A d \in Drafts : \A m \in Versions(d) : Recoverable(m)

(* A recoverable version of a row becomes a recoverable one.               *)
LEMMA RecoverableStays ==
  ASSUME NEW m \in Row, NEW n, Recoverable(m), Becomes(m, n)
  PROVE  Recoverable(n)
<1> USE DEF Recoverable, Row
<1>1. CASE n \in {m, Scheduled(m), Rejected(m), Deleted(m)}
  BY <1>1 DEF Scheduled, Rejected, Deleted
<1>2. CASE n \in {Moved(m, "future"), Moved(m, "due"), Returned(m), Counted(m)}
  BY <1>2 DEF Moved, Returned, Counted
<1>3. CASE n \in {Sent(m), Paused(m), Blocked(m), Retried(m), Released(m)}
  BY <1>3 DEF Sent, Paused, Blocked, Retried, Released
<1>4. CASE n = AsStale(m)
  BY <1>4 DEF AsStale
<1>5. CASE Claimable(m) /\ n = Claimed(m)
  BY <1>5 DEF Claimable, Claimed
<1>6. QED
  BY <1>1, <1>2, <1>3, <1>4, <1>5 DEF Becomes

(* Whatever workers, reviewers, crashes and the clock do, a committed      *)
(* SENDING row can be swept: it is approved, scheduled and has a claim     *)
(* time.                                                                   *)
THEOREM ClaimsAreRecoverable == Spec => []ClaimRecoverable
<1>1. Init => AllRecoverable
  <2> SUFFICES ASSUME Init, NEW d \in Drafts PROVE Recoverable(msg[d])
    BY DEF Init, AllRecoverable, Versions
  <2>1. msg[d] \in {NewDraft, Scheduled(NewDraft)}
    BY DEF Init
  <2>2. NewDraft.status = "DRAFT" /\ Scheduled(NewDraft).status = "SCHEDULED"
    BY DEF NewDraft, Scheduled
  <2>3. QED
    BY <2>1, <2>2 DEF Recoverable
<1>2. TypeOK /\ AllRecoverable /\ [Next]_vars => AllRecoverable'
  <2> SUFFICES ASSUME TypeOK, AllRecoverable, [Next]_vars,
                      NEW d \in Drafts, NEW n \in Versions(d)'
               PROVE  Recoverable(n)
    BY DEF AllRecoverable
  <2>1. PICK m \in Versions(d) : Becomes(m, n)
    BY VersionSteps
  <2>2. m \in Row /\ Recoverable(m)
    BY DEF TypeOK, RowsOK, AllRecoverable, Versions
  <2>3. QED
    BY <2>1, <2>2, RecoverableStays
<1>3. AllRecoverable => ClaimRecoverable
  BY DEF AllRecoverable, ClaimRecoverable, Versions, Recoverable
<1>4. QED
  BY <1>1, <1>2, <1>3, TypeCorrect, PTL DEF Spec

-----------------------------------------------------------------------------
(* The attempts of a row.  An open transaction either belongs to a         *)
(* scheduling approval, whose versions count from 0, or has counted up.    *)
Scheduling(h) == call[h].op = "schedule"

LocksAreBusy ==
  \A d \in Drafts : lock[d] # NoCall => call[lock[d]].at \notin {"idle", "sweep"}

SchedulingPlaces ==
  \A h \in Calls : Scheduling(h) =>
    h \in Reviewers /\ call[h].at \in {"select", "update", "emit", "next"}

AttemptsKept ==
  \A d \in Drafts : lock[d] # NoCall =>
    IF Scheduling(lock[d]) THEN dirty[d].send_attempts = 0
                           ELSE dirty[d].send_attempts >= msg[d].send_attempts

AttemptsInv == LocksAreBusy /\ SchedulingPlaces /\ AttemptsKept

AttemptsStep ==
  \A d \in Drafts : msg'[d].send_attempts < msg[d].send_attempts =>
    /\ msg'[d].send_attempts = 0
    /\ \E h \in Reviewers : lock[d] = h /\ call[h].op = "schedule"

(* Only a scheduling approval changes the number of attempts downwards.    *)
LEMMA AttemptsOfOperations ==
  ASSUME NEW m \in Row
  PROVE  /\ Scheduled(m).send_attempts = 0
         /\ Counted(m).send_attempts = m.send_attempts + 1
         /\ \A n \in {Rejected(m), Deleted(m), Moved(m, "future"),
                      Moved(m, "due"), Returned(m), Sent(m), Paused(m),
                      Blocked(m), Retried(m), Released(m), Claimed(m),
                      AsStale(m)} :
              n.send_attempts = m.send_attempts
<1> USE DEF Row
<1>1. Scheduled(m).send_attempts = 0
  BY DEF Scheduled
<1>2. Counted(m).send_attempts = m.send_attempts + 1
  BY DEF Counted
<1>3. \A n \in {Rejected(m), Deleted(m), Moved(m, "future"), Moved(m, "due")} :
        n.send_attempts = m.send_attempts
  BY DEF Rejected, Deleted, Moved
<1>4. \A n \in {Returned(m), Sent(m), Paused(m), Blocked(m)} :
        n.send_attempts = m.send_attempts
  BY DEF Returned, Sent, Paused, Blocked
<1>5. \A n \in {Retried(m), Released(m), Claimed(m), AsStale(m)} :
        n.send_attempts = m.send_attempts
  BY DEF Retried, Released, Claimed, AsStale
<1>6. QED
  BY <1>1, <1>2, <1>3, <1>4, <1>5

(* A call that changes its place and nothing else, rows untouched.         *)
LEMMA MovesKeepAttempts ==
  ASSUME TypeOK, AttemptsInv, NEW h \in Calls, NEW c \in Call,
         call' = [call EXCEPT ![h] = c], UNCHANGED rows,
         c.op = call[h].op, c.at \notin {"idle", "sweep"},
         c.op # "schedule" \/ c.at \in {"select", "update", "emit", "next"}
  PROVE  AttemptsInv' /\ AttemptsStep
<1> USE DEF TypeOK, AttemptsInv, Scheduling, rows
<1>1. LocksAreBusy'
  BY DEF LocksAreBusy, RowsOK, CallsOK
<1>2. SchedulingPlaces'
  BY DEF SchedulingPlaces, CallsOK
<1>3. AttemptsKept'
  BY DEF AttemptsKept, RowsOK, CallsOK
<1>4. AttemptsStep
  BY DEF AttemptsStep, RowsOK, Row
<1>5. QED
  BY <1>1, <1>2, <1>3, <1>4

(* A call that starts holds no row.                                        *)
LEMMA StartsKeepAttempts ==
  ASSUME TypeOK, AttemptsInv, NEW h \in Calls, NEW c \in Call,
         call[h].at = "idle", call' = [call EXCEPT ![h] = c], UNCHANGED rows,
         c.op = "schedule" => h \in Reviewers /\ c.at = "select"
  PROVE  AttemptsInv' /\ AttemptsStep
<1> USE DEF TypeOK, AttemptsInv, Scheduling, rows
<1>1. \A d \in Drafts : lock[d] # h
  BY ConstantsAssumption DEF LocksAreBusy
<1>2. LocksAreBusy'
  BY <1>1 DEF LocksAreBusy, RowsOK, CallsOK
<1>3. SchedulingPlaces'
  BY DEF SchedulingPlaces, CallsOK
<1>4. AttemptsKept'
  BY <1>1 DEF AttemptsKept, RowsOK, CallsOK
<1>5. AttemptsStep
  BY DEF AttemptsStep, RowsOK, Row
<1>6. QED
  BY <1>2, <1>3, <1>4, <1>5

(* A statement that writes the rows D.                                     *)
LEMMA WritesKeepAttempts ==
  ASSUME TypeOK, AttemptsInv, NEW h \in Calls, NEW at \in Places, Goes(h, at),
         at \notin {"idle", "sweep"}, call[h].at \notin {"idle"},
         Scheduling(h) => at \in {"emit", "next"},
         NEW D \in SUBSET Drafts,
         \A d \in D : lock[d] \in {h, NoCall},
         lock' = [d \in Drafts |-> IF d \in D THEN h ELSE lock[d]],
         \A d \in Drafts \ D : dirty'[d] = dirty[d],
         \A d \in D : dirty'[d] \in Row,
         \A d \in D : IF Scheduling(h) THEN dirty'[d].send_attempts = 0
                      ELSE dirty'[d].send_attempts >= dirty[d].send_attempts,
         UNCHANGED msg
  PROVE  AttemptsInv' /\ AttemptsStep
<1> USE DEF TypeOK, AttemptsInv, Scheduling
<1>0. /\ call'[h].at = at /\ call'[h].op = call[h].op
      /\ \A g \in Calls : g # h => call'[g] = call[g]
  BY DEF Goes, CallsOK, Call
<1>1. LocksAreBusy'
  BY <1>0 DEF LocksAreBusy, RowsOK
<1>2. SchedulingPlaces'
  BY <1>0 DEF SchedulingPlaces
<1>3. AttemptsKept'
  <2> SUFFICES ASSUME NEW d \in Drafts, lock'[d] # NoCall
               PROVE  IF Scheduling(lock[d])' THEN dirty'[d].send_attempts = 0
                      ELSE dirty'[d].send_attempts >= msg'[d].send_attempts
    BY DEF AttemptsKept
  <2>1. msg[d].send_attempts \in Nat /\ dirty[d].send_attempts \in Nat
    BY DEF RowsOK, Row
  <2>2. CASE d \in D
    <3>1. lock'[d] = h /\ dirty'[d].send_attempts \in Nat
      BY <2>2 DEF Row
    <3>2. ~ Scheduling(h) => dirty[d].send_attempts >= msg[d].send_attempts
      BY <2>1, <2>2, ConstantsAssumption DEF RowsOK, AttemptsKept
    <3>3. QED
      BY <1>0, <2>1, <2>2, <3>1, <3>2
  <2>3. CASE d \notin D
    BY <1>0, <2>3 DEF AttemptsKept, RowsOK
  <2>4. QED
    BY <2>2, <2>3
<1>4. AttemptsStep
  BY DEF AttemptsStep, RowsOK, Row
<1>5. QED
  BY <1>1, <1>2, <1>3, <1>4

(* The end of a transaction.                                               *)
LEMMA CommitsKeepAttempts ==
  ASSUME TypeOK, AttemptsInv, NEW h \in Calls, NEW c \in Call,
         call' = [call EXCEPT ![h] = c], Commit(h),
         c.op = "schedule" =>
           h \in Reviewers /\ c.at \in {"select", "update", "emit", "next"}
  PROVE  AttemptsInv' /\ AttemptsStep
<1> USE DEF TypeOK, AttemptsInv, Scheduling
<1>0. /\ \A d \in Drafts : lock'[d] # h /\ (lock'[d] # NoCall => lock'[d] = lock[d])
      /\ \A d \in Drafts : msg'[d] = IF lock[d] = h THEN dirty[d] ELSE msg[d]
      /\ UNCHANGED dirty
  BY ConstantsAssumption DEF Commit, Unlock, View
<1>1. LocksAreBusy'
  BY <1>0 DEF LocksAreBusy, RowsOK, CallsOK
<1>2. SchedulingPlaces'
  BY DEF SchedulingPlaces, CallsOK
<1>3. AttemptsKept'
  <2> SUFFICES ASSUME NEW d \in Drafts, lock'[d] # NoCall
               PROVE  IF Scheduling(lock[d])' THEN dirty'[d].send_attempts = 0
                      ELSE dirty'[d].send_attempts >= msg'[d].send_attempts
    BY DEF AttemptsKept
  <2>1. lock'[d] = lock[d] /\ lock[d] # h /\ lock[d] \in Calls
    BY <1>0 DEF RowsOK
  <2>2. msg'[d] = msg[d] /\ dirty'[d] = dirty[d]
    BY <1>0, <2>1
  <2>3. QED
    BY <2>1, <2>2 DEF AttemptsKept, CallsOK
<1>4. AttemptsStep
  <2> SUFFICES ASSUME NEW d \in Drafts, msg'[d].send_attempts < msg[d].send_attempts
               PROVE  /\ msg'[d].send_attempts = 0
                      /\ \E g \in Reviewers : lock[d] = g /\ call[g].op = "schedule"
    BY DEF AttemptsStep
  <2>1. msg[d].send_attempts \in Nat /\ dirty[d].send_attempts \in Nat
    BY DEF RowsOK, Row
  <2>2. lock[d] = h /\ msg'[d] = dirty[d]
    BY <1>0, <2>1
  <2>3. Scheduling(h) /\ dirty[d].send_attempts = 0
    BY <2>1, <2>2, ConstantsAssumption DEF AttemptsKept
  <2>4. QED
    BY <2>2, <2>3 DEF SchedulingPlaces
<1>5. QED
  BY <1>1, <1>2, <1>3, <1>4

(* Time leaves the attempts alone.                                         *)
LEMMA TimeKeepsAttempts ==
  ASSUME TypeOK, AttemptsInv, UNCHANGED <<lock, call>>,
         \A d \in Drafts : /\ msg'[d].send_attempts = msg[d].send_attempts
                           /\ dirty'[d].send_attempts = dirty[d].send_attempts
  PROVE  AttemptsInv' /\ AttemptsStep
<1> USE DEF TypeOK, AttemptsInv, Scheduling
<1>1. LocksAreBusy' /\ SchedulingPlaces' /\ AttemptsKept'
  BY DEF LocksAreBusy, SchedulingPlaces, AttemptsKept
<1>2. AttemptsStep
  BY DEF AttemptsStep, RowsOK, Row
<1>3. QED
  BY <1>1, <1>2

(* A reviewer request starts without a row.                                *)
LEMMA RequestKeepsAttempts ==
  ASSUME TypeOK, AttemptsInv, NEW h \in Reviewers, Request(h)
  PROVE  AttemptsInv' /\ AttemptsStep
<1>1. PICK op \in Ops, D \in (SUBSET Drafts) \ {{}} :
        call' = [call EXCEPT ![h] = Begin(op, "select", D, First(D))]
  BY DEF Request
<1>2. First(D) \in Drafts
  <2>1. D \in SUBSET Drafts /\ D # {}
    OBVIOUS
  <2>2. QED
    BY <2>1, FirstInSet
<1>3. /\ Begin(op, "select", D, First(D)) \in Call
      /\ Begin(op, "select", D, First(D)).at = "select"
  <2>1. op \in ReviewerOps \cup {"none", "tick"} /\ "select" \in Places
    BY ConstantsAssumption DEF Places
  <2>2. QED
    BY <1>2, <2>1, BeginIsCall
<1>4. QED
  BY <1>1, <1>3, StartsKeepAttempts DEF Request, Calls

(* A scheduler run starts without a row.                                   *)
LEMMA TickKeepsAttempts ==
  ASSUME TypeOK, AttemptsInv, NEW h \in Workers, Tick(h)
  PROVE  AttemptsInv' /\ AttemptsStep
<1> DEFINE c == [call[h] EXCEPT !.at = "sweep", !.op = "tick"]
<1>1. h \in Calls
  BY DEF Calls
<1>2. c \in Call /\ c.op = "tick"
  BY <1>1 DEF TypeOK, CallsOK, Call, Places
<1>3. call' = [call EXCEPT ![h] = c]
  BY DEF Tick
<1> HIDE DEF c
<1>4. QED
  BY <1>1, <1>2, <1>3, StartsKeepAttempts DEF Tick

(* Pausing and releasing rows forget no attempt.                           *)
LEMMA SweepKeepsAttempts ==
  ASSUME TypeOK, AttemptsInv, NEW h \in Workers,
         PauseExhausted(h) \/ ReleaseExpired(h)
  PROVE  AttemptsInv' /\ AttemptsStep
<1>0. h \in Calls /\ ~ Scheduling(h)
  BY DEF Calls, AttemptsInv, SchedulingPlaces, PauseExhausted, ReleaseExpired
<1>1. \A d \in Drafts : dirty[d] \in Row
  BY DEF TypeOK, RowsOK
<1>2. \A m \in Row : /\ Paused(m) \in Row /\ Released(m) \in Row
                     /\ Paused(m).send_attempts = m.send_attempts
                     /\ Released(m).send_attempts = m.send_attempts
                     /\ m.send_attempts \in Nat
  BY RowOperations, AttemptsOfOperations DEF Row
<1>3. PICK D \in SUBSET Drafts, at \in {"release", "claim"} :
        /\ \A d \in D : lock[d] \in {h, NoCall}
        /\ lock' = [d \in Drafts |-> IF d \in D THEN h ELSE lock[d]]
        /\ \A d \in Drafts \ D : dirty'[d] = dirty[d]
        /\ \A d \in D : dirty'[d] \in {Paused(dirty[d]), Released(dirty[d])}
        /\ UNCHANGED msg
        /\ Goes(h, at)
        /\ call[h].at # "idle"
  <2>1. CASE PauseExhausted(h)
    <3> DEFINE D == {d \in Drafts : Exhausted(View(h, d))}
    <3>1. D \in SUBSET Drafts
      OBVIOUS
    <3> HIDE DEF D
    <3>2. UpdateAll(h, D, Paused) /\ Goes(h, "release") /\ call[h].at # "idle"
      BY <2>1 DEF PauseExhausted, D
    <3>3. QED
      BY <3>1, <3>2 DEF UpdateAll
  <2>2. CASE ReleaseExpired(h)
    <3> DEFINE D == {d \in Drafts : Expired(View(h, d))}
    <3>1. D \in SUBSET Drafts
      OBVIOUS
    <3> HIDE DEF D
    <3>2. UpdateAll(h, D, Released) /\ Goes(h, "claim") /\ call[h].at # "idle"
      BY <2>2 DEF ReleaseExpired, D
    <3>3. QED
      BY <3>1, <3>2 DEF UpdateAll
  <2>3. QED
    BY <2>1, <2>2
<1>4. \A d \in D : /\ dirty'[d] \in Row
                   /\ dirty'[d].send_attempts >= dirty[d].send_attempts
  BY <1>1, <1>2, <1>3
<1>5. at \in Places /\ at \notin {"idle", "sweep"}
  BY DEF Places
<1>6. QED
  BY <1>0, <1>3, <1>4, <1>5, WritesKeepAttempts

(* Claiming rows forgets no attempt.                                       *)
LEMMA ClaimKeepsAttempts ==
  ASSUME TypeOK, AttemptsInv, NEW h \in Workers, ClaimDue(h)
  PROVE  AttemptsInv' /\ AttemptsStep
<1> USE DEF TypeOK, AttemptsInv, Scheduling
<1>0. h \in Calls /\ h # NoCall /\ ~ Scheduling(h)
  BY ConstantsAssumption DEF Calls, SchedulingPlaces, ClaimDue
<1>1. PICK S \in SUBSET Drafts :
        /\ \A d \in S : lock[d] \in {h, NoCall}
        /\ msg' = [d \in Drafts |-> IF d \in S THEN Claimed(View(h, d))
                                    ELSE View(h, d)]
        /\ dirty' = [d \in Drafts |-> IF d \in S THEN Claimed(dirty[d])
                                      ELSE dirty[d]]
        /\ Unlock(h)
        /\ \/ call' = [call EXCEPT ![h] = Idle]
           \/ \E d \in S : call' = [call EXCEPT ![h] = Begin("tick", "read", S, d)]
  BY DEF ClaimDue
<1>2. PICK c \in Call : call' = [call EXCEPT ![h] = c] /\ c.op # "schedule"
  <2>1. CASE call' = [call EXCEPT ![h] = Idle]
    BY <2>1, IdleIsCall DEF Idle
  <2>2. ASSUME NEW d \in S, call' = [call EXCEPT ![h] = Begin("tick", "read", S, d)]
        PROVE  \E c \in Call : call' = [call EXCEPT ![h] = c] /\ c.op # "schedule"
    <3>1. "read" \in Places /\ d \in Drafts
      BY DEF Places
    <3>2. Begin("tick", "read", S, d) \in Call
      BY <3>1, BeginIsCall
    <3>3. Begin("tick", "read", S, d).op = "tick"
      BY DEF Begin, Idle
    <3>4. QED
      BY <2>2, <3>2, <3>3
  <2>3. QED
    BY <1>1, <2>1, <2>2
<1>3. \A d \in Drafts : lock'[d] # h /\ (lock'[d] # NoCall => lock'[d] = lock[d])
  BY <1>0, <1>1 DEF Unlock
<1>4. ASSUME NEW d \in Drafts
      PROVE  /\ msg'[d].send_attempts = View(h, d).send_attempts
             /\ dirty'[d].send_attempts = dirty[d].send_attempts
  <2>1. View(h, d) \in Row /\ dirty[d] \in Row
    BY <1>0, ViewIsRow DEF RowsOK
  <2>2. \A m \in Row : Claimed(m).send_attempts = m.send_attempts
    BY AttemptsOfOperations
  <2>3. QED
    BY <1>1, <2>1, <2>2
<1>5. LocksAreBusy'
  BY <1>2, <1>3 DEF LocksAreBusy, RowsOK, CallsOK
<1>6. SchedulingPlaces'
  BY <1>2 DEF SchedulingPlaces, CallsOK
<1>7. AttemptsKept'
  <2> SUFFICES ASSUME NEW d \in Drafts, lock'[d] # NoCall
               PROVE  IF Scheduling(lock[d])' THEN dirty'[d].send_attempts = 0
                      ELSE dirty'[d].send_attempts >= msg'[d].send_attempts
    BY DEF AttemptsKept
  <2>1. lock'[d] = lock[d] /\ lock[d] # h /\ lock[d] \in Calls
    BY <1>3 DEF RowsOK
  <2>2. /\ msg'[d].send_attempts = msg[d].send_attempts
        /\ dirty'[d].send_attempts = dirty[d].send_attempts
        /\ call'[lock[d]] = call[lock[d]]
    BY <1>2, <1>4, <2>1 DEF View, CallsOK
  <2>3. QED
    BY <2>1, <2>2 DEF AttemptsKept
<1>8. AttemptsStep
  <2> SUFFICES ASSUME NEW d \in Drafts
               PROVE  ~ (msg'[d].send_attempts < msg[d].send_attempts)
    BY DEF AttemptsStep
  <2>1. msg[d].send_attempts \in Nat /\ dirty[d].send_attempts \in Nat
    BY DEF RowsOK, Row
  <2>2. /\ View(h, d).send_attempts >= msg[d].send_attempts
        /\ View(h, d).send_attempts \in Nat
    BY <1>0, <2>1 DEF View, AttemptsKept
  <2>3. QED
    BY <1>4, <2>1, <2>2
<1>9. QED
  BY <1>5, <1>6, <1>7, <1>8

(* A statement that writes one row.                                        *)
LEMMA UpdateKeepsAttempts ==
  ASSUME TypeOK, AttemptsInv, NEW h \in Calls, NEW at \in Places, Goes(h, at),
         at \notin {"idle", "sweep"}, call[h].at # "idle",
         Scheduling(h) => at \in {"emit", "next"},
         NEW d \in Drafts, NEW new \in Row, Update(h, d, new),
         IF Scheduling(h) THEN new.send_attempts = 0
         ELSE new.send_attempts >= dirty[d].send_attempts
  PROVE  AttemptsInv' /\ AttemptsStep
<1>1. CASE dirty[d].status # "DELETED"
  <2> DEFINE D == {d}
  <2>1. /\ D \in SUBSET Drafts
        /\ \A e \in D : lock[e] \in {h, NoCall}
        /\ lock' = [e \in Drafts |-> IF e \in D THEN h ELSE lock[e]]
        /\ \A e \in Drafts \ D : dirty'[e] = dirty[e]
        /\ \A e \in D : dirty'[e] = new
        /\ UNCHANGED msg
    BY <1>1 DEF Update, TypeOK, RowsOK
  <2>2. \A e \in D : /\ dirty'[e] \in Row
                     /\ IF Scheduling(h) THEN dirty'[e].send_attempts = 0
                        ELSE dirty'[e].send_attempts >= dirty[e].send_attempts
    BY <2>1
  <2> HIDE DEF D
  <2>3. QED
    BY <2>1, <2>2, WritesKeepAttempts
<1>2. CASE dirty[d].status = "DELETED"
  <2> DEFINE c == [call[h] EXCEPT !.at = at]
  <2>1. c \in Call /\ c.op = call[h].op /\ c.at = at
    BY DEF TypeOK, CallsOK, Call
  <2>2. call' = [call EXCEPT ![h] = c] /\ UNCHANGED rows
    BY <1>2 DEF Goes, Update, rows
  <2> HIDE DEF c
  <2>3. QED
    BY <2>1, <2>2, MovesKeepAttempts DEF Scheduling
<1>3. QED
  BY <1>1, <1>2

(* Only a scheduling approval resets the attempts, under its lock.         *)
LEMMA UpdateDraftKeepsAttempts ==
  ASSUME TypeOK, AttemptsInv, NEW h \in Calls, UpdateDraft(h)
  PROVE  AttemptsInv' /\ AttemptsStep
<1> DEFINE d == call[h].cur
<1>1. d \in Drafts /\ call[h].op \in ReviewerOps \ {"send"} /\ call[h].at = "update"
  BY DEF UpdateDraft, TypeOK, CallsOK, Rowless
<1>2. PICK new \in Outcomes(call[h].op, dirty[d]) : Update(h, d, new)
  BY DEF UpdateDraft
<1>3. PICK at \in {"emit", "next"} : Goes(h, at)
  BY DEF UpdateDraft
<1>4. dirty[d] \in Row
  BY <1>1 DEF TypeOK, RowsOK
<1>5. new \in Row
  BY <1>1, <1>4, OutcomesAreRows
<1>6. IF Scheduling(h) THEN new.send_attempts = 0
      ELSE new.send_attempts >= dirty[d].send_attempts
  <2>1. CASE Scheduling(h)
    <3>1. new = Scheduled(dirty[d])
      BY <1>2, <2>1 DEF Scheduling, Outcomes
    <3>2. QED
      BY <1>4, <2>1, <3>1, AttemptsOfOperations
  <2>2. CASE ~ Scheduling(h)
    <3>1. new \in {Rejected(dirty[d]), Deleted(dirty[d]), Moved(dirty[d], "future"),
                   Moved(dirty[d], "due"), Returned(dirty[d])}
      BY <1>1, <1>2, <2>2 DEF Scheduling, Outcomes, ReviewerOps
    <3>2. new.send_attempts = dirty[d].send_attempts
      BY <1>4, <3>1, AttemptsOfOperations
    <3>3. QED
      BY <1>4, <2>2, <3>2 DEF Row
  <2>3. QED
    BY <2>1, <2>2
<1> HIDE DEF d
<1>7. at \in Places
  BY DEF Places
<1>8. QED
  BY <1>1, <1>2, <1>3, <1>5, <1>6, <1>7, UpdateKeepsAttempts

(* The statements of a send forget no attempt.                             *)
LEMMA SendStatementsKeepAttempts ==
  ASSUME TypeOK, AttemptsInv, NEW h \in Calls,
         CountAttempt(h) \/ MarkSent(h) \/ RecordFailure(h)
  PROVE  AttemptsInv' /\ AttemptsStep
<1> DEFINE d == call[h].cur
<1>1. /\ d \in Drafts
      /\ call[h].at \in {"count", "mark", "fail"}
      /\ ~ Scheduling(h)
  BY DEF CountAttempt, MarkSent, RecordFailure, TypeOK, CallsOK, Rowless,
         AttemptsInv, SchedulingPlaces
<1>2. PICK new \in {Counted(dirty[d]), Sent(dirty[d]),
                    AfterFailure(dirty[d], call[h])} : Update(h, d, new)
  BY DEF CountAttempt, MarkSent, RecordFailure
<1>3. PICK at \in {"commit", "emit", "next"} : Goes(h, at)
  BY DEF CountAttempt, MarkSent, RecordFailure
<1>4. dirty[d] \in Row /\ call[h] \in Call
  BY <1>1 DEF TypeOK, RowsOK, CallsOK
<1>5. new \in Row
  BY <1>2, <1>4, RowOperations, AfterFailureIsRow
<1>6. new \in {dirty[d], Counted(dirty[d]), Sent(dirty[d]), Blocked(dirty[d]),
               Paused(dirty[d]), Retried(dirty[d])}
  BY <1>2 DEF AfterFailure
<1>7. new.send_attempts >= dirty[d].send_attempts
  <2>1. dirty[d].send_attempts \in Nat
    BY <1>4 DEF Row
  <2>2. new.send_attempts \in {dirty[d].send_attempts, dirty[d].send_attempts + 1}
    BY <1>4, <1>6, AttemptsOfOperations
  <2>3. QED
    BY <2>1, <2>2
<1> HIDE DEF d
<1>8. at \in Places
  BY DEF Places
<1>9. QED
  BY <1>1, <1>2, <1>3, <1>5, <1>7, <1>8, UpdateKeepsAttempts

(* The commit before the provider call forgets no attempt.                 *)
LEMMA DispatchKeepsAttempts ==
  ASSUME TypeOK, AttemptsInv, NEW h \in Calls, Dispatch(h)
  PROVE  AttemptsInv' /\ AttemptsStep
<1> USE DEF TypeOK, CallsOK
<1>0. CallsOK'
  BY DispatchTypes
<1>1. /\ \A g \in Calls \ {h} : call'[g] = call[g]
      /\ call'[h].op = call[h].op
      /\ call'[h].at \in {"check", "recount"}
  BY DEF Dispatch, Goes, Fails, Call
<1>2. call'[h] \in Call /\ call' = [call EXCEPT ![h] = call'[h]]
  BY <1>0, <1>1
<1>3. call'[h].op # "schedule" /\ Commit(h)
  BY <1>1 DEF Dispatch, AttemptsInv, SchedulingPlaces, Scheduling
<1>4. QED
  BY <1>1, <1>2, <1>3, CommitsKeepAttempts

(* The commit after a draft lowers attempts for a scheduling approval only.*)
LEMMA NextDraftKeepsAttempts ==
  ASSUME TypeOK, AttemptsInv, NEW h \in Calls, NextDraft(h)
  PROVE  AttemptsInv' /\ AttemptsStep
<1> DEFINE rest == call[h].todo \ {call[h].cur}
           at == IF h \in Workers THEN "read" ELSE "select"
<1>0. rest \in SUBSET Drafts /\ call[h].op \in ReviewerOps \cup {"none", "tick"}
  BY DEF TypeOK, CallsOK, Call
<1>1. CASE rest = {}
  <2>1. call' = [call EXCEPT ![h] = Idle] /\ Commit(h)
    BY <1>1 DEF NextDraft
  <2>2. Idle \in Call /\ Idle.op # "schedule"
    BY IdleIsCall DEF Idle
  <2>3. QED
    BY <2>1, <2>2, CommitsKeepAttempts
<1>2. CASE rest # {}
  <2>1. PICK d \in Heads(h, rest) :
          call' = [call EXCEPT ![h] = Begin(call[h].op, at, rest, d)]
    BY <1>2 DEF NextDraft
  <2>2. d \in Drafts
    BY <1>0, <1>2, <2>1, FirstInSet DEF Heads
  <2>3. at \in Places /\ at \in {"read", "select"}
    BY DEF Places
  <2> DEFINE c == Begin(call[h].op, at, rest, d)
  <2>4. c.op = "schedule" => h \in Reviewers /\ at = "select"
    <3>1. c.op = call[h].op
      BY DEF Begin, Idle
    <3>2. QED
      BY <3>1, ConstantsAssumption DEF AttemptsInv, SchedulingPlaces, Scheduling
  <2>5. c \in Call /\ c.op = call[h].op /\ c.at = at
    <3> HIDE DEF at, rest
    <3>1. QED
      BY <1>0, <2>2, <2>3, BeginIsCall
  <2> HIDE DEF c, at, rest
  <2>6. call' = [call EXCEPT ![h] = c]
    BY <2>1 DEF c
  <2>7. CASE Commit(h)
    BY <2>4, <2>5, <2>6, <2>7, CommitsKeepAttempts
  <2>8. CASE UNCHANGED rows
    BY <2>3, <2>4, <2>5, <2>6, <2>8, MovesKeepAttempts
  <2>9. QED
    BY <2>7, <2>8 DEF NextDraft
<1>3. QED
  BY <1>1, <1>2

(* The steps of a call that touch no row.                                  *)
LEMMA PlainMovesKeepAttempts ==
  ASSUME TypeOK, AttemptsInv, NEW h \in Calls, NEW at \in Places, Goes(h, at),
         UNCHANGED rows, at \notin {"idle", "sweep"},
         Scheduling(h) => at \in {"select", "update", "emit", "next"}
  PROVE  AttemptsInv' /\ AttemptsStep
<1> DEFINE c == [call[h] EXCEPT !.at = at]
<1>1. c \in Call /\ c.op = call[h].op /\ c.at = at
  BY DEF TypeOK, CallsOK, Call
<1>2. call' = [call EXCEPT ![h] = c]
  BY DEF Goes
<1> HIDE DEF c
<1>3. QED
  BY <1>1, <1>2, MovesKeepAttempts DEF Scheduling

(* The SELECTs of a call forget no attempt.                                *)
LEMMA ReadsKeepAttempts ==
  ASSUME TypeOK, AttemptsInv, NEW h \in Calls, SelectDraft(h) \/ EmitDone(h)
  PROVE  AttemptsInv' /\ AttemptsStep
<1>1. PICK at \in {"next", "read", "update"} :
        /\ Goes(h, at)
        /\ Scheduling(h) => at \in {"update", "next"}
  <2>1. CASE SelectDraft(h)
    BY <2>1 DEF SelectDraft, Scheduling
  <2>2. CASE EmitDone(h)
    BY <2>2 DEF EmitDone
  <2>3. QED
    BY <2>1, <2>2
<1>2. UNCHANGED rows
  BY DEF SelectDraft, EmitDone
<1>3. at \in Places
  BY DEF Places
<1>4. QED
  BY <1>1, <1>2, <1>3, PlainMovesKeepAttempts

(* The steps of a send between its statements forget no attempt.           *)
LEMMA SendMovesKeepAttempts ==
  ASSUME TypeOK, AttemptsInv, NEW h \in Calls,
         \/ ReadForSend(h) \/ RecountAttempts(h) \/ SafetyChecked(h)
         \/ ProviderAccepts(h) \/ ProviderRefuses(h) \/ ProviderAnswerLost(h)
  PROVE  AttemptsInv' /\ AttemptsStep
<1> USE DEF TypeOK, CallsOK
<1>0. CallsOK'
  BY ReadForSendTypes, RecountAttemptsTypes, SafetyCheckedTypes,
     ProviderAcceptsTypes, ProviderFailsTypes
<1>1. UNCHANGED rows /\ ~ Scheduling(h)
  BY DEF ReadForSend, RecountAttempts, ProviderAccepts, ProviderRefuses,
         ProviderAnswerLost, SafetyChecked, AttemptsInv, SchedulingPlaces
<1>2. /\ \A g \in Calls \ {h} : call'[g] = call[g]
      /\ call'[h].op = call[h].op
      /\ call'[h].at \in {"next", "count", "fail", "mail", "mark", "recount"}
  <2>1. CASE ReadForSend(h)
    BY <2>1 DEF ReadForSend, Goes, Call
  <2>2. CASE RecountAttempts(h)
    BY <2>2 DEF RecountAttempts, Call
  <2>3. CASE SafetyChecked(h) \/ ProviderAccepts(h)
    BY <2>3 DEF SafetyChecked, ProviderAccepts, Goes, Fails, Call
  <2>4. CASE ProviderRefuses(h) \/ ProviderAnswerLost(h)
    BY <2>4 DEF ProviderRefuses, ProviderAnswerLost, Fails, Call
  <2>5. QED
    BY <2>1, <2>2, <2>3, <2>4
<1>3. call'[h] \in Call /\ call' = [call EXCEPT ![h] = call'[h]]
  BY <1>0, <1>2
<1>4. QED
  BY <1>1, <1>2, <1>3, MovesKeepAttempts DEF Scheduling

(* Time forgets no attempt.                                                *)
LEMMA DueKeepsAttempts ==
  ASSUME TypeOK, AttemptsInv, NEW d \in Drafts, BecomeDue(d) \/ ClaimExpires(d)
  PROVE  AttemptsInv' /\ AttemptsStep
<1>1. \A e \in Drafts :
        /\ msg'[e] \in {msg[e], Moved(msg[e], "due"), AsStale(msg[e])}
        /\ dirty'[e] \in {dirty[e], Moved(dirty[e], "due"), AsStale(dirty[e])}
        /\ msg[e] \in Row /\ dirty[e] \in Row
  BY DEF BecomeDue, ClaimExpires, TypeOK, RowsOK
<1>2. \A e \in Drafts : /\ msg'[e].send_attempts = msg[e].send_attempts
                        /\ dirty'[e].send_attempts = dirty[e].send_attempts
  BY <1>1, AttemptsOfOperations
<1>3. UNCHANGED <<lock, call>>
  BY DEF BecomeDue, ClaimExpires
<1>4. QED
  BY <1>2, <1>3, TimeKeepsAttempts

(* A rollback restores the committed attempts.                             *)
LEMMA VanishKeepsAttempts ==
  ASSUME TypeOK, AttemptsInv, NEW dead \in SUBSET Calls, Vanish(dead)
  PROVE  AttemptsInv' /\ AttemptsStep
<1> USE DEF TypeOK, AttemptsInv, Scheduling
<1>0. /\ \A h \in Calls : call'[h] = IF h \in dead THEN Idle ELSE call[h]
      /\ \A d \in Drafts : lock'[d] = IF lock[d] \in dead THEN NoCall ELSE lock[d]
      /\ \A d \in Drafts : lock'[d] # NoCall =>
           lock[d] \notin dead /\ lock[d] \in Calls /\ dirty'[d] = dirty[d]
      /\ UNCHANGED msg
  BY DEF Vanish, RowsOK
<1>1. LocksAreBusy'
  BY <1>0 DEF LocksAreBusy
<1>2. SchedulingPlaces'
  BY <1>0 DEF SchedulingPlaces, Idle
<1>3. AttemptsKept'
  BY <1>0 DEF AttemptsKept
<1>4. AttemptsStep
  BY <1>0 DEF AttemptsStep, RowsOK, Row
<1>5. QED
  BY <1>1, <1>2, <1>3, <1>4

(* The committed attempts of a row go down only when a scheduling approval *)
(* commits, and then to 0: no interleaving of sends, sweeps and reviewers  *)
(* loses an attempt, so the limit of attempts is a limit.                  *)
THEOREM AttemptsAreNeverLost == Spec => AttemptsNeverLost
<1>1. Init => AttemptsInv
  BY ConstantsAssumption DEF Init, AttemptsInv, LocksAreBusy, SchedulingPlaces,
     AttemptsKept, Scheduling, Idle
<1>2. TypeOK /\ AttemptsInv /\ [Next]_vars => AttemptsInv' /\ [AttemptsStep]_msg
  <2> SUFFICES ASSUME TypeOK, AttemptsInv, [Next]_vars
               PROVE  AttemptsInv' /\ [AttemptsStep]_msg
    OBVIOUS
  <2>1. CASE Next
    <3>1. AttemptsInv' /\ AttemptsStep
      BY <2>1, StepCases, RequestKeepsAttempts, TickKeepsAttempts,
         SweepKeepsAttempts, ClaimKeepsAttempts, UpdateDraftKeepsAttempts,
         SendStatementsKeepAttempts, DispatchKeepsAttempts,
         NextDraftKeepsAttempts, ReadsKeepAttempts, SendMovesKeepAttempts,
         DueKeepsAttempts, VanishKeepsAttempts
    <3>2. QED
      BY <3>1
  <2>2. CASE UNCHANGED vars
    BY <2>2 DEF vars, AttemptsInv, LocksAreBusy, SchedulingPlaces, AttemptsKept,
       Scheduling
  <2>3. QED
    BY <2>1, <2>2
<1>3. QED
  BY <1>1, <1>2, TypeCorrect, PTL DEF Spec, AttemptsNeverLost, AttemptsStep

=============================================================================
