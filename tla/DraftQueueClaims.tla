-------------------------- MODULE DraftQueueClaims --------------------------
(* Claims are exclusive, mail leaves once, and every scheduled row can be  *)
(* claimed, for any number of replicas, workers and rows, as long as no    *)
(* row is approved anew while a worker has it in hand and no claim         *)
(* outlives the claim timeout in live hands.                               *)
EXTENDS DraftQueueProofs

(* The regime of the theorems.  Reviewers may reject, delete, move and     *)
(* return drafts, in any interleaving.                                     *)
NoFreshApprovals == Prompt /\ "send" \notin Ops /\ "schedule" \notin Ops

(* Where the calls can be, and that the row in hand is one of their rows.  *)
PlaceOK(h) ==
  /\ call[h].at \in Rowless => call[h].todo = {}
  /\ call[h].at \notin Rowless => call[h].cur \in call[h].todo
  /\ h \in Workers => call[h].at \notin {"select", "update"}
  /\ h \in Reviewers =>
       /\ call[h].at \in {"idle", "select", "update", "emit", "next"}
       /\ call[h].op \notin {"send", "schedule"}

PlacesInv == \A h \in Calls : PlaceOK(h)

(* A version of a row that no sweep releases and no worker claims.         *)
Held(m) == m.status # "SCHEDULED" /\ m.claimed # "stale"

(* The worker has written the outcome of the row and not yet committed it. *)
LastWord(w, d) == lock[d] = w /\ call[w].at = "next" /\ call[w].cur = d

HeldInv ==
  \A w \in Workers : \A d \in call[w].todo :
    Held(msg[d]) /\ (Held(dirty[d]) \/ LastWord(w, d))

ClaimsInv == PlacesInv /\ ClaimsExclusive /\ HeldInv

-----------------------------------------------------------------------------
(* The writes of a send, and of reviewers, never put a row up for a claim. *)
LEMMA HeldOperations ==
  ASSUME NEW m \in Row
  PROVE  /\ \A n \in {Sent(m), Paused(m), Blocked(m), Claimed(m)} : Held(n)
         /\ Held(m) => \A n \in {Rejected(m), Deleted(m), Moved(m, "future"),
                                 Moved(m, "due"), Returned(m), Counted(m)} :
                         Held(n)
<1> USE DEF Held, Row
<1>1. \A n \in {Sent(m), Paused(m), Blocked(m), Claimed(m)} : Held(n)
  BY DEF Sent, Paused, Blocked, Claimed
<1>2. Held(m) => \A n \in {Rejected(m), Deleted(m), Moved(m, "future")} : Held(n)
  BY DEF Rejected, Deleted, Moved
<1>3. Held(m) => \A n \in {Moved(m, "due"), Returned(m), Counted(m)} : Held(n)
  BY DEF Moved, Returned, Counted
<1>4. QED
  BY <1>1, <1>2, <1>3

(* Calls stay where they can be: one lemma for the steps that change the   *)
(* place of one call, then step by step.                                   *)
LEMMA OnePlace ==
  ASSUME TypeOK, PlacesInv, NEW h \in Calls,
         \A g \in Calls \ {h} : call'[g] = call[g], PlaceOK(h)'
  PROVE  PlacesInv'
BY DEF PlacesInv, PlaceOK

(* A call that changes its place only.                                     *)
LEMMA GoesToPlace ==
  ASSUME TypeOK, PlacesInv, NEW h \in Calls, NEW at \in Places, Goes(h, at),
         call[h].at \in Rowless <=> at \in Rowless, at # "idle",
         h \in Workers => at \notin {"select", "update"},
         h \in Reviewers => at \in {"select", "update", "emit", "next"}
  PROVE  PlacesInv'
<1>1. /\ \A g \in Calls \ {h} : call'[g] = call[g]
      /\ call'[h].at = at /\ call'[h].op = call[h].op
      /\ call'[h].todo = call[h].todo /\ call'[h].cur = call[h].cur
  BY DEF TypeOK, CallsOK, Call, Goes
<1>2. PlaceOK(h)'
  BY <1>1 DEF PlacesInv, PlaceOK
<1>3. QED
  BY <1>1, <1>2, OnePlace

(* A request of a reviewer starts at a place reviewers can be.             *)
LEMMA RequestPlaces ==
  ASSUME TypeOK, PlacesInv, NoFreshApprovals, NEW h \in Reviewers, Request(h)
  PROVE  PlacesInv'
<1>1. PICK op \in Ops, D \in (SUBSET Drafts) \ {{}} :
        call' = [call EXCEPT ![h] = Begin(op, "select", D, First(D))]
  BY DEF Request
<1>2. First(D) \in D
  <2>1. D \in SUBSET Drafts /\ D # {}
    OBVIOUS
  <2>2. QED
    BY <2>1, FirstInSet
<1>3. /\ h \in Calls /\ h \notin Workers
      /\ \A g \in Calls \ {h} : call'[g] = call[g]
      /\ call'[h] = Begin(op, "select", D, First(D))
  BY <1>1, ConstantsAssumption DEF Calls, TypeOK, CallsOK
<1>4. /\ call'[h].at = "select" /\ call'[h].op = op
      /\ call'[h].todo = D /\ call'[h].cur = First(D)
  BY <1>3 DEF Begin, Idle
<1>5. PlaceOK(h)'
  BY <1>2, <1>3, <1>4 DEF PlaceOK, Rowless, NoFreshApprovals
<1>6. QED
  BY <1>3, <1>5, OnePlace

(* The next draft of a call is one of its drafts.                          *)
LEMMA NextDraftPlaces ==
  ASSUME TypeOK, PlacesInv, NEW h \in Calls, NextDraft(h)
  PROVE  PlacesInv'
<1> DEFINE rest == call[h].todo \ {call[h].cur}
           at == IF h \in Workers THEN "read" ELSE "select"
<1>0. /\ rest \in SUBSET Drafts
      /\ PlaceOK(h)
      /\ h \in Workers => h \notin Reviewers
  BY ConstantsAssumption DEF TypeOK, CallsOK, Call, PlacesInv
<1>1. CASE rest = {}
  <2>1. \A g \in Calls \ {h} : call'[g] = call[g]
    BY <1>1 DEF NextDraft, TypeOK, CallsOK
  <2>2. call'[h] = Idle
    BY <1>1 DEF NextDraft, TypeOK, CallsOK
  <2>3. PlaceOK(h)'
    BY <2>2 DEF PlaceOK, Idle, Rowless
  <2>4. QED
    BY <2>1, <2>3, OnePlace
<1>2. CASE rest # {}
  <2>1. PICK d \in Heads(h, rest) :
          call' = [call EXCEPT ![h] = Begin(call[h].op, at, rest, d)]
    BY <1>2 DEF NextDraft
  <2>2. d \in rest
    BY <1>0, <1>2, <2>1, FirstInSet DEF Heads
  <2>3. /\ \A g \in Calls \ {h} : call'[g] = call[g]
        /\ call'[h] = Begin(call[h].op, at, rest, d)
    BY <2>1 DEF TypeOK, CallsOK
  <2>4. /\ call'[h].at = at /\ call'[h].op = call[h].op
        /\ call'[h].todo = rest /\ call'[h].cur = d
    BY <2>3 DEF Begin, Idle
  <2>5. PlaceOK(h)'
    BY <1>0, <2>2, <2>4 DEF PlaceOK, Rowless, Calls
  <2>6. QED
    BY <2>3, <2>5, OnePlace
<1>3. QED
  BY <1>1, <1>2

(* The sweep and the claim leave a worker where workers can be.            *)
LEMMA SweepPlaces ==
  ASSUME TypeOK, PlacesInv, NEW h \in Workers,
         Tick(h) \/ PauseExhausted(h) \/ ReleaseExpired(h) \/ ClaimDue(h)
  PROVE  PlacesInv'
<1>0. h \in Calls /\ h \notin Reviewers /\ PlaceOK(h)
  BY ConstantsAssumption DEF Calls, PlacesInv
<1>1. CASE Tick(h)
  <2>1. /\ \A g \in Calls \ {h} : call'[g] = call[g]
        /\ call'[h].at = "sweep" /\ call'[h].todo = call[h].todo
    BY <1>0, <1>1 DEF Tick, TypeOK, CallsOK, Call
  <2>2. PlaceOK(h)'
    BY <1>0, <1>1, <2>1 DEF PlaceOK, Tick, Rowless
  <2>3. QED
    BY <1>0, <2>1, <2>2, OnePlace
<1>2. CASE PauseExhausted(h)
  BY <1>0, <1>2, GoesToPlace DEF PauseExhausted, Places, Rowless
<1>3. CASE ReleaseExpired(h)
  BY <1>0, <1>3, GoesToPlace DEF ReleaseExpired, Places, Rowless
<1>4. CASE ClaimDue(h)
  <2>1. PICK c : /\ call' = [call EXCEPT ![h] = c]
                 /\ \/ c = Idle
                    \/ \E S \in SUBSET Drafts : \E d \in S :
                         c = Begin("tick", "read", S, d)
    BY <1>4 DEF ClaimDue
  <2>2. /\ \A g \in Calls \ {h} : call'[g] = call[g]
        /\ call'[h] = c
    BY <1>0, <2>1 DEF TypeOK, CallsOK
  <2>3. CASE c = Idle
    BY <1>0, <2>2, <2>3, OnePlace DEF PlaceOK, Idle, Rowless
  <2>4. ASSUME NEW S \in SUBSET Drafts, NEW d \in S,
               c = Begin("tick", "read", S, d)
        PROVE  PlacesInv'
    <3>1. /\ call'[h].at = "read" /\ call'[h].todo = S /\ call'[h].cur = d
      BY <2>2, <2>4 DEF Begin, Idle
    <3>2. PlaceOK(h)'
      BY <1>0, <3>1 DEF PlaceOK, Rowless
    <3>3. QED
      BY <1>0, <2>2, <3>2, OnePlace
  <2>5. QED
    BY <2>1, <2>3, <2>4
<1>5. QED
  BY <1>1, <1>2, <1>3, <1>4

(* The steps of a reviewer operation leave calls where they can be.        *)
LEMMA MovePlaces ==
  ASSUME TypeOK, PlacesInv, NEW h \in Calls,
         \/ SelectDraft(h) \/ UpdateDraft(h) \/ EmitDone(h) \/ CountAttempt(h)
         \/ MarkSent(h) \/ RecordFailure(h)
  PROVE  PlacesInv'
<1>0. PlaceOK(h)
  BY DEF PlacesInv
<1>1. PICK at \in Places \ Rowless :
        /\ Goes(h, at)
        /\ h \in Workers => at \notin {"select", "update"}
        /\ h \in Reviewers => at \in {"select", "update", "emit", "next"}
  <2>1. CASE SelectDraft(h) \/ UpdateDraft(h) \/ EmitDone(h)
    BY <1>0, <2>1 DEF SelectDraft, UpdateDraft, EmitDone, PlaceOK, Places, Rowless
  <2>2. CASE CountAttempt(h)
    BY <1>0, <2>2 DEF CountAttempt, PlaceOK, Places, Rowless
  <2>3. CASE MarkSent(h) \/ RecordFailure(h)
    BY <1>0, <2>3 DEF MarkSent, RecordFailure, PlaceOK, Places, Rowless
  <2>4. QED
    BY <2>1, <2>2, <2>3
<1>2. call[h].at \notin Rowless
  BY DEF SelectDraft, UpdateDraft, EmitDone, CountAttempt, MarkSent,
         RecordFailure, Rowless
<1>3. QED
  BY <1>1, <1>2, GoesToPlace DEF Rowless

(* The steps of a send leave calls where they can be.                      *)
LEMMA SendPlaces ==
  ASSUME TypeOK, PlacesInv, NEW h \in Calls,
         \/ ReadForSend(h) \/ RecountAttempts(h) \/ Dispatch(h)
         \/ SafetyChecked(h) \/ ProviderAccepts(h) \/ ProviderRefuses(h)
         \/ ProviderAnswerLost(h)
  PROVE  /\ PlacesInv'
         /\ \A g \in Calls \ {h} : call'[g] = call[g]
         /\ call'[h].todo = call[h].todo
         /\ call[h].at # "next"
<1>0. PlaceOK(h) /\ h \notin Reviewers
  BY DEF PlacesInv, PlaceOK, ReadForSend, RecountAttempts, Dispatch,
         SafetyChecked, ProviderAccepts, ProviderRefuses, ProviderAnswerLost
<1>1. call[h].at \notin Rowless /\ call[h].at # "next"
  BY DEF ReadForSend, RecountAttempts, Dispatch, SafetyChecked,
         ProviderAccepts, ProviderRefuses, ProviderAnswerLost, Rowless
<1>2. /\ \A g \in Calls \ {h} : call'[g] = call[g]
      /\ call'[h].todo = call[h].todo /\ call'[h].cur = call[h].cur
      /\ call'[h].at \in {"next", "count", "fail", "check", "mail", "mark", "recount"}
  <2> USE DEF TypeOK, CallsOK
  <2>1. CASE ReadForSend(h)
    BY <2>1 DEF ReadForSend, Goes, Call
  <2>2. CASE RecountAttempts(h)
    BY <2>2 DEF RecountAttempts, Call
  <2>3. CASE Dispatch(h) \/ SafetyChecked(h) \/ ProviderAccepts(h)
    BY <2>3 DEF Dispatch, SafetyChecked, ProviderAccepts, Goes, Fails, Call
  <2>4. CASE ProviderRefuses(h) \/ ProviderAnswerLost(h)
    BY <2>4 DEF ProviderRefuses, ProviderAnswerLost, Fails, Call
  <2>5. QED
    BY <2>1, <2>2, <2>3, <2>4
<1>3. PlaceOK(h)'
  BY <1>0, <1>1, <1>2 DEF PlaceOK, Rowless
<1>4. QED
  BY <1>1, <1>2, <1>3, OnePlace

(* Vanished calls have no row in hand.                                     *)
LEMMA VanishPlaces ==
  ASSUME TypeOK, PlacesInv, NEW dead \in SUBSET Calls, Vanish(dead)
  PROVE  PlacesInv'
<1> SUFFICES ASSUME NEW h \in Calls PROVE PlaceOK(h)'
  BY DEF PlacesInv
<1>1. call'[h] = IF h \in dead THEN Idle ELSE call[h]
  BY DEF Vanish
<1>2. QED
  BY <1>1 DEF PlacesInv, PlaceOK, Idle, Rowless

-----------------------------------------------------------------------------
(* Steps that leave the rows, and what the workers have in hand, alone.    *)
LEMMA QuietSteps ==
  ASSUME TypeOK, ClaimsInv, UNCHANGED rows,
         \A w \in Workers : call'[w].todo = call[w].todo,
         \A w \in Workers : call[w].at = "next" => call'[w] = call[w]
  PROVE  ClaimsExclusive' /\ HeldInv'
<1>1. ClaimsExclusive'
  BY DEF ClaimsInv, ClaimsExclusive
<1>2. HeldInv'
  BY DEF ClaimsInv, HeldInv, LastWord, rows
<1>3. QED
  BY <1>1, <1>2

(* A statement of call h that writes row d: it keeps the row held, or it   *)
(* is the outcome that a worker writes.                                    *)
LEMMA WriteSteps ==
  ASSUME TypeOK, ClaimsInv, NEW h \in Calls, NEW d \in Drafts, NEW new,
         Update(h, d, new), NEW at \in Places, Goes(h, at),
         call[h].at # "next", d = call[h].cur, call[h].at \notin Rowless,
         \/ Held(dirty[d]) => Held(new)
         \/ h \in Workers /\ at = "next"
  PROVE  ClaimsExclusive' /\ HeldInv'
<1> USE DEF TypeOK, ClaimsInv
<1>1. /\ \A g \in Calls \ {h} : call'[g] = call[g]
      /\ call'[h].todo = call[h].todo /\ call'[h].cur = call[h].cur
      /\ call'[h].at = at
  BY DEF CallsOK, Call, Goes
<1>2. ClaimsExclusive'
  BY <1>1 DEF ClaimsExclusive, Calls
<1>3. HeldInv'
  <2> SUFFICES ASSUME NEW w \in Workers, NEW e \in call'[w].todo
               PROVE  Held(msg[e]) /\ (Held(dirty'[e]) \/ LastWord(w, e)')
    BY DEF HeldInv, Update
  <2>0. w \in Calls /\ e \in call[w].todo /\ e \in Drafts
    BY <1>1 DEF Calls, CallsOK, Call
  <2>1. Held(msg[e]) /\ (Held(dirty[e]) \/ LastWord(w, e))
    BY <2>0 DEF HeldInv
  <2>2. CASE dirty'[e] = dirty[e] /\ lock'[e] = lock[e]
    <3>1. LastWord(w, e) => LastWord(w, e)'
      BY <1>1, <2>0, <2>2 DEF LastWord
    <3>2. QED
      BY <2>1, <2>2, <3>1
  <2>3. CASE e = d /\ dirty'[d] = new /\ lock'[d] = h
    <3>1. ~ LastWord(w, d)
      BY <2>0, ConstantsAssumption DEF LastWord, Update
    <3>2. CASE Held(dirty[d]) => Held(new)
      BY <2>1, <2>3, <3>1, <3>2
    <3>3. CASE h \in Workers /\ at = "next"
      <4>1. d \in call[h].todo
        BY DEF PlacesInv, PlaceOK
      <4>2. w = h
        BY <2>0, <2>3, <3>3, <4>1 DEF ClaimsExclusive
      <4>3. QED
        BY <1>1, <2>1, <2>3, <3>3, <4>2 DEF LastWord
    <3>4. QED
      BY <3>2, <3>3
  <2>4. QED
    BY <2>0, <2>2, <2>3 DEF Update, RowsOK
<1>4. QED
  BY <1>2, <1>3

(* The end of a transaction of a call that keeps no row whose outcome it   *)
(* has written.                                                            *)
LEMMA CommitSteps ==
  ASSUME TypeOK, ClaimsInv, NEW h \in Calls, Commit(h),
         \A g \in Calls \ {h} : call'[g] = call[g],
         call'[h].todo \subseteq call[h].todo,
         \A d \in call'[h].todo : ~ (call[h].at = "next" /\ call[h].cur = d)
  PROVE  ClaimsExclusive' /\ HeldInv'
<1> USE DEF TypeOK, ClaimsInv
<1>1. ClaimsExclusive'
  BY DEF ClaimsExclusive, Calls
<1>2. HeldInv'
  <2> SUFFICES ASSUME NEW w \in Workers, NEW e \in call'[w].todo
               PROVE  Held(msg'[e]) /\ (Held(dirty'[e]) \/ LastWord(w, e)')
    BY DEF HeldInv
  <2>0. w \in Calls /\ e \in call[w].todo /\ e \in Drafts
    BY DEF Calls, CallsOK, Call
  <2>1. Held(msg[e]) /\ (Held(dirty[e]) \/ LastWord(w, e))
    BY <2>0 DEF HeldInv
  <2>2. /\ dirty'[e] = dirty[e]
        /\ msg'[e] = IF lock[e] = h THEN dirty[e] ELSE msg[e]
        /\ lock'[e] = IF lock[e] = h THEN NoCall ELSE lock[e]
    BY <2>0 DEF Commit, Unlock, View
  <2>3. CASE w = h
    BY <2>1, <2>2, <2>3 DEF LastWord
  <2>4. CASE w # h
    BY <2>0, <2>1, <2>2, <2>4 DEF LastWord
  <2>5. QED
    BY <2>3, <2>4
<1>3. QED
  BY <1>1, <1>2

(* What a call has in hand are drafts.                                     *)
LEMMA TodoOfCalls ==
  /\ Idle.todo = {}
  /\ \A op, at, todo, d : Begin(op, at, todo, d).todo = todo
BY DEF Idle, Begin

(* The next draft of a call is one of those it had.                        *)
LEMMA NextDraftTodo ==
  ASSUME TypeOK, NEW h \in Calls, NextDraft(h)
  PROVE  /\ \A g \in Calls \ {h} : call'[g] = call[g]
         /\ call'[h].todo = call[h].todo \ {call[h].cur}
<1> DEFINE rest == call[h].todo \ {call[h].cur}
<1>1. CASE rest = {}
  <2>1. call' = [call EXCEPT ![h] = Idle]
    BY <1>1 DEF NextDraft
  <2>2. QED
    BY <1>1, <2>1, TodoOfCalls DEF TypeOK, CallsOK
<1>2. CASE rest # {}
  <2> DEFINE at == IF h \in Workers THEN "read" ELSE "select"
  <2>1. PICK d : call' = [call EXCEPT ![h] = Begin(call[h].op, at, rest, d)]
    BY <1>2 DEF NextDraft
  <2> HIDE DEF at, rest
  <2>2. Begin(call[h].op, at, rest, d).todo = rest
    BY TodoOfCalls
  <2>3. call'[h].todo = rest /\ \A g \in Calls \ {h} : call'[g] = call[g]
    BY <2>1, <2>2 DEF TypeOK, CallsOK
  <2>4. QED
    BY <2>3 DEF rest
<1>3. QED
  BY <1>1, <1>2

(* A worker lets a row go when it commits the outcome.                     *)
LEMMA NextDraftSteps ==
  ASSUME TypeOK, ClaimsInv, NEW h \in Calls, NextDraft(h)
  PROVE  ClaimsExclusive' /\ HeldInv'
<1>1. /\ \A g \in Calls \ {h} : call'[g] = call[g]
      /\ call'[h].todo = call[h].todo \ {call[h].cur}
  BY NextDraftTodo
<1>2. CASE Commit(h)
  BY <1>1, <1>2, CommitSteps
<1>3. CASE ~ Commit(h)
  <2>1. UNCHANGED rows /\ h \notin Workers
    BY <1>3 DEF NextDraft
  <2>2. QED
    BY <1>1, <2>1, QuietSteps DEF Calls
<1>4. QED
  BY <1>2, <1>3

(* The commit before the provider call releases no claim.                  *)
LEMMA DispatchSteps ==
  ASSUME TypeOK, ClaimsInv, NEW h \in Calls, Dispatch(h)
  PROVE  ClaimsExclusive' /\ HeldInv'
<1>1. /\ \A g \in Calls \ {h} : call'[g] = call[g]
      /\ call'[h].todo = call[h].todo
      /\ call[h].at # "next"
  BY SendPlaces DEF ClaimsInv
<1>2. QED
  BY <1>1, CommitSteps DEF Dispatch

(* A claim takes rows that no other call writes, and ends the sweep.        *)
LEMMA ClaimTakes ==
  ASSUME TypeOK, NEW h \in Workers, ClaimDue(h)
  PROVE  \E S \in SUBSET Drafts :
           /\ \A d \in S : lock[d] \in {h, NoCall} /\ Claimable(View(h, d))
           /\ call'[h].todo = S
           /\ \A g \in Calls \ {h} : call'[g] = call[g]
           /\ \A d \in S : /\ msg'[d] = Claimed(View(h, d))
                           /\ dirty'[d] = Claimed(dirty[d])
                           /\ lock'[d] = NoCall
           /\ \A d \in Drafts \ S :
                /\ msg'[d] = View(h, d)
                /\ dirty'[d] = dirty[d]
                /\ lock'[d] = IF lock[d] = h THEN NoCall ELSE lock[d]
<1> USE DEF TypeOK
<1>0. h \in Calls
  BY DEF Calls
<1>1. PICK S \in SUBSET Drafts :
        /\ \A d \in S : lock[d] \in {h, NoCall} /\ Claimable(View(h, d))
        /\ msg' = [d \in Drafts |-> IF d \in S THEN Claimed(View(h, d))
                                    ELSE View(h, d)]
        /\ dirty' = [d \in Drafts |-> IF d \in S THEN Claimed(dirty[d])
                                      ELSE dirty[d]]
        /\ Unlock(h)
        /\ \/ S = {} /\ call' = [call EXCEPT ![h] = Idle]
           \/ \E d \in S : call' = [call EXCEPT ![h] = Begin("tick", "read", S, d)]
  BY DEF ClaimDue
<1>2. call'[h].todo = S /\ \A g \in Calls \ {h} : call'[g] = call[g]
  <2>1. CASE S = {} /\ call' = [call EXCEPT ![h] = Idle]
    BY <1>0, <2>1, TodoOfCalls DEF CallsOK
  <2>2. ASSUME NEW d \in S, call' = [call EXCEPT ![h] = Begin("tick", "read", S, d)]
        PROVE  call'[h].todo = S /\ \A g \in Calls \ {h} : call'[g] = call[g]
    <3>1. Begin("tick", "read", S, d).todo = S
      BY TodoOfCalls
    <3>2. QED
      BY <1>0, <2>2, <3>1 DEF CallsOK
  <2>3. QED
    BY <1>1, <2>1, <2>2
<1>3. \A d \in S : /\ msg'[d] = Claimed(View(h, d))
                   /\ dirty'[d] = Claimed(dirty[d])
                   /\ lock'[d] = NoCall
  BY <1>1 DEF Unlock
<1>4. \A d \in Drafts \ S :
        /\ msg'[d] = View(h, d)
        /\ dirty'[d] = dirty[d]
        /\ lock'[d] = IF lock[d] = h THEN NoCall ELSE lock[d]
  BY <1>1 DEF Unlock
<1>5. QED
  BY <1>1, <1>2, <1>3, <1>4

(* A claim takes only rows that no other worker has in hand.               *)
LEMMA ClaimSteps ==
  ASSUME TypeOK, ClaimsInv, NEW h \in Workers, ClaimDue(h)
  PROVE  ClaimsExclusive' /\ HeldInv'
<1> USE DEF TypeOK, ClaimsInv
<1>0. /\ h \in Calls /\ h # NoCall /\ call[h].todo = {}
      /\ call[h].at = "claim"
  BY ConstantsAssumption DEF Calls, ClaimDue, PlacesInv, PlaceOK, Rowless
<1>1. PICK S \in SUBSET Drafts :
        /\ \A d \in S : lock[d] \in {h, NoCall} /\ Claimable(View(h, d))
        /\ call'[h].todo = S
        /\ \A g \in Calls \ {h} : call'[g] = call[g]
        /\ \A d \in S : /\ msg'[d] = Claimed(View(h, d))
                        /\ dirty'[d] = Claimed(dirty[d])
        /\ \A d \in Drafts \ S :
             /\ msg'[d] = View(h, d)
             /\ dirty'[d] = dirty[d]
             /\ lock'[d] = IF lock[d] = h THEN NoCall ELSE lock[d]
  BY ClaimTakes
<1>2. call'[h].todo = S /\ \A g \in Calls \ {h} : call'[g] = call[g]
  BY <1>1
<1>3. ASSUME NEW w \in Workers \ {h}, NEW d \in call[w].todo
      PROVE  d \notin S
  <2>1. d \in Drafts /\ w \in Calls
    BY DEF CallsOK, Call, Calls
  <2>2. Held(msg[d]) /\ (Held(dirty[d]) \/ LastWord(w, d))
    BY DEF HeldInv
  <2>3. lock[d] \in {h, NoCall} => Held(View(h, d))
    BY <2>1, <2>2, ConstantsAssumption DEF LastWord, View
  <2>4. QED
    BY <1>1, <2>3 DEF Claimable, Held
<1>4. ClaimsExclusive'
  <2> SUFFICES ASSUME NEW v \in Workers, NEW w \in Workers, v # w
               PROVE  call'[v].todo \cap call'[w].todo = {}
    BY DEF ClaimsExclusive
  <2>1. v \in Calls /\ w \in Calls
    BY DEF Calls
  <2>2. CASE v = h
    BY <1>2, <1>3, <2>1, <2>2
  <2>3. CASE w = h
    BY <1>2, <1>3, <2>1, <2>3
  <2>4. CASE v # h /\ w # h
    BY <1>2, <2>1, <2>4 DEF ClaimsExclusive
  <2>5. QED
    BY <2>2, <2>3, <2>4
<1>5. HeldInv'
  <2> SUFFICES ASSUME NEW w \in Workers, NEW e \in call'[w].todo
               PROVE  Held(msg'[e]) /\ (Held(dirty'[e]) \/ LastWord(w, e)')
    BY DEF HeldInv
  <2>1. CASE w = h
    <3>1. e \in S /\ e \in Drafts
      BY <1>2, <2>1
    <3>2. View(h, e) \in Row /\ dirty[e] \in Row
      BY <1>0, <3>1, ViewIsRow DEF RowsOK
    <3>3. Held(Claimed(View(h, e))) /\ Held(Claimed(dirty[e]))
      BY <3>2, HeldOperations
    <3>4. QED
      BY <1>1, <3>1, <3>3
  <2>2. CASE w # h
    <3>1. w \in Calls /\ e \in call[w].todo /\ e \in Drafts /\ e \notin S
      BY <1>2, <1>3, <2>2 DEF Calls, CallsOK, Call
    <3>2. Held(msg[e]) /\ (Held(dirty[e]) \/ LastWord(w, e))
      BY <3>1 DEF HeldInv
    <3>3. msg'[e] = View(h, e) /\ dirty'[e] = dirty[e] /\ call'[w] = call[w]
      BY <1>1, <1>2, <2>2, <3>1
    <3>4. lock'[e] = IF lock[e] = h THEN NoCall ELSE lock[e]
      BY <1>1, <3>1
    <3>5. QED
      BY <2>2, <3>2, <3>3, <3>4 DEF View, LastWord
  <2>3. QED
    BY <2>1, <2>2
<1>6. QED
  BY <1>4, <1>5

(* The sweep pauses rows that others have in hand, and releases none.      *)
LEMMA SweepSteps ==
  ASSUME TypeOK, ClaimsInv, NEW h \in Workers,
         PauseExhausted(h) \/ ReleaseExpired(h)
  PROVE  ClaimsExclusive' /\ HeldInv'
<1> USE DEF TypeOK, ClaimsInv
<1>0. /\ h \in Calls /\ h # NoCall /\ call[h].todo = {}
      /\ call[h].at # "next"
  BY ConstantsAssumption DEF Calls, PauseExhausted, ReleaseExpired, PlacesInv,
     PlaceOK, Rowless
<1>1. /\ \A g \in Calls \ {h} : call'[g] = call[g]
      /\ call'[h].todo = {}
  BY <1>0 DEF PauseExhausted, ReleaseExpired, Goes, CallsOK, Call
<1>2. ClaimsExclusive'
  BY <1>0, <1>1 DEF ClaimsExclusive, Calls
<1>3. HeldInv'
  <2> SUFFICES ASSUME NEW w \in Workers, NEW e \in call'[w].todo
               PROVE  Held(msg'[e]) /\ (Held(dirty'[e]) \/ LastWord(w, e)')
    BY DEF HeldInv
  <2>0. w \in Calls /\ w # h /\ e \in call[w].todo /\ e \in Drafts
    BY <1>1 DEF Calls, CallsOK, Call
  <2>1. Held(msg[e]) /\ (Held(dirty[e]) \/ LastWord(w, e))
    BY <2>0 DEF HeldInv
  <2>2. \/ UNCHANGED <<msg[e], dirty[e], lock[e]>>
        \/ /\ lock[e] \in {h, NoCall} /\ lock'[e] = h /\ msg'[e] = msg[e]
           /\ \/ dirty'[e] = Paused(dirty[e])
              \/ Expired(View(h, e))
    <3>1. CASE PauseExhausted(h)
      <4> DEFINE D == {d \in Drafts : Exhausted(View(h, d))}
      <4> HIDE DEF D
      <4>1. UpdateAll(h, D, Paused)
        BY <3>1 DEF PauseExhausted, D
      <4>2. QED
        BY <2>0, <4>1 DEF UpdateAll, RowsOK
    <3>2. CASE ReleaseExpired(h)
      <4> DEFINE D == {d \in Drafts : Expired(View(h, d))}
      <4>1. e \in D => Expired(View(h, e))
        OBVIOUS
      <4>2. UpdateAll(h, D, Released)
        BY <3>2 DEF ReleaseExpired
      <4> HIDE DEF D
      <4>3. QED
        BY <2>0, <4>1, <4>2 DEF UpdateAll, RowsOK
    <3>3. QED
      BY <3>1, <3>2
  <2>3. CASE UNCHANGED <<msg[e], dirty[e], lock[e]>>
    BY <1>1, <2>0, <2>1, <2>3 DEF LastWord
  <2>4. CASE lock[e] \in {h, NoCall} /\ msg'[e] = msg[e] /\ dirty'[e] = Paused(dirty[e])
    <3>1. dirty[e] \in Row
      BY <2>0 DEF RowsOK
    <3>2. QED
      BY <2>1, <2>4, <3>1, HeldOperations
  <2>5. CASE lock[e] \in {h, NoCall} /\ Expired(View(h, e))
    <3>1. Held(View(h, e))
      BY <2>0, <2>1, <2>5, ConstantsAssumption DEF LastWord, View
    <3>2. QED
      BY <2>5, <3>1 DEF Expired, Held
  <2>6. QED
    BY <2>2, <2>3, <2>4, <2>5
<1>4. QED
  BY <1>2, <1>3

(* The write of a reviewer operation releases no claim.                    *)
LEMMA UpdateSteps ==
  ASSUME TypeOK, ClaimsInv, NEW h \in Calls, UpdateDraft(h)
  PROVE  ClaimsExclusive' /\ HeldInv'
<1> DEFINE d == call[h].cur
<1>1. /\ d \in Drafts /\ call[h].op \in ReviewerOps \ {"send"}
      /\ call[h].at = "update"
  BY DEF UpdateDraft, TypeOK, CallsOK, Rowless
<1>2. call[h].op # "schedule"
  BY <1>1 DEF ClaimsInv, PlacesInv, PlaceOK, Calls
<1>3. PICK new \in Outcomes(call[h].op, dirty[d]) : Update(h, d, new)
  BY DEF UpdateDraft
<1>4. new \in {Rejected(dirty[d]), Deleted(dirty[d]), Moved(dirty[d], "future"),
               Moved(dirty[d], "due"), Returned(dirty[d])}
  BY <1>1, <1>2, <1>3 DEF Outcomes, ReviewerOps
<1>5. dirty[d] \in Row
  BY <1>1 DEF TypeOK, RowsOK
<1>6. Held(dirty[d]) => Held(new)
  BY <1>4, <1>5, HeldOperations
<1>7. PICK at \in {"emit", "next"} : Goes(h, at)
  BY DEF UpdateDraft
<1>8. at \in Places /\ call[h].at \notin Rowless /\ call[h].at # "next"
  BY <1>1 DEF Places, Rowless
<1> HIDE DEF d
<1>9. d = call[h].cur
  BY DEF d
<1>10. QED
  BY <1>1, <1>3, <1>6, <1>7, <1>8, <1>9, WriteSteps

(* The statements of a send release no claim before the last one.          *)
LEMMA SendSteps ==
  ASSUME TypeOK, ClaimsInv, NEW h \in Calls,
         CountAttempt(h) \/ MarkSent(h) \/ RecordFailure(h)
  PROVE  ClaimsExclusive' /\ HeldInv'
<1> DEFINE d == call[h].cur
<1>1. /\ d \in Drafts
      /\ call[h].at \in {"count", "mark", "fail"}
      /\ h \in Workers
  BY DEF CountAttempt, MarkSent, RecordFailure, TypeOK, CallsOK, Rowless,
         ClaimsInv, PlacesInv, PlaceOK, Calls
<1>2. dirty[d] \in Row
  BY <1>1 DEF TypeOK, RowsOK
<1>3. call[h].at \notin Rowless /\ call[h].at # "next"
  BY <1>1 DEF Rowless
<1>4. PICK new \in {Counted(dirty[d]), Sent(dirty[d]), AfterFailure(dirty[d], call[h])},
           at \in {"commit", "emit", "next"} :
        /\ Update(h, d, new)
        /\ Goes(h, at)
        /\ new \in {Counted(dirty[d]), Sent(dirty[d])} \/ at = "next"
  <2>1. CASE CountAttempt(h)
    <3>1. Update(h, d, Counted(dirty[d])) /\ Goes(h, "commit")
      BY <2>1 DEF CountAttempt
    <3>2. QED
      BY <3>1
  <2>2. CASE MarkSent(h)
    <3>1. Update(h, d, Sent(dirty[d])) /\ (Goes(h, "emit") \/ Goes(h, "next"))
      BY <2>2 DEF MarkSent
    <3>2. QED
      BY <3>1
  <2>3. CASE RecordFailure(h)
    <3>1. Update(h, d, AfterFailure(dirty[d], call[h])) /\ Goes(h, "next")
      BY <2>3 DEF RecordFailure
    <3>2. QED
      BY <3>1
  <2>4. QED
    BY <2>1, <2>2, <2>3
<1>5. new \in {Counted(dirty[d]), Sent(dirty[d])} => (Held(dirty[d]) => Held(new))
  BY <1>2, HeldOperations
<1>6. at \in Places
  BY DEF Places
<1> HIDE DEF d
<1>7. d = call[h].cur
  BY DEF d
<1>8. QED
  BY <1>1, <1>3, <1>4, <1>5, <1>6, <1>7, WriteSteps

(* Time ends no claim that a worker has in hand.                           *)
LEMMA TimeSteps ==
  ASSUME TypeOK, ClaimsInv, NoFreshApprovals, NEW d \in Drafts,
         BecomeDue(d) \/ ClaimExpires(d)
  PROVE  ClaimsExclusive' /\ HeldInv'
<1> USE DEF TypeOK, ClaimsInv
<1>1. UNCHANGED <<call, lock>>
  BY DEF BecomeDue, ClaimExpires
<1>2. ClaimsExclusive'
  BY <1>1 DEF ClaimsExclusive
<1>3. HeldInv'
  <2> SUFFICES ASSUME NEW w \in Workers, NEW e \in call[w].todo
               PROVE  Held(msg'[e]) /\ (Held(dirty'[e]) \/ LastWord(w, e)')
    BY <1>1 DEF HeldInv
  <2>0. w \in Calls /\ e \in Drafts /\ msg[e] \in Row /\ dirty[e] \in Row
    BY DEF Calls, CallsOK, Call, RowsOK
  <2>1. Held(msg[e]) /\ (Held(dirty[e]) \/ LastWord(w, e))
    BY DEF HeldInv
  <2>2. LastWord(w, e) => LastWord(w, e)'
    BY <1>1 DEF LastWord
  <2>3. CASE BecomeDue(d)
    <3>1. /\ msg'[e] \in {msg[e], Moved(msg[e], "due")}
          /\ dirty'[e] \in {dirty[e], Moved(dirty[e], "due")}
      BY <2>0, <2>3 DEF BecomeDue, RowsOK
    <3>2. QED
      BY <2>0, <2>1, <2>2, <3>1, HeldOperations
  <2>4. CASE ClaimExpires(d)
    <3>1. e # d
      BY <2>0, <2>4 DEF ClaimExpires, NoFreshApprovals
    <3>2. msg'[e] = msg[e] /\ dirty'[e] = dirty[e]
      BY <2>0, <2>4, <3>1 DEF ClaimExpires, RowsOK
    <3>3. QED
      BY <2>1, <2>2, <3>2
  <2>5. QED
    BY <2>3, <2>4
<1>4. QED
  BY <1>2, <1>3

(* A rollback gives no row to a second worker.                             *)
LEMMA VanishSteps ==
  ASSUME TypeOK, ClaimsInv, NEW dead \in SUBSET Calls, Vanish(dead)
  PROVE  ClaimsExclusive' /\ HeldInv'
<1> USE DEF TypeOK, ClaimsInv
<1>1. \A h \in Calls : call'[h] = IF h \in dead THEN Idle ELSE call[h]
  BY DEF Vanish
<1>2. \A h \in Calls : call'[h].todo \subseteq call[h].todo
  BY <1>1, TodoOfCalls
<1>3. ClaimsExclusive'
  BY <1>2 DEF ClaimsExclusive, Calls
<1>4. HeldInv'
  <2> SUFFICES ASSUME NEW w \in Workers, NEW e \in call'[w].todo
               PROVE  Held(msg'[e]) /\ (Held(dirty'[e]) \/ LastWord(w, e)')
    BY DEF HeldInv
  <2>0. /\ w \in Calls /\ w \notin dead /\ call'[w] = call[w]
        /\ e \in call[w].todo /\ e \in Drafts
    BY <1>1, TodoOfCalls DEF Calls, CallsOK, Call
  <2>1. Held(msg[e]) /\ (Held(dirty[e]) \/ LastWord(w, e))
    BY <2>0 DEF HeldInv
  <2>2. /\ msg'[e] = msg[e]
        /\ dirty'[e] = IF lock[e] \in dead THEN msg[e] ELSE dirty[e]
        /\ lock'[e] = IF lock[e] \in dead THEN NoCall ELSE lock[e]
    BY <2>0 DEF Vanish
  <2>3. QED
    BY <2>0, <2>1, <2>2 DEF LastWord
<1>5. QED
  BY <1>3, <1>4

-----------------------------------------------------------------------------
(* Every step keeps the invariant.                                         *)
LEMMA ClaimsInvStep ==
  ASSUME TypeOK, ClaimsInv, NoFreshApprovals, [Next]_vars
  PROVE  ClaimsInv'
<1>0. PlacesInv
  BY DEF ClaimsInv
<1>1. ASSUME NEW h \in Reviewers, Request(h) PROVE ClaimsInv'
  <2>1. h \in Calls /\ \A w \in Workers : w \in Calls /\ w # h
    BY ConstantsAssumption DEF Calls
  <2>2. \A w \in Workers : call'[w] = call[w]
    BY <1>1, <2>1 DEF Request, TypeOK, CallsOK
  <2>3. UNCHANGED rows
    BY <1>1 DEF Request
  <2>4. QED
    BY <1>0, <1>1, <2>2, <2>3, QuietSteps, RequestPlaces DEF ClaimsInv
<1>2. ASSUME NEW h \in Workers, Tick(h) PROVE ClaimsInv'
  <2>1. UNCHANGED rows /\ \A w \in Workers : call'[w].todo = call[w].todo
    BY <1>2 DEF Tick, TypeOK, CallsOK, Call, Calls
  <2>2. \A w \in Workers : call[w].at = "next" => call'[w] = call[w]
    BY <1>2 DEF Tick, TypeOK, CallsOK, Calls
  <2>3. QED
    BY <1>0, <1>2, <2>1, <2>2, QuietSteps, SweepPlaces DEF ClaimsInv
<1>3. ASSUME NEW h \in Workers,
             PauseExhausted(h) \/ ReleaseExpired(h) \/ ClaimDue(h)
      PROVE ClaimsInv'
  BY <1>0, <1>3, SweepPlaces, SweepSteps, ClaimSteps DEF ClaimsInv
<1>4. ASSUME NEW h \in Calls, SelectDraft(h) \/ EmitDone(h)
      PROVE ClaimsInv'
  <2>1. PICK at \in Places : Goes(h, at)
    BY <1>4 DEF SelectDraft, EmitDone, Places
  <2>2. UNCHANGED rows /\ call[h].at # "next"
    BY <1>4 DEF SelectDraft, EmitDone
  <2>3. \A w \in Workers : call'[w].todo = call[w].todo
    BY <2>1 DEF Goes, TypeOK, CallsOK, Call, Calls
  <2>4. \A w \in Workers : call[w].at = "next" => call'[w] = call[w]
    BY <2>1, <2>2 DEF Goes, TypeOK, CallsOK, Calls
  <2>5. QED
    BY <1>0, <1>4, <2>2, <2>3, <2>4, QuietSteps, MovePlaces DEF ClaimsInv
<1>5. ASSUME NEW h \in Calls,
             \/ ReadForSend(h) \/ RecountAttempts(h) \/ SafetyChecked(h)
             \/ ProviderAccepts(h) \/ ProviderRefuses(h)
             \/ ProviderAnswerLost(h)
      PROVE ClaimsInv'
  <2>1. UNCHANGED rows
    BY <1>5 DEF ReadForSend, RecountAttempts, SafetyChecked, ProviderAccepts,
                ProviderRefuses, ProviderAnswerLost
  <2>2. /\ PlacesInv'
        /\ \A g \in Calls \ {h} : call'[g] = call[g]
        /\ call'[h].todo = call[h].todo
        /\ call[h].at # "next"
    BY <1>0, <1>5, SendPlaces
  <2>3. \A w \in Workers : /\ call'[w].todo = call[w].todo
                           /\ call[w].at = "next" => call'[w] = call[w]
    BY <2>2 DEF Calls
  <2>4. QED
    BY <2>1, <2>2, <2>3, QuietSteps DEF ClaimsInv
<1>6. ASSUME NEW h \in Calls,
             UpdateDraft(h) \/ CountAttempt(h) \/ MarkSent(h) \/ RecordFailure(h)
      PROVE ClaimsInv'
  BY <1>0, <1>6, MovePlaces, UpdateSteps, SendSteps DEF ClaimsInv
<1>7. ASSUME NEW h \in Calls, Dispatch(h) PROVE ClaimsInv'
  BY <1>0, <1>7, SendPlaces, DispatchSteps DEF ClaimsInv
<1>8. ASSUME NEW h \in Calls, NextDraft(h) PROVE ClaimsInv'
  BY <1>0, <1>8, NextDraftPlaces, NextDraftSteps DEF ClaimsInv
<1>9. ASSUME NEW d \in Drafts, BecomeDue(d) \/ ClaimExpires(d) PROVE ClaimsInv'
  <2>1. UNCHANGED call
    BY <1>9 DEF BecomeDue, ClaimExpires
  <2>2. PlacesInv'
    BY <1>0, <2>1 DEF PlacesInv, PlaceOK
  <2>3. QED
    BY <1>9, <2>2, TimeSteps DEF ClaimsInv
<1>10. ASSUME NEW dead \in SUBSET Calls, Vanish(dead) PROVE ClaimsInv'
  BY <1>0, <1>10, VanishPlaces, VanishSteps DEF ClaimsInv
<1>11. ASSUME UNCHANGED vars PROVE ClaimsInv'
  BY <1>11 DEF vars, ClaimsInv, PlacesInv, PlaceOK, ClaimsExclusive, HeldInv,
     LastWord
<1>12. ASSUME NEW h \in Calls,
              \/ SelectDraft(h) \/ UpdateDraft(h) \/ EmitDone(h)
              \/ ReadForSend(h) \/ CountAttempt(h) \/ Dispatch(h)
              \/ ProviderAccepts(h) \/ ProviderRefuses(h)
              \/ ProviderAnswerLost(h) \/ SafetyChecked(h)
              \/ MarkSent(h) \/ RecountAttempts(h)
              \/ RecordFailure(h) \/ NextDraft(h)
       PROVE ClaimsInv'
  BY <1>4, <1>5, <1>6, <1>7, <1>8, <1>12
<1>13. ASSUME Next PROVE ClaimsInv'
  BY <1>1, <1>2, <1>3, <1>9, <1>10, <1>12, <1>13, StepCases
<1>14. QED
  BY <1>11, <1>13

(* In the beginning nobody has a row in hand.                              *)
LEMMA ClaimsInvInit ==
  ASSUME Init
  PROVE  ClaimsInv
<1>1. \A h \in Calls : call[h] = Idle
  BY DEF Init
<1>2. PlacesInv
  BY <1>1 DEF PlacesInv, PlaceOK, Idle, Rowless
<1>3. \A w \in Workers : call[w].todo = {}
  BY <1>1, TodoOfCalls DEF Calls
<1>4. ClaimsExclusive /\ HeldInv
  BY <1>3 DEF ClaimsExclusive, HeldInv
<1>5. QED
  BY <1>2, <1>4 DEF ClaimsInv

(* No two workers ever have the same row in hand, whatever the number of   *)
(* replicas, crashes and lost answers, while reviewers reject, delete,     *)
(* move and return drafts: claims alone keep the schedulers apart.  Both   *)
(* conditions are needed: the run draft_senders shows what a fresh         *)
(* approval does.                                                          *)
THEOREM ClaimsStayExclusive ==
  ASSUME NoFreshApprovals
  PROVE  Spec => []ClaimsExclusive
<1>1. Init => ClaimsInv
  BY ClaimsInvInit
<1>2. TypeOK /\ ClaimsInv /\ [Next]_vars => ClaimsInv'
  BY ClaimsInvStep
<1>3. ClaimsInv => ClaimsExclusive
  BY DEF ClaimsInv
<1>4. QED
  BY <1>1, <1>2, <1>3, TypeCorrect, PTL DEF Spec

-----------------------------------------------------------------------------
(* One mail per row.  A version of a row that waits for no sender, ...     *)
Settled(m) == m.status \notin {"SCHEDULED", "SENDING"}

(* ... and a row that shows none other to any call than w, which writes it.*)
Shut(w, d) == Settled(dirty[d]) /\ (Settled(msg[d]) \/ lock[d] = w)

(* The worker has mailed the row in hand and keeps it until it is settled. *)
Ending(w, d) ==
  /\ call[w].cur = d
  /\ \/ call[w].at = "mark"
     \/ call[w].at \in {"emit", "next"} /\ Shut(w, d)

(* Nobody has the row in hand, and nobody will.                            *)
Over(d) == Shut(NoCall, d) /\ \A w \in Workers : d \notin call[w].todo

MailedOnce(d) ==
  \/ mails[d] <= faults
  \/ mails[d] <= 1 + faults /\ ((\E w \in Workers : Ending(w, d)) \/ Over(d))

OnceInv == \A d \in Drafts : MailedOnce(d)

(* Only a claim, a retry, a release and a scheduling put a row up again.   *)
LEMMA SettledOperations ==
  ASSUME NEW m \in Row
  PROVE  /\ Settled(Sent(m))
         /\ Settled(m) =>
              \A n \in {Rejected(m), Deleted(m), Moved(m, "future"),
                        Moved(m, "due"), Returned(m), AsStale(m)} : Settled(n)
<1> USE DEF Settled, Row
<1>1. Settled(Sent(m))
  BY DEF Sent
<1>2. Settled(m) => Settled(Rejected(m)) /\ Settled(Deleted(m)) /\ Settled(Returned(m))
  BY DEF Rejected, Deleted, Returned
<1>3. Settled(m) => /\ Settled(Moved(m, "future")) /\ Settled(Moved(m, "due"))
                    /\ Settled(AsStale(m))
  BY DEF Moved, AsStale
<1>4. QED
  BY <1>1, <1>2, <1>3

(* A statement of another call on a shut row has to settle it again.       *)
LEMMA WritesKeepShut ==
  ASSUME TypeOK, NEW h \in Calls, NEW e \in Drafts, NEW new, Update(h, e, new),
         NEW d \in Drafts, NEW w, w # h, Shut(w, d),
         e = d => (Settled(dirty[d]) => Settled(new))
  PROVE  Shut(w, d)'
<1>1. CASE UNCHANGED <<dirty[d], lock[d]>>
  BY <1>1 DEF Shut, Update
<1>2. CASE e = d /\ dirty'[d] = new /\ lock[d] \in {h, NoCall}
  <2>1. lock[d] = NoCall => msg[d] = dirty[d]
    BY DEF TypeOK, RowsOK
  <2>2. Settled(msg[d])
    BY <1>2, <2>1 DEF Shut
  <2>3. QED
    BY <1>2, <2>2 DEF Shut, Update
<1>3. QED
  BY <1>1, <1>2 DEF Update, TypeOK, RowsOK

(* A shut row shows a call that may write it a settled version.            *)
LEMMA ShutView ==
  ASSUME TypeOK, NEW h \in Calls, NEW d \in Drafts, NEW w, w # h, Shut(w, d),
         lock[d] \in {h, NoCall}
  PROVE  Settled(View(h, d))
BY DEF TypeOK, RowsOK, Shut, View

(* The end of another transaction leaves a shut row shut, the end of the   *)
(* transaction that shut it shows everyone that it is settled.             *)
LEMMA CommitsKeepShut ==
  ASSUME TypeOK, NEW h \in Calls, NEW d \in Drafts, NEW w, Shut(w, d),
         msg'[d] = View(h, d), dirty'[d] = dirty[d],
         lock'[d] = IF lock[d] = h THEN NoCall ELSE lock[d]
  PROVE  IF w = h THEN Shut(NoCall, d)' ELSE Shut(w, d)'
BY DEF Shut, View

(* The calls other than h stay as they are.                                *)
LEMMA OthersStay ==
  ASSUME TypeOK, NEW h \in Calls,
         \/ SelectDraft(h) \/ UpdateDraft(h) \/ EmitDone(h)
         \/ CountAttempt(h) \/ MarkSent(h) \/ RecordFailure(h)
         \/ Tick(h) \/ PauseExhausted(h) \/ ReleaseExpired(h)
  PROVE  /\ \A g \in Calls \ {h} : call'[g] = call[g]
         /\ call'[h].todo = call[h].todo
         /\ call'[h].cur = call[h].cur
<1> USE DEF TypeOK, CallsOK, Call, Goes
<1>1. CASE SelectDraft(h) \/ UpdateDraft(h) \/ EmitDone(h)
  BY <1>1 DEF SelectDraft, UpdateDraft, EmitDone
<1>2. CASE CountAttempt(h) \/ MarkSent(h) \/ RecordFailure(h)
  BY <1>2 DEF CountAttempt, MarkSent, RecordFailure
<1>3. CASE Tick(h) \/ PauseExhausted(h) \/ ReleaseExpired(h)
  BY <1>3 DEF Tick, PauseExhausted, ReleaseExpired
<1>4. QED
  BY <1>1, <1>2, <1>3

(* The sweep selects no shut row.                                          *)
LEMMA SweepsKeepShut ==
  ASSUME TypeOK, NEW h \in Calls, NEW d \in Drafts, NEW w, w # h, Shut(w, d),
         PauseExhausted(h) \/ ReleaseExpired(h)
  PROVE  Shut(w, d)'
<1> USE DEF TypeOK
<1>1. PICK D \in SUBSET Drafts :
        /\ d \in D => Exhausted(View(h, d)) \/ Expired(View(h, d))
        /\ UpdateAll(h, D, Paused) \/ UpdateAll(h, D, Released)
  <2>1. CASE PauseExhausted(h)
    BY <2>1 DEF PauseExhausted
  <2>2. CASE ReleaseExpired(h)
    BY <2>2 DEF ReleaseExpired
  <2>3. QED
    BY <2>1, <2>2
<1>2. d \in D => lock[d] \in {h, NoCall}
  BY <1>1 DEF UpdateAll
<1>3. d \notin D
  BY <1>1, <1>2, ShutView DEF Exhausted, Expired, Settled
<1>4. UNCHANGED <<msg[d], dirty[d], lock[d]>>
  BY <1>1, <1>3 DEF UpdateAll, RowsOK
<1>5. QED
  BY <1>4 DEF Shut

(* The write of a reviewer operation puts no settled row up again.         *)
LEMMA UpdateKeepsShut ==
  ASSUME TypeOK, PlacesInv, NEW h \in Calls, NEW d \in Drafts, NEW w, w # h,
         Shut(w, d), UpdateDraft(h)
  PROVE  Shut(w, d)'
<1> DEFINE e == call[h].cur
<1>1. /\ e \in Drafts /\ call[h].op \in ReviewerOps \ {"send"}
      /\ call[h].at = "update"
  BY DEF UpdateDraft, TypeOK, CallsOK, Rowless
<1>2. call[h].op # "schedule"
  BY <1>1 DEF PlacesInv, PlaceOK, Calls
<1>3. PICK new \in Outcomes(call[h].op, dirty[e]) : Update(h, e, new)
  BY DEF UpdateDraft
<1>4. new \in {Rejected(dirty[e]), Deleted(dirty[e]), Moved(dirty[e], "future"),
               Moved(dirty[e], "due"), Returned(dirty[e])}
  BY <1>1, <1>2, <1>3 DEF Outcomes, ReviewerOps
<1>5. dirty[e] \in Row
  BY <1>1 DEF TypeOK, RowsOK
<1>6. Settled(dirty[e]) => Settled(new)
  BY <1>4, <1>5, SettledOperations
<1> HIDE DEF e
<1>7. QED
  BY <1>1, <1>3, <1>6, WritesKeepShut

(* A row that is shut stays so in the steps of calls that do not have it in*)
(* hand as workers.                                                        *)
LEMMA OthersKeepShut ==
  ASSUME TypeOK, PlacesInv, NEW h \in Calls, NEW d \in Drafts, NEW w, w # h,
         Shut(w, d), h \in Workers => d \notin call[h].todo,
         \/ SelectDraft(h) \/ UpdateDraft(h) \/ EmitDone(h)
         \/ ReadForSend(h) \/ CountAttempt(h) \/ Dispatch(h)
         \/ ProviderAccepts(h) \/ ProviderRefuses(h) \/ SafetyChecked(h)
         \/ MarkSent(h) \/ RecountAttempts(h) \/ RecordFailure(h)
         \/ NextDraft(h)
  PROVE  Shut(w, d)'
<1>1. CASE UNCHANGED rows
  BY <1>1 DEF Shut, rows
<1>2. CASE UpdateDraft(h)
  BY <1>2, UpdateKeepsShut
<1>3. CASE CountAttempt(h) \/ MarkSent(h) \/ RecordFailure(h)
  <2>1. /\ call[h].cur \in Drafts
        /\ call[h].at \in {"count", "mark", "fail"}
    BY <1>3 DEF CountAttempt, MarkSent, RecordFailure, TypeOK, CallsOK, Rowless
  <2>2. h \in Workers /\ call[h].cur \in call[h].todo
    BY <2>1 DEF PlacesInv, PlaceOK, Calls, Rowless
  <2>3. \E new : Update(h, call[h].cur, new)
    BY <1>3 DEF CountAttempt, MarkSent, RecordFailure
  <2>4. QED
    BY <2>1, <2>2, <2>3, WritesKeepShut
<1>4. CASE Commit(h)
  <2>1. /\ msg'[d] = View(h, d) /\ dirty'[d] = dirty[d]
        /\ lock'[d] = IF lock[d] = h THEN NoCall ELSE lock[d]
    BY <1>4 DEF Commit, Unlock
  <2>2. QED
    BY <2>1, CommitsKeepShut
<1>5. \/ UNCHANGED rows \/ Commit(h) \/ UpdateDraft(h)
      \/ CountAttempt(h) \/ MarkSent(h) \/ RecordFailure(h)
  BY DEF SelectDraft, EmitDone, ReadForSend, Dispatch, ProviderAccepts,
     ProviderRefuses, SafetyChecked, RecountAttempts, NextDraft
<1>6. QED
  BY <1>1, <1>2, <1>3, <1>4, <1>5

(* How the rows in hand of a call change in its steps.                     *)
LEMMA TodoShrinks ==
  ASSUME TypeOK, PlacesInv, NEW h \in Calls,
         \/ SelectDraft(h) \/ UpdateDraft(h) \/ EmitDone(h)
         \/ ReadForSend(h) \/ CountAttempt(h) \/ Dispatch(h)
         \/ ProviderAccepts(h) \/ ProviderRefuses(h) \/ SafetyChecked(h)
         \/ MarkSent(h) \/ RecountAttempts(h) \/ RecordFailure(h)
         \/ NextDraft(h)
         \/ Tick(h) \/ PauseExhausted(h) \/ ReleaseExpired(h)
  PROVE  /\ \A g \in Calls \ {h} : call'[g] = call[g]
         /\ call'[h].todo \subseteq call[h].todo
BY OthersStay, SendPlaces, NextDraftTodo

(* What a worker has mailed it keeps, or it is over.                       *)
LEMMA EndingStays ==
  ASSUME TypeOK, ClaimsInv, NEW h \in Workers, NEW d \in Drafts, Ending(h, d),
         \/ MarkSent(h) \/ EmitDone(h) \/ NextDraft(h)
  PROVE  Ending(h, d)' \/ Over(d)'
<1> USE DEF TypeOK, ClaimsInv
<1>0. h \in Calls /\ call[h].cur = d
  BY DEF Calls, Ending
<1>1. CASE MarkSent(h)
  <2>1. call'[h].cur = d /\ call'[h].at \in {"emit", "next"}
    BY <1>0, <1>1 DEF MarkSent, Goes, CallsOK, Call
  <2>2. Update(h, d, Sent(dirty[d]))
    BY <1>0, <1>1 DEF MarkSent
  <2>3. dirty[d] \in Row /\ (lock[d] = NoCall => msg[d] = dirty[d])
    BY DEF RowsOK
  <2>4. Settled(Sent(dirty[d]))
    BY <2>3, SettledOperations
  <2>5. Shut(h, d)'
    BY <2>2, <2>3, <2>4 DEF Update, Shut, Settled, RowsOK
  <2>6. QED
    BY <2>1, <2>5 DEF Ending
<1>2. CASE EmitDone(h)
  <2>1. call'[h].cur = d /\ call'[h].at = "next"
    BY <1>0, <1>2 DEF EmitDone, Goes, CallsOK, Call
  <2>2. Shut(h, d)'
    BY <1>2 DEF EmitDone, Ending, Shut, rows
  <2>3. QED
    BY <2>1, <2>2 DEF Ending
<1>3. CASE NextDraft(h)
  <2>1. Shut(h, d) /\ Commit(h) /\ d \in call[h].todo
    BY <1>0, <1>3 DEF NextDraft, Ending, PlacesInv, PlaceOK, Rowless
  <2>2. Shut(NoCall, d)'
    <3>1. /\ msg'[d] = View(h, d) /\ dirty'[d] = dirty[d]
          /\ lock'[d] = IF lock[d] = h THEN NoCall ELSE lock[d]
      BY <2>1 DEF Commit, Unlock
    <3>2. QED
      BY <1>0, <2>1, <3>1, CommitsKeepShut
  <2>3. \A w \in Workers : d \notin call'[w].todo
    <3>1. /\ \A g \in Calls \ {h} : call'[g] = call[g]
          /\ call'[h].todo = call[h].todo \ {d}
      BY <1>0, <1>3, NextDraftTodo
    <3>2. \A w \in Workers \ {h} : d \notin call[w].todo
      BY <2>1 DEF ClaimsExclusive
    <3>3. QED
      BY <3>1, <3>2 DEF Calls
  <2>4. QED
    BY <2>2, <2>3 DEF Over
<1>4. QED
  BY <1>1, <1>2, <1>3

(* A claim takes no row that is shut.                                      *)
LEMMA ClaimsKeepShut ==
  ASSUME TypeOK, NEW h \in Workers, ClaimDue(h), NEW d \in Drafts, NEW w,
         w # h, Shut(w, d)
  PROVE  Shut(w, d)' /\ d \notin call'[h].todo
<1>0. h \in Calls
  BY DEF Calls
<1>1. PICK S \in SUBSET Drafts :
        /\ \A e \in S : lock[e] \in {h, NoCall} /\ Claimable(View(h, e))
        /\ call'[h].todo = S
        /\ \A e \in Drafts \ S :
             /\ msg'[e] = View(h, e)
             /\ dirty'[e] = dirty[e]
             /\ lock'[e] = IF lock[e] = h THEN NoCall ELSE lock[e]
  BY ClaimTakes
<1>2. d \notin S
  BY <1>0, <1>1, ShutView DEF Claimable, Settled
<1>3. QED
  BY <1>0, <1>1, <1>2, CommitsKeepShut

(* The steps of others leave a worker that has mailed a row alone.         *)
LEMMA OthersKeepEnding ==
  ASSUME TypeOK, ClaimsInv, NEW h \in Calls, NEW w \in Workers, w # h,
         NEW d \in Drafts, Ending(w, d),
         \/ SelectDraft(h) \/ UpdateDraft(h) \/ EmitDone(h)
         \/ ReadForSend(h) \/ CountAttempt(h) \/ Dispatch(h)
         \/ ProviderAccepts(h) \/ ProviderRefuses(h) \/ SafetyChecked(h)
         \/ MarkSent(h) \/ RecountAttempts(h) \/ RecordFailure(h)
         \/ NextDraft(h)
         \/ h \in Workers /\ (\/ Tick(h) \/ PauseExhausted(h)
                              \/ ReleaseExpired(h) \/ ClaimDue(h))
  PROVE  Ending(w, d)'
<1> USE DEF ClaimsInv
<1>0. w \in Calls
  BY DEF Calls
<1>1. call'[w] = call[w]
  <2>1. CASE h \in Workers /\ ClaimDue(h)
    BY <1>0, <2>1, ClaimTakes
  <2>2. CASE ~ (h \in Workers /\ ClaimDue(h))
    BY <1>0, <2>2, TodoShrinks
  <2>3. QED
    BY <2>1, <2>2
<1>2. d \in call[w].todo
  BY <1>0 DEF Ending, PlacesInv, PlaceOK, Rowless
<1>3. h \in Workers => d \notin call[h].todo
  BY <1>2 DEF ClaimsExclusive
<1>4. ASSUME Shut(w, d) PROVE Shut(w, d)'
  <2>1. CASE h \in Workers /\ ClaimDue(h)
    BY <1>4, <2>1, ClaimsKeepShut
  <2>2. CASE PauseExhausted(h) \/ ReleaseExpired(h)
    BY <1>4, <2>2, SweepsKeepShut
  <2>3. CASE Tick(h)
    BY <1>4, <2>3 DEF Tick, Shut, rows
  <2>4. CASE ~ \/ Tick(h) \/ PauseExhausted(h) \/ ReleaseExpired(h)
               \/ h \in Workers /\ ClaimDue(h)
    BY <1>3, <1>4, <2>4, OthersKeepShut
  <2>5. QED
    BY <2>1, <2>2, <2>3, <2>4
<1>5. QED
  BY <1>1, <1>4 DEF Ending

(* A row that is over stays so.                                            *)
LEMMA OverStays ==
  ASSUME TypeOK, ClaimsInv, NEW h \in Calls, NEW d \in Drafts, Over(d),
         \/ SelectDraft(h) \/ UpdateDraft(h) \/ EmitDone(h)
         \/ ReadForSend(h) \/ CountAttempt(h) \/ Dispatch(h)
         \/ ProviderAccepts(h) \/ ProviderRefuses(h) \/ SafetyChecked(h)
         \/ MarkSent(h) \/ RecountAttempts(h) \/ RecordFailure(h)
         \/ NextDraft(h)
         \/ h \in Workers /\ (\/ Tick(h) \/ PauseExhausted(h)
                              \/ ReleaseExpired(h) \/ ClaimDue(h))
  PROVE  Over(d)'
<1> USE DEF ClaimsInv
<1>0. /\ NoCall # h
      /\ Shut(NoCall, d)
      /\ \A w \in Workers : w \in Calls /\ d \notin call[w].todo
  BY ConstantsAssumption DEF Calls, Over
<1>1. CASE h \in Workers /\ ClaimDue(h)
  <2>1. Shut(NoCall, d)' /\ d \notin call'[h].todo
    BY <1>0, <1>1, ClaimsKeepShut
  <2>2. \A g \in Calls \ {h} : call'[g] = call[g]
    BY <1>1, ClaimTakes
  <2>3. QED
    BY <1>0, <2>1, <2>2 DEF Over
<1>2. CASE ~ (h \in Workers /\ ClaimDue(h))
  <2>1. /\ \A g \in Calls \ {h} : call'[g] = call[g]
        /\ call'[h].todo \subseteq call[h].todo
    BY <1>2, TodoShrinks
  <2>2. \A w \in Workers : d \notin call'[w].todo
    BY <1>0, <2>1
  <2>3. CASE PauseExhausted(h) \/ ReleaseExpired(h)
    BY <1>0, <2>2, <2>3, SweepsKeepShut DEF Over
  <2>4. CASE Tick(h)
    BY <1>0, <2>2, <2>4 DEF Tick, Shut, Over, rows
  <2>5. CASE ~ (Tick(h) \/ PauseExhausted(h) \/ ReleaseExpired(h))
    <3>1. Shut(NoCall, d)'
      BY <1>0, <1>2, <2>5, OthersKeepShut
    <3>2. QED
      BY <2>2, <3>1 DEF Over
  <2>6. QED
    BY <2>3, <2>4, <2>5
<1>3. QED
  BY <1>1, <1>2

(* A worker about to mail a row holds one whose mails failures account for.*)
LEMMA UnmailedAtMail ==
  ASSUME TypeOK, ClaimsInv, OnceInv, NEW h \in Calls, call[h].at = "mail",
         NEW d \in Drafts, call[h].cur = d
  PROVE  h \in Workers /\ mails[d] <= faults
<1> USE DEF TypeOK, ClaimsInv
<1>1. d \in call[h].todo /\ h \in Workers
  BY DEF PlacesInv, PlaceOK, Rowless, Calls
<1>2. ~ Over(d)
  BY <1>1 DEF Over
<1>3. ~ \E w \in Workers : Ending(w, d)
  <2> SUFFICES ASSUME NEW w \in Workers, Ending(w, d) PROVE FALSE
    OBVIOUS
  <2>1. w # h
    BY DEF Ending
  <2>2. d \in call[w].todo
    BY DEF Ending, PlacesInv, PlaceOK, Rowless, Calls
  <2>3. QED
    BY <1>1, <2>1, <2>2 DEF ClaimsExclusive
<1>4. QED
  BY <1>1, <1>2, <1>3 DEF OnceInv, MailedOnce

(* Its mail is the first one that no failure accounts for.                 *)
LEMMA FirstMail ==
  ASSUME TypeOK, ClaimsInv, OnceInv, NEW h \in Calls, ProviderAccepts(h),
         NEW d \in Drafts, call[h].cur = d
  PROVE  MailedOnce(d)'
<1>1. h \in Workers /\ mails[d] <= faults
  BY UnmailedAtMail DEF ProviderAccepts
<1>2. /\ call'[h].cur = d /\ call'[h].at = "mark"
      /\ mails'[d] = mails[d] + 1 /\ faults' = faults
  BY DEF ProviderAccepts, Goes, TypeOK, CallsOK, CountersOK, Call
<1>3. Ending(h, d)'
  BY <1>2 DEF Ending
<1>4. mails'[d] <= 1 + faults'
  BY <1>1, <1>2 DEF TypeOK, CountersOK
<1>5. QED
  BY <1>1, <1>3, <1>4 DEF MailedOnce

(* A step without a failure that hands nothing over keeps count of the     *)
(* mails of a row if a worker that mailed it stays with it, or it is over. *)
LEMMA SameCount ==
  ASSUME OnceInv, NEW d \in Drafts, mails'[d] = mails[d], faults' = faults,
         \A w \in Workers : Ending(w, d) => Ending(w, d)' \/ Over(d)',
         Over(d) => Over(d)'
  PROVE  MailedOnce(d)'
BY DEF OnceInv, MailedOnce

(* Every failure accounts for one mail more of every row.                  *)
LEMMA FailureAccounts ==
  ASSUME TypeOK, OnceInv, NEW d \in Drafts, faults' = faults + 1,
         \/ mails' = mails
         \/ \E e \in Drafts : mails' = [mails EXCEPT ![e] = @ + 1] /\ mails[e] <= faults
  PROVE  MailedOnce(d)'
<1>1. mails[d] \in Nat /\ faults \in Nat /\ mails[d] <= 1 + faults
  BY DEF TypeOK, CountersOK, OnceInv, MailedOnce
<1>2. mails'[d] <= faults'
  BY <1>1 DEF TypeOK, CountersOK
<1>3. QED
  BY <1>2 DEF MailedOnce

(* The steps of calls in which nothing fails.                              *)
LEMMA OnceInvOfCalls ==
  ASSUME TypeOK, ClaimsInv, OnceInv, NEW h \in Calls, NEW d \in Drafts,
         \/ SelectDraft(h) \/ UpdateDraft(h) \/ EmitDone(h)
         \/ ReadForSend(h) \/ CountAttempt(h) \/ Dispatch(h)
         \/ ProviderAccepts(h) /\ call[h].cur # d
         \/ ProviderRefuses(h) \/ SafetyChecked(h)
         \/ MarkSent(h) \/ RecountAttempts(h) \/ RecordFailure(h)
         \/ NextDraft(h)
         \/ h \in Workers /\ (\/ Tick(h) \/ PauseExhausted(h)
                              \/ ReleaseExpired(h) \/ ClaimDue(h))
  PROVE  MailedOnce(d)'
<1>1. mails'[d] = mails[d] /\ faults' = faults
  <2>1. CASE ProviderAccepts(h) /\ call[h].cur # d
    BY <2>1 DEF ProviderAccepts, TypeOK, CountersOK
  <2>2. CASE UNCHANGED counters
    BY <2>2 DEF counters
  <2>3. \/ ProviderAccepts(h) /\ call[h].cur # d
        \/ UNCHANGED counters
    BY DEF SelectDraft, UpdateDraft, EmitDone, ReadForSend, CountAttempt,
       Dispatch, ProviderRefuses, SafetyChecked, MarkSent, RecountAttempts,
       RecordFailure, NextDraft, Tick, PauseExhausted, ReleaseExpired, ClaimDue
  <2>4. QED
    BY <2>1, <2>2, <2>3
<1>2. Over(d) => Over(d)'
  BY OverStays
<1>3. ASSUME NEW w \in Workers, w # h, Ending(w, d) PROVE Ending(w, d)'
  BY <1>3, OthersKeepEnding
<1>4. ASSUME h \in Workers, Ending(h, d) PROVE Ending(h, d)' \/ Over(d)'
  <2>1. call[h].at \in {"mark", "emit", "next"}
    BY <1>4 DEF Ending
  <2>2. MarkSent(h) \/ EmitDone(h) \/ NextDraft(h)
    <3>1. ~ (\/ SelectDraft(h) \/ UpdateDraft(h) \/ ReadForSend(h)
             \/ CountAttempt(h) \/ Dispatch(h) \/ ProviderAccepts(h))
      BY <2>1 DEF SelectDraft, UpdateDraft, ReadForSend, CountAttempt, Dispatch,
                  ProviderAccepts
    <3>2. ~ (\/ ProviderRefuses(h) \/ SafetyChecked(h) \/ RecountAttempts(h)
             \/ RecordFailure(h) \/ Tick(h) \/ PauseExhausted(h)
             \/ ReleaseExpired(h) \/ ClaimDue(h))
      BY <2>1 DEF ProviderRefuses, SafetyChecked, RecountAttempts, RecordFailure,
                  Tick, PauseExhausted, ReleaseExpired, ClaimDue
    <3>3. QED
      BY <3>1, <3>2
  <2>3. QED
    BY <1>4, <2>2, EndingStays
<1>5. QED
  BY <1>1, <1>2, <1>3, <1>4, SameCount

(* A request touches no worker and no row.                                 *)
LEMMA RequestKeepsOnce ==
  ASSUME TypeOK, OnceInv, NEW h \in Reviewers, Request(h), NEW d \in Drafts
  PROVE  MailedOnce(d)'
<1>1. /\ UNCHANGED rows
      /\ mails' = mails /\ faults' = faults
  BY DEF Request
<1>2. \A w \in Workers : call'[w] = call[w]
  BY ConstantsAssumption DEF Request, TypeOK, CallsOK, Calls
<1>3. /\ \A w \in Workers : Ending(w, d) => Ending(w, d)'
      /\ Over(d) => Over(d)'
  BY <1>1, <1>2 DEF Ending, Over, Shut, rows
<1>4. QED
  BY <1>1, <1>3, SameCount

(* Time puts no settled row up again.                                      *)
LEMMA TimeKeepsOnce ==
  ASSUME TypeOK, OnceInv, NEW e \in Drafts, NEW d \in Drafts,
         BecomeDue(e) \/ ClaimExpires(e)
  PROVE  MailedOnce(d)'
<1>1. /\ UNCHANGED <<lock, call>>
      /\ mails' = mails /\ faults' = faults
  BY DEF BecomeDue, ClaimExpires, counters
<1>2. msg[d] \in Row /\ dirty[d] \in Row
  BY DEF TypeOK, RowsOK
<1>3. /\ msg'[d] \in {msg[d], Moved(msg[d], "due"), AsStale(msg[d])}
      /\ dirty'[d] \in {dirty[d], Moved(dirty[d], "due"), AsStale(dirty[d])}
  BY DEF BecomeDue, ClaimExpires, TypeOK, RowsOK
<1>4. \A w : Shut(w, d) => Shut(w, d)'
  BY <1>1, <1>2, <1>3, SettledOperations DEF Shut
<1>5. /\ \A w \in Workers : Ending(w, d) => Ending(w, d)'
      /\ Over(d) => Over(d)'
  BY <1>1, <1>4 DEF Ending, Over
<1>6. QED
  BY <1>1, <1>5, SameCount

(* Every step keeps the count.                                             *)
LEMMA OnceInvStep ==
  ASSUME TypeOK, ClaimsInv, OnceInv, [Next]_vars
  PROVE  OnceInv'
<1> SUFFICES ASSUME NEW d \in Drafts PROVE MailedOnce(d)'
  BY DEF OnceInv
<1>1. ASSUME NEW h \in Calls, ProviderAccepts(h) PROVE MailedOnce(d)'
  BY <1>1, FirstMail, OnceInvOfCalls
<1>2. ASSUME NEW h \in Calls, ProviderAnswerLost(h) PROVE MailedOnce(d)'
  <2>1. /\ call[h].cur \in Drafts
        /\ mails' = [mails EXCEPT ![call[h].cur] = @ + 1]
        /\ faults' = faults + 1
    BY <1>2 DEF ProviderAnswerLost, TypeOK, CallsOK, Rowless
  <2>2. mails[call[h].cur] <= faults
    BY <1>2, <2>1, UnmailedAtMail DEF ProviderAnswerLost
  <2>3. QED
    BY <2>1, <2>2, FailureAccounts
<1>3. ASSUME NEW dead \in SUBSET Calls, Vanish(dead) PROVE MailedOnce(d)'
  BY <1>3, FailureAccounts DEF Vanish
<1>4. ASSUME UNCHANGED vars PROVE MailedOnce(d)'
  BY <1>4 DEF vars, OnceInv, MailedOnce, Ending, Over, Shut
<1>5. ASSUME Next PROVE MailedOnce(d)'
  BY <1>1, <1>2, <1>3, <1>5, StepCases, OnceInvOfCalls, RequestKeepsOnce,
     TimeKeepsOnce DEF Calls
<1>6. QED
  BY <1>4, <1>5

(* However many replicas send, mail leaves twice only for a crash, an      *)
(* error or a lost answer, while reviewers reject, delete, move and return *)
(* drafts and no claim outlives the claim timeout in live hands.           *)
THEOREM ReplicasMailOnce ==
  ASSUME NoFreshApprovals
  PROVE  Spec => []DuplicateNeedsFault
<1>1. Init => ClaimsInv /\ OnceInv
  BY ClaimsInvInit DEF Init, OnceInv, MailedOnce
<1>2. TypeOK /\ ClaimsInv /\ OnceInv /\ [Next]_vars => ClaimsInv' /\ OnceInv'
  BY ClaimsInvStep, OnceInvStep
<1>3. TypeOK /\ OnceInv => DuplicateNeedsFault
  BY DEF TypeOK, CountersOK, OnceInv, MailedOnce, DuplicateNeedsFault
<1>4. QED
  BY <1>1, <1>2, <1>3, TypeCorrect, PTL DEF Spec

-----------------------------------------------------------------------------
(* Rows that wait can be claimed.  The regime: returns to review are left  *)
(* out too, since one that selected the row before a claim overwrites the  *)
(* claimed row, which a failing worker then puts up unapproved.            *)
NoReturns == NoFreshApprovals /\ "return" \notin Ops

(* A version that waits or is claimed is approved and has a time.          *)
Fit(m) ==
  /\ ~ Settled(m) => m.approved = 1 /\ m.scheduled # "none"
  /\ m.status = "SCHEDULED" => m.send_attempts < MaxAttempts

(* A version that others may pause, but only after the last attempt.       *)
Kept(m) == m.status = "SENDING" \/ m.send_attempts >= MaxAttempts

(* What is settled or deleted stays so in newer versions.                  *)
RowFits(d) ==
  /\ Fit(msg[d]) /\ Fit(dirty[d])
  /\ Settled(msg[d]) => Settled(dirty[d])
  /\ msg[d].status = "DELETED" => dirty[d].status = "DELETED"

(* Only the worker that counts an attempt, before it commits it, makes the *)
(* versions of a row differ in their attempts.                             *)
Counting(w, d) == call[w].at = "commit" /\ call[w].cur = d /\ lock[d] = w

OneCount(d) == \/ dirty[d].send_attempts = msg[d].send_attempts
               \/ \E w \in Workers : Counting(w, d)

(* The worker is about to let the row go.                                  *)
Leaving(w, d) == call[w].cur = d /\ call[w].at \in {"emit", "next"}

InHand(w, d) == Leaving(w, d) \/ (Kept(msg[d]) /\ Kept(dirty[d]))

Gone(w, d) == /\ dirty[d].status = "DELETED"
              /\ msg[d].status = "DELETED" \/ lock[d] = w

(* A worker that saw attempts left writes to a row that has them.          *)
SeenFits(w) ==
  (call[w].at = "fail" /\ call[w].seen < MaxAttempts) =>
    \/ Gone(w, call[w].cur)
    \/ /\ msg[call[w].cur].send_attempts < MaxAttempts
       /\ dirty[call[w].cur].send_attempts < MaxAttempts

(* A reviewer rejects and deletes rows that nobody waits for.              *)
Refuses(h) ==
  /\ call[h].op # "return"
  /\ (call[h].at = "update" /\ call[h].op # "move") => Shut(h, call[h].cur)

FitInv ==
  /\ \A d \in Drafts : RowFits(d) /\ OneCount(d)
  /\ \A w \in Workers : SeenFits(w) /\ \A d \in call[w].todo : InHand(w, d)
  /\ \A h \in Reviewers : Refuses(h)

-----------------------------------------------------------------------------
(* The operations on rows, one by one.                                     *)
LEMMA FitOperations ==
  ASSUME NEW m \in Row
  PROVE  /\ \A n \in {Sent(m), Paused(m), Blocked(m), Rejected(m), Deleted(m)} :
              Fit(n) /\ Settled(n) /\ n.send_attempts = m.send_attempts
         /\ \A n \in {Moved(m, "future"), Moved(m, "due"), AsStale(m)} :
              /\ Fit(m) => Fit(n)
              /\ n.status = m.status /\ n.send_attempts = m.send_attempts
<1> USE DEF Fit, Settled, Row, Statuses
<1>1. \A n \in {Sent(m), Paused(m), Blocked(m)} :
        Fit(n) /\ Settled(n) /\ n.send_attempts = m.send_attempts
  BY DEF Sent, Paused, Blocked
<1>2. \A n \in {Rejected(m), Deleted(m)} :
        Fit(n) /\ Settled(n) /\ n.send_attempts = m.send_attempts
  BY DEF Rejected, Deleted
<1>3. \A n \in {Moved(m, "future"), Moved(m, "due"), AsStale(m)} :
        /\ Fit(m) => Fit(n)
        /\ n.status = m.status /\ n.send_attempts = m.send_attempts
  BY DEF Moved, AsStale
<1>4. QED
  BY <1>1, <1>2, <1>3

(* The operations of workers that need a fit row.                          *)
LEMMA FitClaims ==
  ASSUME NEW m \in Row
  PROVE  /\ Claimable(m) => /\ Fit(Claimed(m)) /\ Kept(Claimed(m))
                            /\ Claimed(m).send_attempts = m.send_attempts
         /\ Fit(m) /\ Expired(m) =>
              Fit(Released(m)) /\ Released(m).send_attempts = m.send_attempts
         /\ Fit(m) /\ m.status = "SENDING" /\ m.send_attempts < MaxAttempts =>
              Fit(Retried(m)) /\ Retried(m).send_attempts = m.send_attempts
         /\ Kept(Counted(m)) \/ ~ Kept(m)
         /\ Fit(m) /\ Kept(m) => Fit(Counted(m))
         /\ Counted(m).status = m.status
<1> USE DEF Fit, Kept, Settled, Row, Statuses
<1>1. Claimable(m) => /\ Fit(Claimed(m)) /\ Kept(Claimed(m))
                      /\ Claimed(m).send_attempts = m.send_attempts
  BY DEF Claimable, Claimed
<1>2. Fit(m) /\ Expired(m) =>
        Fit(Released(m)) /\ Released(m).send_attempts = m.send_attempts
  BY DEF Expired, Released
<1>3. Fit(m) /\ m.status = "SENDING" /\ m.send_attempts < MaxAttempts =>
        Fit(Retried(m)) /\ Retried(m).send_attempts = m.send_attempts
  BY DEF Retried
<1>4. /\ Counted(m).status = m.status
      /\ Counted(m).approved = m.approved /\ Counted(m).scheduled = m.scheduled
      /\ Counted(m).send_attempts = m.send_attempts + 1
  BY DEF Counted
<1>5. Kept(Counted(m)) \/ ~ Kept(m)
  BY <1>4, ConstantsAssumption
<1>6. Fit(m) /\ Kept(m) => Fit(Counted(m))
  BY <1>4, ConstantsAssumption
<1>7. QED
  BY <1>1, <1>2, <1>3, <1>4, <1>5, <1>6

-----------------------------------------------------------------------------
(* What a step of call h may do to row d.  Fine is a write that keeps the  *)
(* row fit; rows in the hands of other workers change even less.           *)
Fine(m, n) == /\ Fit(n)
              /\ Settled(m) => Settled(n)
              /\ m.status = "DELETED" => n.status = "DELETED"

Busy(h, d) ==
  \E w \in Workers \ {h} : d \in call[w].todo /\ ~ Leaving(w, d)

Writes(h, d) ==
  /\ lock[d] \in {h, NoCall} /\ lock'[d] = h
  /\ msg'[d] = msg[d]
  /\ Fine(dirty[d], dirty'[d])
  /\ \/ dirty'[d].send_attempts = dirty[d].send_attempts
     \/ ~ Busy(h, d) /\ h \in Workers /\ Counting(h, d)'
  /\ Busy(h, d) => (Kept(dirty[d]) => Kept(dirty'[d]))

Commits(h, d) ==
  /\ msg'[d] = View(h, d)
  /\ dirty'[d] = dirty[d]
  /\ lock'[d] = IF lock[d] = h THEN NoCall ELSE lock[d]

Claims(h, d) ==
  /\ lock[d] \in {h, NoCall} /\ lock'[d] = NoCall
  /\ ~ Busy(h, d) /\ ~ Settled(dirty[d])
  /\ msg'[d] = dirty'[d] /\ Fit(dirty'[d]) /\ Kept(dirty'[d])
  /\ dirty'[d].status # "DELETED"

RowStep(h, d) ==
  UNCHANGED <<msg[d], dirty[d], lock[d]>> \/ Writes(h, d) \/ Commits(h, d) \/ Claims(h, d)

(* Rows stay fit.                                                          *)
LEMMA RowStepFits ==
  ASSUME TypeOK, NEW h \in Calls, NEW d \in Drafts, RowFits(d), RowStep(h, d)
  PROVE  RowFits(d)'
<1>1. CASE UNCHANGED <<msg[d], dirty[d], lock[d]>>
  BY <1>1 DEF RowFits
<1>2. CASE Writes(h, d)
  BY <1>2 DEF RowFits, Writes, Fine
<1>3. CASE Commits(h, d)
  BY <1>3 DEF RowFits, Commits, View
<1>4. CASE Claims(h, d)
  BY <1>4 DEF RowFits, Claims
<1>5. QED
  BY <1>1, <1>2, <1>3, <1>4 DEF RowStep

(* Attempts stay counted once.                                             *)
LEMMA RowStepCounts ==
  ASSUME TypeOK, NEW h \in Calls, NEW d \in Drafts, OneCount(d), RowStep(h, d),
         \A g \in Calls \ {h} : call'[g] = call[g],
         call[h].at = "commit" => Commits(h, d)
  PROVE  OneCount(d)'
<1> USE DEF OneCount
<1>0. h # NoCall /\ \A w \in Workers : w \in Calls /\ w # NoCall
  BY ConstantsAssumption DEF Calls
<1>1. CASE Commits(h, d)
  <2>1. CASE lock[d] = h
    BY <1>1, <2>1 DEF Commits, View
  <2>2. CASE lock[d] # h
    <3>1. \A w \in Workers : Counting(w, d) => Counting(w, d)'
      BY <1>0, <1>1, <2>2 DEF Commits, Counting
    <3>2. QED
      BY <1>1, <2>2, <3>1 DEF Commits, View
  <2>3. QED
    BY <2>1, <2>2
<1>2. CASE Claims(h, d)
  BY <1>2 DEF Claims
<1>3. CASE ~ Commits(h, d) /\ UNCHANGED <<msg[d], dirty[d], lock[d]>>
  <2>1. \A w \in Workers : Counting(w, d) => Counting(w, d)'
    BY <1>0, <1>3 DEF Counting
  <2>2. QED
    BY <1>3, <2>1
<1>4. CASE ~ Commits(h, d) /\ Writes(h, d)
  <2>1. \A w \in Workers : ~ Counting(w, d)
    BY <1>0, <1>4 DEF Counting, Writes
  <2>2. CASE dirty'[d].send_attempts = dirty[d].send_attempts
    BY <1>4, <2>1, <2>2 DEF Writes
  <2>3. CASE Counting(h, d)' /\ h \in Workers
    BY <2>3
  <2>4. QED
    BY <1>4, <2>2, <2>3 DEF Writes
<1>5. QED
  BY <1>1, <1>2, <1>3, <1>4 DEF RowStep

(* What others have shut stays shut.                                       *)
LEMMA RowStepShut ==
  ASSUME TypeOK, NEW h \in Calls, NEW d \in Drafts, RowFits(d), RowStep(h, d),
         NEW w \in Calls \ {h}, Shut(w, d)
  PROVE  Shut(w, d)'
<1>0. w # NoCall /\ h # NoCall /\ Settled(dirty[d])
  BY ConstantsAssumption DEF Shut
<1>1. CASE UNCHANGED <<msg[d], dirty[d], lock[d]>>
  BY <1>1 DEF Shut
<1>2. CASE Writes(h, d)
  BY <1>0, <1>2 DEF Shut, Writes, Fine
<1>3. CASE Commits(h, d)
  BY <1>3, CommitsKeepShut DEF Commits
<1>4. CASE Claims(h, d)
  BY <1>0, <1>4 DEF Claims
<1>5. QED
  BY <1>1, <1>2, <1>3, <1>4 DEF RowStep

(* What other workers have in hand stays as they need it.                  *)
LEMMA OthersKeepHands ==
  ASSUME TypeOK, NEW h \in Calls, NEW w \in Workers \ {h}, call'[w] = call[w],
         NEW d \in call[w].todo, RowStep(h, d), InHand(w, d)
  PROVE  InHand(w, d)'
<1>0. /\ w \in Calls /\ d \in Drafts
  BY DEF Calls, TypeOK, CallsOK, Call
<1>1. CASE Leaving(w, d)
  BY <1>1 DEF InHand, Leaving
<1>2. CASE ~ Leaving(w, d)
  <2>1. Busy(h, d) /\ Kept(msg[d]) /\ Kept(dirty[d])
    BY <1>2 DEF Busy, InHand
  <2>2. CASE UNCHANGED <<msg[d], dirty[d], lock[d]>>
    BY <2>1, <2>2 DEF InHand
  <2>3. CASE Writes(h, d)
    BY <2>1, <2>3 DEF InHand, Writes
  <2>4. CASE Commits(h, d)
    BY <2>1, <2>4 DEF InHand, Commits, View
  <2>5. CASE Claims(h, d)
    BY <2>1, <2>5 DEF Claims
  <2>6. QED
    BY <2>2, <2>3, <2>4, <2>5 DEF RowStep
<1>3. QED
  BY <1>1, <1>2

LEMMA OthersKeepSeen ==
  ASSUME TypeOK, PlacesInv, NEW h \in Calls, NEW w \in Workers \ {h},
         call'[w] = call[w], RowStep(h, call[w].cur), SeenFits(w),
         call[w].at = "fail" => RowFits(call[w].cur)
  PROVE  SeenFits(w)'
<1> SUFFICES ASSUME call[w].at = "fail", call[w].seen < MaxAttempts,
                    NEW d \in Drafts, d = call[w].cur
             PROVE  \/ Gone(w, d)'
                    \/ /\ msg'[d].send_attempts < MaxAttempts
                       /\ dirty'[d].send_attempts < MaxAttempts
  <2>1. call[w].at = "fail" => call[w].cur \in Drafts
    BY DEF TypeOK, CallsOK, Rowless, Calls
  <2>2. QED
    BY <2>1 DEF SeenFits, Gone
<1>0. /\ w \in Calls /\ w # NoCall /\ h # NoCall /\ RowFits(d) /\ RowStep(h, d)
      /\ lock[d] = NoCall => msg[d] = dirty[d]
  BY ConstantsAssumption DEF Calls, TypeOK, RowsOK
<1>1. d \in call[w].todo /\ ~ Leaving(w, d)
  BY <1>0 DEF PlacesInv, PlaceOK, Rowless, Leaving
<1>2. Busy(h, d)
  BY <1>1 DEF Busy
<1>3. \/ Gone(w, d)
      \/ msg[d].send_attempts < MaxAttempts /\ dirty[d].send_attempts < MaxAttempts
  BY DEF SeenFits
<1>4. CASE UNCHANGED <<msg[d], dirty[d], lock[d]>>
  BY <1>3, <1>4 DEF Gone
<1>5. CASE Writes(h, d)
  BY <1>0, <1>2, <1>3, <1>5 DEF Gone, Writes, Fine
<1>6. CASE Commits(h, d)
  BY <1>0, <1>3, <1>6 DEF Gone, Commits, View
<1>7. CASE Claims(h, d)
  BY <1>2, <1>7 DEF Claims
<1>8. QED
  BY <1>0, <1>4, <1>5, <1>6, <1>7 DEF RowStep

LEMMA OthersKeepRefusing ==
  ASSUME TypeOK, PlacesInv, NEW h \in Calls, NEW g \in Reviewers \ {h},
         call'[g] = call[g], Refuses(g),
         \A d \in Drafts : RowFits(d) /\ RowStep(h, d)
  PROVE  Refuses(g)'
<1>1. g \in Calls /\ (call[g].at = "update" => call[g].cur \in Drafts)
  BY DEF Calls, TypeOK, CallsOK, Rowless
<1>2. ASSUME call[g].at = "update", call[g].op # "move"
      PROVE  Shut(g, call[g].cur)'
  BY <1>1, <1>2, RowStepShut DEF Refuses
<1>3. QED
  <2>1. call'[g].at = call[g].at /\ call'[g].op = call[g].op /\ call'[g].cur = call[g].cur
    OBVIOUS
  <2>2. QED
    BY <1>2, <2>1 DEF Refuses, Shut

(* A step of a call keeps the invariant if it does to every row what it    *)
(* may, and to the call itself what it must.                               *)
LEMMA FitStep ==
  ASSUME TypeOK, PlacesInv, FitInv, NEW h \in Calls,
         \A g \in Calls \ {h} : call'[g] = call[g],
         \A d \in Drafts : RowStep(h, d),
         \A d \in Drafts : call[h].at = "commit" => Commits(h, d),
         h \in Workers => SeenFits(h)' /\ \A d \in call'[h].todo : InHand(h, d)',
         h \in Reviewers => Refuses(h)'
  PROVE  FitInv'
<1> USE DEF FitInv
<1>1. \A d \in Drafts : RowFits(d)' /\ OneCount(d)'
  BY RowStepFits, RowStepCounts
<1>2. ASSUME NEW w \in Workers, w # h
      PROVE  SeenFits(w)' /\ \A d \in call'[w].todo : InHand(w, d)'
  <2>1. w \in Calls /\ call'[w] = call[w] /\ call[w].todo \subseteq Drafts
    BY <1>2 DEF Calls, TypeOK, CallsOK, Call
  <2>2. \A d \in call[w].todo : InHand(w, d)'
    BY <1>2, <2>1, OthersKeepHands
  <2>3. SeenFits(w)'
    <3>1. CASE call[w].at = "fail"
      <4>1. call[w].cur \in Drafts
        BY <2>1, <3>1 DEF TypeOK, CallsOK, Rowless
      <4>2. QED
        BY <1>2, <2>1, <4>1, OthersKeepSeen
    <3>2. CASE call[w].at # "fail"
      BY <2>1, <3>2 DEF SeenFits
    <3>3. QED
      BY <3>1, <3>2
  <2>4. QED
    BY <2>1, <2>2, <2>3
<1>3. ASSUME NEW g \in Reviewers, g # h PROVE Refuses(g)'
  BY <1>3, OthersKeepRefusing DEF Calls
<1>4. QED
  BY <1>1, <1>2, <1>3

-----------------------------------------------------------------------------
(* Steps that leave the rows alone and put the call at a place where       *)
(* nothing new is asked of it.                                             *)
LEMMA FitQuiet ==
  ASSUME TypeOK, PlacesInv, FitInv, NEW h \in Calls, UNCHANGED rows,
         \A g \in Calls \ {h} : call'[g] = call[g],
         call'[h].todo = call[h].todo, call'[h].cur = call[h].cur,
         h \in Reviewers => call'[h].op = call[h].op,
         call[h].at \notin {"commit", "next"}, call'[h].at \notin {"fail", "update"},
         call[h].at = "emit" => call'[h].at = "next"
  PROVE  FitInv'
<1>1. \A d \in Drafts : RowStep(h, d)
  BY DEF RowStep, rows
<1>2. ASSUME h \in Workers
      PROVE  SeenFits(h)' /\ \A d \in call'[h].todo : InHand(h, d)'
  <2>1. \A d \in call[h].todo : InHand(h, d)
    BY <1>2 DEF FitInv
  <2>2. \A d \in call'[h].todo : InHand(h, d)'
    BY <2>1 DEF InHand, Leaving, rows
  <2>3. QED
    BY <2>2 DEF SeenFits
<1>3. h \in Reviewers => Refuses(h)'
  BY DEF FitInv, Refuses
<1>4. QED
  BY <1>1, <1>2, <1>3, FitStep

LEMMA FitMoves ==
  ASSUME TypeOK, ClaimsInv, FitInv, NEW h \in Calls,
         \/ EmitDone(h) \/ ReadForSend(h) \/ SafetyChecked(h)
         \/ ProviderAccepts(h) \/ ProviderRefuses(h) \/ ProviderAnswerLost(h)
         \/ h \in Workers /\ Tick(h)
  PROVE  FitInv'
<1> USE DEF ClaimsInv
<1>1. UNCHANGED rows /\ call[h].at \notin {"commit", "next"}
  BY DEF EmitDone, ReadForSend, SafetyChecked, ProviderAccepts, ProviderRefuses,
         ProviderAnswerLost, Tick
<1>2. /\ \A g \in Calls \ {h} : call'[g] = call[g]
      /\ call'[h].todo = call[h].todo /\ call'[h].cur = call[h].cur
      /\ h \in Reviewers => call'[h].op = call[h].op
      /\ call'[h].at \notin {"fail", "update"}
      /\ call[h].at = "emit" => call'[h].at = "next"
  <2> USE DEF TypeOK, CallsOK
  <2>1. CASE EmitDone(h) \/ ProviderAccepts(h)
    BY <2>1 DEF EmitDone, ProviderAccepts, Goes, Call
  <2>2. CASE ReadForSend(h)
    BY <2>2 DEF ReadForSend, Goes, Call
  <2>3. CASE SafetyChecked(h)
    BY <2>3 DEF SafetyChecked, Goes, Fails, Call
  <2>4. CASE ProviderRefuses(h) \/ ProviderAnswerLost(h)
    BY <2>4 DEF ProviderRefuses, ProviderAnswerLost, Fails, Call
  <2>5. CASE h \in Workers /\ Tick(h)
    BY <2>5, ConstantsAssumption DEF Tick, Call
  <2>6. QED
    BY <2>1, <2>2, <2>3, <2>4, <2>5
<1>3. QED
  BY <1>1, <1>2, FitQuiet

(* A reviewer that found a row in review, or failed, has it shut.          *)
LEMMA FitSelect ==
  ASSUME TypeOK, ClaimsInv, FitInv, NEW h \in Calls, SelectDraft(h)
  PROVE  FitInv'
<1> USE DEF ClaimsInv
<1>1. /\ \A g \in Calls \ {h} : call'[g] = call[g]
      /\ call'[h].todo = call[h].todo /\ call'[h].cur = call[h].cur
      /\ call'[h].op = call[h].op
  BY OthersStay DEF SelectDraft, Goes, TypeOK, CallsOK, Call
<1>2. UNCHANGED rows /\ call[h].at = "select" /\ call[h].cur \in Drafts
  BY DEF SelectDraft, TypeOK, CallsOK, Rowless
<1>3. h \in Reviewers /\ h \notin Workers
  BY <1>2 DEF PlacesInv, PlaceOK, Calls
<1>4. Refuses(h)'
  <2>1. ASSUME call'[h].at = "update", call[h].op # "move"
        PROVE  Shut(h, call[h].cur)
    <3>1. Accepts(call[h].op, View(h, call[h].cur))
      BY <2>1 DEF SelectDraft, Goes, TypeOK, CallsOK, Call
    <3>2. Settled(View(h, call[h].cur))
      BY <1>3, <2>1, <3>1 DEF Accepts, Settled, FitInv, Refuses
    <3>3. RowFits(call[h].cur)
      BY <1>2 DEF FitInv
    <3>4. QED
      BY <3>2, <3>3 DEF RowFits, View, Shut
  <2>2. QED
    BY <1>1, <1>2, <1>3, <2>1 DEF FitInv, Refuses, Shut, rows
<1>5. \A d \in Drafts : RowStep(h, d)
  BY <1>2 DEF RowStep, rows
<1>6. QED
  BY <1>1, <1>2, <1>3, <1>4, <1>5, FitStep

(* A worker that sees attempts left sees those of the row in hand.         *)
LEMMA FitRecount ==
  ASSUME TypeOK, ClaimsInv, FitInv, NEW h \in Calls, RecountAttempts(h)
  PROVE  FitInv'
<1> USE DEF ClaimsInv
<1>1. /\ UNCHANGED rows /\ call[h].at = "recount" /\ call[h].cur \in Drafts
      /\ h \in Workers /\ h \notin Reviewers
      /\ call[h].cur \in call[h].todo
  BY ConstantsAssumption
     DEF RecountAttempts, TypeOK, CallsOK, Rowless, PlacesInv, PlaceOK, Calls
<1>2. PICK d \in Drafts : d = call[h].cur
  BY <1>1
<1>3. /\ \A g \in Calls \ {h} : call'[g] = call[g]
      /\ call'[h].todo = call[h].todo /\ call'[h].cur = d
      /\ call'[h].at = "fail"
      /\ call'[h].seen = IF View(h, d).status = "DELETED" THEN 0
                         ELSE View(h, d).send_attempts
  BY <1>2 DEF RecountAttempts, TypeOK, CallsOK, Call
<1>4. dirty[d].send_attempts = msg[d].send_attempts
  <2>1. \A w \in Workers : ~ Counting(w, d)
    <3> SUFFICES ASSUME NEW w \in Workers, Counting(w, d) PROVE FALSE
      OBVIOUS
    <3>1. w # h /\ d \in call[w].todo
      BY <1>1 DEF Counting, PlacesInv, PlaceOK, Rowless, Calls
    <3>2. QED
      BY <1>1, <1>2, <3>1 DEF ClaimsExclusive
  <2>2. QED
    BY <2>1 DEF FitInv, OneCount
<1>5. SeenFits(h)'
  <2>1. CASE View(h, d).status = "DELETED"
    <3>1. Gone(h, d)
      BY <2>1 DEF View, Gone, FitInv, RowFits
    <3>2. QED
      BY <1>1, <1>3, <3>1 DEF SeenFits, Gone, rows
  <2>2. CASE View(h, d).status # "DELETED"
    <3>1. /\ call'[h].seen = msg[d].send_attempts
          /\ call'[h].seen = dirty[d].send_attempts
      BY <1>3, <1>4, <2>2 DEF View
    <3>2. QED
      BY <1>1, <1>3, <3>1 DEF SeenFits, rows
  <2>3. QED
    BY <2>1, <2>2
<1>6. \A e \in call'[h].todo : InHand(h, e)'
  <2>1. \A e \in call[h].todo : Kept(msg[e]) /\ Kept(dirty[e])
    BY <1>1 DEF FitInv, InHand, Leaving
  <2>2. QED
    BY <1>1, <1>3, <2>1 DEF InHand, rows
<1>7. \A e \in Drafts : RowStep(h, e)
  BY <1>1 DEF RowStep, rows
<1>8. QED
  BY <1>1, <1>3, <1>5, <1>6, <1>7, FitStep

(* The end of a transaction of a call.                                     *)
LEMMA FitDispatch ==
  ASSUME TypeOK, ClaimsInv, FitInv, NEW h \in Calls, Dispatch(h)
  PROVE  FitInv'
<1> USE DEF ClaimsInv
<1>1. /\ call[h].at = "commit" /\ Commit(h)
      /\ h \in Workers /\ h \notin Reviewers
  BY ConstantsAssumption DEF Dispatch, PlacesInv, PlaceOK, Calls
<1>2. /\ \A g \in Calls \ {h} : call'[g] = call[g]
      /\ call'[h].todo = call[h].todo
  BY SendPlaces
<1>3. call'[h].at \in {"check", "recount"}
  BY DEF Dispatch, Goes, Fails, TypeOK, CallsOK, Call
<1>4. \A d \in Drafts : Commits(h, d)
  BY <1>1 DEF Commit, Unlock, Commits
<1>5. \A d \in call'[h].todo : InHand(h, d)'
  <2>1. \A d \in call[h].todo : d \in Drafts /\ Kept(msg[d]) /\ Kept(dirty[d])
    BY <1>1 DEF FitInv, InHand, Leaving, TypeOK, CallsOK, Call
  <2>2. QED
    BY <1>2, <1>4, <2>1 DEF InHand, Commits, View
<1>6. QED
  BY <1>1, <1>2, <1>3, <1>4, <1>5, FitStep DEF RowStep, SeenFits

(* The next draft of a call: a worker has let the last one go.             *)
LEMMA FitNextDraft ==
  ASSUME TypeOK, ClaimsInv, FitInv, NEW h \in Calls, NextDraft(h)
  PROVE  FitInv'
<1> USE DEF ClaimsInv
<1>1. /\ \A g \in Calls \ {h} : call'[g] = call[g]
      /\ call'[h].todo = call[h].todo \ {call[h].cur}
  BY NextDraftTodo
<1>2. /\ call'[h].at \in {"idle", "read", "select"}
      /\ call'[h].op \in {call[h].op, "none"}
  <2> DEFINE rest == call[h].todo \ {call[h].cur}
  <2>1. CASE rest = {}
    <3>1. call'[h] = Idle
      BY <2>1 DEF NextDraft, TypeOK, CallsOK
    <3>2. QED
      BY <3>1 DEF Idle
  <2>2. CASE rest # {}
    <3> DEFINE at == IF h \in Workers THEN "read" ELSE "select"
    <3>1. PICK d : call' = [call EXCEPT ![h] = Begin(call[h].op, at, rest, d)]
      BY <2>2 DEF NextDraft
    <3> HIDE DEF rest
    <3>2. call'[h] = Begin(call[h].op, at, rest, d)
      BY <3>1 DEF TypeOK, CallsOK
    <3>3. call'[h].at = at /\ call'[h].op = call[h].op
      BY <3>2 DEF Begin, Idle
    <3>4. QED
      BY <3>3
  <2>3. QED
    BY <2>1, <2>2
<1>3. /\ call[h].at = "next" /\ call[h].cur \in Drafts
      /\ Commit(h) \/ (UNCHANGED rows /\ h \notin Workers)
  BY DEF NextDraft, TypeOK, CallsOK, Rowless
<1>4. \A d \in Drafts : /\ RowStep(h, d)
                        /\ h \in Workers => Commits(h, d)
  BY <1>3 DEF Commit, Unlock, Commits, RowStep, rows
<1>5. ASSUME h \in Workers
      PROVE  SeenFits(h)' /\ \A d \in call'[h].todo : InHand(h, d)'
  <2>1. \A d \in call'[h].todo : d \in Drafts /\ Kept(msg[d]) /\ Kept(dirty[d])
    BY <1>1, <1>5 DEF FitInv, InHand, Leaving, TypeOK, CallsOK, Call
  <2>2. QED
    BY <1>2, <1>4, <1>5, <2>1 DEF InHand, Commits, View, SeenFits
<1>6. h \in Reviewers => Refuses(h)'
  BY <1>2 DEF FitInv, Refuses
<1>7. QED
  BY <1>1, <1>3, <1>4, <1>5, <1>6, FitStep

(* A request returns no row to review.                                     *)
LEMMA FitRequest ==
  ASSUME TypeOK, ClaimsInv, FitInv, NoReturns, NEW h \in Reviewers, Request(h)
  PROVE  FitInv'
<1>1. PICK op \in Ops, D \in (SUBSET Drafts) \ {{}} :
        call' = [call EXCEPT ![h] = Begin(op, "select", D, First(D))]
  BY DEF Request
<1>2. /\ h \in Calls /\ h \notin Workers
      /\ \A g \in Calls \ {h} : call'[g] = call[g]
      /\ call'[h] = Begin(op, "select", D, First(D))
  BY <1>1, ConstantsAssumption DEF Calls, TypeOK, CallsOK
<1>3. call'[h].at = "select" /\ call'[h].op = op
  BY <1>2 DEF Begin, Idle
<1>4. UNCHANGED rows /\ call[h].at = "idle"
  BY DEF Request
<1>5. Refuses(h)'
  BY <1>3 DEF Refuses, NoReturns
<1>6. \A d \in Drafts : RowStep(h, d)
  BY <1>4 DEF RowStep, rows
<1>7. QED
  BY <1>2, <1>4, <1>5, <1>6, FitStep DEF ClaimsInv

(* A statement that writes the row in hand.                                *)
LEMMA WriteRowSteps ==
  ASSUME TypeOK, NEW h \in Calls, NEW e \in Drafts, NEW new, Update(h, e, new),
         dirty[e].status # "DELETED" =>
           /\ Fine(dirty[e], new)
           /\ \/ new.send_attempts = dirty[e].send_attempts
              \/ /\ ~ Busy(h, e) /\ h \in Workers
                 /\ call'[h].at = "commit" /\ call'[h].cur = e
           /\ Busy(h, e) => (Kept(dirty[e]) => Kept(new))
  PROVE  \A d \in Drafts : RowStep(h, d)
<1> SUFFICES ASSUME NEW d \in Drafts PROVE RowStep(h, d)
  OBVIOUS
<1>1. CASE UNCHANGED <<msg[d], dirty[d], lock[d]>>
  BY <1>1 DEF RowStep
<1>2. CASE e = d /\ dirty[e].status # "DELETED"
  <2>1. /\ lock[d] \in {h, NoCall} /\ lock'[d] = h
        /\ msg'[d] = msg[d] /\ dirty'[d] = new
    BY <1>2 DEF Update, TypeOK, RowsOK
  <2>2. Writes(h, d)
    BY <1>2, <2>1 DEF Writes, Counting
  <2>3. QED
    BY <2>2 DEF RowStep
<1>3. QED
  BY <1>1, <1>2 DEF Update, TypeOK, RowsOK

(* Reviewers reject and delete settled rows and move those that wait.      *)
LEMMA FitUpdate ==
  ASSUME TypeOK, ClaimsInv, FitInv, NEW h \in Calls, UpdateDraft(h)
  PROVE  FitInv'
<1> USE DEF ClaimsInv
<1>0. PICK e \in Drafts : e = call[h].cur
  BY DEF UpdateDraft, TypeOK, CallsOK, Rowless
<1>1. /\ call[h].op \in ReviewerOps \ {"send"}
      /\ call[h].at = "update"
  BY DEF UpdateDraft, TypeOK, CallsOK
<1>2. h \in Reviewers /\ h \notin Workers /\ Refuses(h)
      /\ call[h].op \in {"reject", "delete", "move"}
  BY <1>1 DEF PlacesInv, PlaceOK, Calls, FitInv, Refuses, ReviewerOps
<1>3. PICK new \in Outcomes(call[h].op, dirty[e]) : Update(h, e, new)
  BY <1>0 DEF UpdateDraft
<1>4. dirty[e] \in Row /\ Fit(dirty[e])
  BY DEF TypeOK, RowsOK, FitInv, RowFits
<1>5. /\ Fine(dirty[e], new) \/ dirty[e].status = "DELETED"
      /\ new.send_attempts = dirty[e].send_attempts
      /\ Kept(dirty[e]) => Kept(new)
  <2>1. CASE call[h].op = "move"
    <3>1. new \in {Moved(dirty[e], "future"), Moved(dirty[e], "due")}
      BY <1>3, <2>1 DEF Outcomes
    <3>2. /\ Fit(new) /\ new.status = dirty[e].status
          /\ new.send_attempts = dirty[e].send_attempts
      BY <1>4, <3>1, FitOperations
    <3>3. QED
      BY <3>2 DEF Fine, Settled, Kept
  <2>2. CASE call[h].op \in {"reject", "delete"}
    <3>1. new \in {Rejected(dirty[e]), Deleted(dirty[e])}
      BY <1>3, <2>2 DEF Outcomes
    <3>2. /\ Fit(new) /\ Settled(new)
          /\ new.send_attempts = dirty[e].send_attempts
      BY <1>4, <3>1, FitOperations
    <3>3. Settled(dirty[e])
      BY <1>0, <1>1, <1>2, <2>2 DEF Refuses, Shut
    <3>4. QED
      BY <3>2, <3>3 DEF Fine, Settled, Kept
  <2>3. QED
    BY <1>2, <2>1, <2>2
<1>6. \A d \in Drafts : RowStep(h, d)
  BY <1>3, <1>5, WriteRowSteps
<1>7. \A g \in Calls \ {h} : call'[g] = call[g]
  BY OthersStay
<1>8. call'[h].op = call[h].op /\ call'[h].at \in {"emit", "next"}
  BY DEF UpdateDraft, Goes, TypeOK, CallsOK, Call
<1>9. Refuses(h)'
  BY <1>2, <1>8 DEF Refuses
<1>10. QED
  BY <1>1, <1>2, <1>6, <1>7, <1>9, FitStep

(* A worker that counts, records a mail or a failure writes a row that no  *)
(* other worker has.                                                       *)
LEMMA FitSend ==
  ASSUME TypeOK, ClaimsInv, FitInv, NEW h \in Calls,
         CountAttempt(h) \/ MarkSent(h) \/ RecordFailure(h)
  PROVE  FitInv'
<1> USE DEF ClaimsInv
<1>0. PICK e \in Drafts : e = call[h].cur
  BY DEF CountAttempt, MarkSent, RecordFailure, TypeOK, CallsOK, Rowless
<1>1. /\ call[h].at \in {"count", "mark", "fail"}
      /\ h \in Workers /\ h \notin Reviewers
      /\ e \in call[h].todo
  BY <1>0, ConstantsAssumption DEF CountAttempt, MarkSent, RecordFailure,
     PlacesInv, PlaceOK, Calls, Rowless
<1>2. /\ \A g \in Calls \ {h} : call'[g] = call[g]
      /\ call'[h].todo = call[h].todo /\ call'[h].cur = e
  BY <1>0, OthersStay
<1>3. ~ Busy(h, e)
  BY <1>1 DEF Busy, ClaimsExclusive
<1>4. /\ \A d \in call[h].todo : d \in Drafts /\ Kept(msg[d]) /\ Kept(dirty[d])
      /\ SeenFits(h)
      /\ Fit(dirty[e]) /\ dirty[e] \in Row
  BY <1>1 DEF FitInv, InHand, Leaving, RowFits, TypeOK, RowsOK, CallsOK, Call
<1>5. ASSUME NEW new, Update(h, e, new), NEW at \in {"commit", "emit", "next"},
             call'[h].at = at,
             dirty[e].status # "DELETED" => Fine(dirty[e], new),
             dirty[e].status # "DELETED" =>
               (new.send_attempts = dirty[e].send_attempts \/ at = "commit"),
             at = "commit" => Kept(new)
      PROVE  FitInv'
  <2>1. \A d \in Drafts : RowStep(h, d)
    BY <1>1, <1>2, <1>3, <1>5, WriteRowSteps
  <2>2. \A d \in call'[h].todo : InHand(h, d)'
    <3> SUFFICES ASSUME NEW d \in call[h].todo PROVE InHand(h, d)'
      BY <1>2
    <3>1. CASE d = e /\ at # "commit"
      BY <1>2, <1>5, <3>1 DEF InHand, Leaving
    <3>2. CASE d = e /\ at = "commit"
      BY <1>4, <1>5, <3>2 DEF InHand, Update, TypeOK, RowsOK
    <3>3. CASE d # e
      BY <1>4, <1>5, <3>3 DEF InHand, Update, TypeOK, RowsOK
    <3>4. QED
      BY <3>1, <3>2, <3>3
  <2>3. SeenFits(h)'
    BY <1>5 DEF SeenFits
  <2>4. QED
    BY <1>1, <1>2, <2>1, <2>2, <2>3, FitStep
<1>6. CASE CountAttempt(h)
  <2>1. Update(h, e, Counted(dirty[e])) /\ call'[h].at = "commit"
    BY <1>0, <1>6 DEF CountAttempt, Goes, TypeOK, CallsOK, Call
  <2>2. /\ Fit(Counted(dirty[e])) /\ Kept(Counted(dirty[e]))
        /\ Counted(dirty[e]).status = dirty[e].status
    BY <1>1, <1>4, FitClaims
  <2>3. Fine(dirty[e], Counted(dirty[e]))
    BY <2>2 DEF Fine, Settled
  <2>4. QED
    BY <1>5, <2>1, <2>2, <2>3
<1>7. CASE MarkSent(h)
  <2>1. Update(h, e, Sent(dirty[e])) /\ call'[h].at \in {"emit", "next"}
    BY <1>0, <1>7 DEF MarkSent, Goes, TypeOK, CallsOK, Call
  <2>2. /\ Fit(Sent(dirty[e])) /\ Settled(Sent(dirty[e]))
        /\ Sent(dirty[e]).send_attempts = dirty[e].send_attempts
    BY <1>4, FitOperations
  <2>3. dirty[e].status # "DELETED" => Fine(dirty[e], Sent(dirty[e]))
    BY <2>2 DEF Fine
  <2>4. QED
    BY <1>5, <2>1, <2>2, <2>3
<1>8. CASE RecordFailure(h)
  <2> DEFINE new == AfterFailure(dirty[e], call[h])
  <2>1. Update(h, e, new) /\ call'[h].at = "next" /\ call[h].at = "fail"
    BY <1>0, <1>8 DEF RecordFailure, Goes, TypeOK, CallsOK, Call
  <2>2. dirty[e].status # "DELETED" =>
          Fine(dirty[e], new) /\ new.send_attempts = dirty[e].send_attempts
    <3> SUFFICES ASSUME dirty[e].status # "DELETED"
                 PROVE  Fine(dirty[e], new) /\ new.send_attempts = dirty[e].send_attempts
      OBVIOUS
    <3>1. CASE new \in {Blocked(dirty[e]), Paused(dirty[e])}
      BY <1>4, <3>1, FitOperations DEF Fine
    <3>2. CASE new = dirty[e]
      BY <1>4, <3>2 DEF Fine
    <3>3. CASE new = Retried(dirty[e]) /\ call[h].seen < MaxAttempts
      <4>1. dirty[e].send_attempts < MaxAttempts
        BY <1>0, <1>4, <2>1, <3>3 DEF SeenFits, Gone
      <4>2. dirty[e].status = "SENDING"
        BY <1>1, <1>4, <4>1, ConstantsAssumption DEF Kept, Row
      <4>3. /\ Fit(Retried(dirty[e]))
            /\ Retried(dirty[e]).send_attempts = dirty[e].send_attempts
        BY <1>4, <4>1, <4>2, FitClaims
      <4>4. QED
        BY <3>3, <4>2, <4>3 DEF Fine, Settled
    <3>4. QED
      BY <3>1, <3>2, <3>3 DEF AfterFailure
  <2> HIDE DEF new
  <2>3. QED
    BY <1>5, <2>1, <2>2
<1>9. QED
  BY <1>6, <1>7, <1>8

(* What another worker has in hand is no row to release or to claim.       *)
LEMMA BusyIsHeld ==
  ASSUME TypeOK, ClaimsInv, NEW h \in Workers, NEW d \in Drafts, Busy(h, d),
         lock[d] \in {h, NoCall}
  PROVE  Held(dirty[d]) /\ View(h, d) = dirty[d]
<1>1. PICK w \in Workers \ {h} : d \in call[w].todo /\ ~ Leaving(w, d)
  BY DEF Busy
<1>2. ~ LastWord(w, d)
  BY <1>1 DEF Leaving, LastWord
<1>3. QED
  BY <1>1, <1>2 DEF ClaimsInv, HeldInv, TypeOK, RowsOK, View

(* The sweep pauses rows without attempts and releases rows nobody has.    *)
LEMMA FitSweep ==
  ASSUME TypeOK, ClaimsInv, FitInv, NEW h \in Workers,
         PauseExhausted(h) \/ ReleaseExpired(h)
  PROVE  FitInv'
<1> USE DEF ClaimsInv
<1>0. h \in Calls /\ h \notin Reviewers
  BY ConstantsAssumption DEF Calls
<1>1. /\ \A g \in Calls \ {h} : call'[g] = call[g]
      /\ call'[h].todo = call[h].todo
  BY <1>0, OthersStay
<1>2. /\ call[h].todo = {} /\ call[h].at # "commit"
      /\ call'[h].at # "fail"
  BY <1>0 DEF PauseExhausted, ReleaseExpired, Goes, PlacesInv, PlaceOK, Rowless,
              TypeOK, CallsOK, Call
<1>3. ASSUME NEW d \in Drafts PROVE RowStep(h, d)
  <2>0. /\ dirty[d] \in Row /\ RowFits(d)
        /\ lock[d] \in {h, NoCall} => View(h, d) = dirty[d]
    BY DEF TypeOK, RowsOK, View, FitInv
  <2>1. CASE PauseExhausted(h)
    <3> DEFINE D == {x \in Drafts : Exhausted(View(h, x))}
    <3>1. (d \in D <=> Exhausted(View(h, d))) /\ UpdateAll(h, D, Paused)
      BY <2>1 DEF PauseExhausted
    <3> HIDE DEF D
    <3>2. CASE d \in D
      <4>1. /\ lock[d] \in {h, NoCall} /\ lock'[d] = h
            /\ msg'[d] = msg[d] /\ dirty'[d] = Paused(dirty[d])
        BY <3>1, <3>2 DEF UpdateAll
      <4>2. Exhausted(dirty[d])
        BY <2>0, <3>1, <3>2, <4>1
      <4>3. /\ Fit(Paused(dirty[d])) /\ Settled(Paused(dirty[d]))
            /\ Paused(dirty[d]).send_attempts = dirty[d].send_attempts
        BY <2>0, FitOperations
      <4>4. Writes(h, d)
        BY <4>1, <4>2, <4>3 DEF Writes, Fine, Kept, Exhausted
      <4>5. QED
        BY <4>4 DEF RowStep
    <3>3. CASE d \notin D
      BY <3>1, <3>3 DEF UpdateAll, RowStep, TypeOK, RowsOK
    <3>4. QED
      BY <3>2, <3>3
  <2>2. CASE ReleaseExpired(h)
    <3> DEFINE D == {x \in Drafts : Expired(View(h, x))}
    <3>1. (d \in D <=> Expired(View(h, d))) /\ UpdateAll(h, D, Released)
      BY <2>2 DEF ReleaseExpired
    <3> HIDE DEF D
    <3>2. CASE d \in D
      <4>1. /\ lock[d] \in {h, NoCall} /\ lock'[d] = h
            /\ msg'[d] = msg[d] /\ dirty'[d] = Released(dirty[d])
        BY <3>1, <3>2 DEF UpdateAll
      <4>2. Expired(dirty[d])
        BY <2>0, <3>1, <3>2, <4>1
      <4>3. /\ Fit(Released(dirty[d]))
            /\ Released(dirty[d]).send_attempts = dirty[d].send_attempts
        BY <2>0, <4>2, FitClaims DEF RowFits
      <4>4. ~ Busy(h, d)
        BY <4>1, <4>2, BusyIsHeld DEF Expired, Held
      <4>5. Writes(h, d)
        BY <4>1, <4>2, <4>3, <4>4 DEF Writes, Fine, Settled, Expired
      <4>6. QED
        BY <4>5 DEF RowStep
    <3>3. CASE d \notin D
      BY <3>1, <3>3 DEF UpdateAll, RowStep, TypeOK, RowsOK
    <3>4. QED
      BY <3>2, <3>3
  <2>3. QED
    BY <2>1, <2>2
<1>4. QED
  BY <1>0, <1>1, <1>2, <1>3, FitStep DEF SeenFits

(* A claim is a fit row that no other worker has.                          *)
LEMMA FitClaim ==
  ASSUME TypeOK, ClaimsInv, FitInv, NEW h \in Workers, ClaimDue(h)
  PROVE  FitInv'
<1> USE DEF ClaimsInv
<1>0. h \in Calls /\ h \notin Reviewers /\ call[h].at = "claim"
  BY ConstantsAssumption DEF Calls, ClaimDue
<1>1. PICK S \in SUBSET Drafts :
        /\ \A d \in S : lock[d] \in {h, NoCall} /\ Claimable(View(h, d))
        /\ call'[h].todo = S
        /\ \A g \in Calls \ {h} : call'[g] = call[g]
        /\ \A d \in S : /\ msg'[d] = Claimed(View(h, d))
                        /\ dirty'[d] = Claimed(dirty[d])
                        /\ lock'[d] = NoCall
        /\ \A d \in Drafts \ S :
             /\ msg'[d] = View(h, d)
             /\ dirty'[d] = dirty[d]
             /\ lock'[d] = IF lock[d] = h THEN NoCall ELSE lock[d]
  BY ClaimTakes
<1>2. ASSUME NEW d \in S
      PROVE  Claims(h, d) /\ Kept(msg'[d]) /\ Kept(dirty'[d])
  <2>1. /\ View(h, d) = dirty[d] /\ dirty[d] \in Row
        /\ Claimable(dirty[d]) /\ lock[d] \in {h, NoCall}
    BY <1>1 DEF TypeOK, RowsOK, View
  <2>2. Fit(Claimed(dirty[d])) /\ Kept(Claimed(dirty[d]))
    BY <2>1, FitClaims
  <2>3. ~ Busy(h, d)
    BY <2>1, BusyIsHeld DEF Claimable, Held
  <2>4. Claimed(dirty[d]).status # "DELETED"
    BY <2>1 DEF Claimed, Row
  <2>5. ~ Settled(dirty[d])
    BY <2>1 DEF Claimable, Settled
  <2>6. QED
    BY <1>1, <2>1, <2>2, <2>3, <2>4, <2>5 DEF Claims
<1>3. \A d \in Drafts : RowStep(h, d)
  BY <1>1, <1>2 DEF RowStep, Commits
<1>4. \A d \in call'[h].todo : InHand(h, d)'
  BY <1>1, <1>2 DEF InHand
<1>5. SeenFits(h)'
  <2>1. PICK c : /\ call' = [call EXCEPT ![h] = c]
                 /\ \/ c = Idle
                    \/ \E T \in SUBSET Drafts : \E d \in T :
                         c = Begin("tick", "read", T, d)
    BY DEF ClaimDue
  <2>2. c.at # "fail"
    <3>1. CASE c = Idle
      BY <3>1 DEF Idle
    <3>2. ASSUME NEW T \in SUBSET Drafts, NEW d \in T,
                 c = Begin("tick", "read", T, d)
          PROVE  c.at = "read"
      BY <3>2 DEF Begin, Idle
    <3>3. QED
      BY <2>1, <3>1, <3>2
  <2>3. call'[h].at # "fail"
    BY <1>0, <2>1, <2>2 DEF TypeOK, CallsOK
  <2>4. QED
    BY <2>3 DEF SeenFits
<1>6. QED
  BY <1>0, <1>1, <1>3, <1>4, <1>5, FitStep

(* Time changes neither the status of a row nor its attempts.              *)
LEMMA FitTime ==
  ASSUME TypeOK, FitInv, NEW e \in Drafts, BecomeDue(e) \/ ClaimExpires(e)
  PROVE  FitInv'
<1>1. UNCHANGED <<lock, call>>
  BY DEF BecomeDue, ClaimExpires
<1>2. ASSUME NEW d \in Drafts
      PROVE  /\ Fit(msg[d]) => Fit(msg'[d])
             /\ msg'[d].status = msg[d].status
             /\ msg'[d].send_attempts = msg[d].send_attempts
             /\ Fit(dirty[d]) => Fit(dirty'[d])
             /\ dirty'[d].status = dirty[d].status
             /\ dirty'[d].send_attempts = dirty[d].send_attempts
  <2>1. msg[d] \in Row /\ dirty[d] \in Row
    BY DEF TypeOK, RowsOK
  <2>2. /\ msg'[d] \in {msg[d], Moved(msg[d], "due"), AsStale(msg[d])}
        /\ dirty'[d] \in {dirty[d], Moved(dirty[d], "due"), AsStale(dirty[d])}
    BY DEF BecomeDue, ClaimExpires, TypeOK, RowsOK
  <2>3. QED
    BY <2>1, <2>2, FitOperations
<1>3. \A d \in Drafts : RowFits(d)' /\ OneCount(d)'
  BY <1>1, <1>2 DEF FitInv, RowFits, Settled, OneCount, Counting
<1>4. ASSUME NEW w \in Workers
      PROVE  SeenFits(w)' /\ \A d \in call'[w].todo : InHand(w, d)'
  <2>1. /\ call[w].todo \subseteq Drafts
        /\ call[w].at = "fail" => call[w].cur \in Drafts
    BY DEF TypeOK, CallsOK, Call, Calls, Rowless
  <2>2. SeenFits(w)'
    BY <1>1, <1>2, <2>1 DEF FitInv, SeenFits, Gone
  <2>3. \A d \in call[w].todo : InHand(w, d)'
    BY <1>1, <1>2, <2>1 DEF FitInv, InHand, Leaving, Kept
  <2>4. QED
    BY <1>1, <2>2, <2>3
<1>5. ASSUME NEW h \in Reviewers PROVE Refuses(h)'
  <2>1. call[h].at = "update" => call[h].cur \in Drafts
    BY DEF TypeOK, CallsOK, Calls, Rowless
  <2>2. QED
    BY <1>1, <1>2, <2>1 DEF FitInv, Refuses, Shut, Settled
<1>6. QED
  BY <1>3, <1>4, <1>5 DEF FitInv

(* A rollback goes back to a version that fits as well.                    *)
LEMMA FitVanish ==
  ASSUME TypeOK, FitInv, NEW dead \in SUBSET Calls, Vanish(dead)
  PROVE  FitInv'
<1>1. \A h \in Calls : call'[h] = IF h \in dead THEN Idle ELSE call[h]
  BY DEF Vanish
<1>2. \A d \in Drafts :
        /\ msg'[d] = msg[d]
        /\ dirty'[d] = IF lock[d] \in dead THEN msg[d] ELSE dirty[d]
        /\ lock'[d] = IF lock[d] \in dead THEN NoCall ELSE lock[d]
  BY DEF Vanish
<1>3. Idle.at = "idle" /\ Idle.op = "none" /\ Idle.todo = {}
  BY DEF Idle
<1>4. ASSUME NEW d \in Drafts PROVE RowFits(d)' /\ OneCount(d)'
  <2>1. RowFits(d)'
    BY <1>2 DEF FitInv, RowFits
  <2>2. CASE lock[d] \in dead
    BY <1>2, <2>1, <2>2 DEF OneCount
  <2>3. CASE lock[d] \notin dead
    <3>1. \A w \in Workers : Counting(w, d) => Counting(w, d)'
      BY <1>1, <1>2, <2>3 DEF Counting, Calls
    <3>2. QED
      BY <1>2, <2>1, <2>3, <3>1 DEF FitInv, OneCount
  <2>4. QED
    BY <2>2, <2>3
<1>5. ASSUME NEW w \in Workers
      PROVE  SeenFits(w)' /\ \A d \in call'[w].todo : InHand(w, d)'
  <2>1. w \in Calls
    BY DEF Calls
  <2>2. CASE w \in dead
    BY <1>1, <1>3, <2>1, <2>2 DEF SeenFits
  <2>3. CASE w \notin dead
    <3>1. /\ call'[w] = call[w]
          /\ call[w].todo \subseteq Drafts
          /\ call[w].at = "fail" => call[w].cur \in Drafts
      BY <1>1, <2>1, <2>3 DEF TypeOK, CallsOK, Call, Rowless
    <3>2. SeenFits(w)'
      BY <1>2, <2>3, <3>1 DEF FitInv, SeenFits, Gone
    <3>3. \A d \in call[w].todo : InHand(w, d)'
      BY <1>2, <3>1 DEF FitInv, InHand, Leaving
    <3>4. QED
      BY <3>1, <3>2, <3>3
  <2>4. QED
    BY <2>2, <2>3
<1>6. ASSUME NEW h \in Reviewers PROVE Refuses(h)'
  <2>1. h \in Calls
    BY DEF Calls
  <2>2. CASE h \in dead
    BY <1>1, <1>3, <2>1, <2>2 DEF Refuses
  <2>3. CASE h \notin dead
    <3>1. /\ call'[h] = call[h]
          /\ call[h].at = "update" => call[h].cur \in Drafts
      BY <1>1, <2>1, <2>3 DEF TypeOK, CallsOK, Rowless
    <3>2. QED
      BY <1>2, <2>3, <3>1 DEF FitInv, Refuses, Shut
  <2>4. QED
    BY <2>2, <2>3
<1>7. QED
  BY <1>4, <1>5, <1>6 DEF FitInv

(* In the beginning no row is claimed.                                     *)
LEMMA FitInit ==
  ASSUME Init
  PROVE  FitInv
<1>1. \A d \in Drafts : /\ msg[d] \in {NewDraft, Scheduled(NewDraft)}
                        /\ dirty[d] = msg[d]
  BY DEF Init
<1>2. Fit(NewDraft) /\ Fit(Scheduled(NewDraft))
  BY ConstantsAssumption DEF Fit, Settled, NewDraft, Scheduled
<1>3. \A d \in Drafts : RowFits(d) /\ OneCount(d)
  BY <1>1, <1>2 DEF RowFits, OneCount
<1>4. \A h \in Calls : call[h].at = "idle" /\ call[h].op = "none" /\ call[h].todo = {}
  BY DEF Init, Idle
<1>5. QED
  BY <1>3, <1>4 DEF FitInv, SeenFits, Refuses, Calls

(* Every step keeps the rows fit.                                          *)
LEMMA FitInvStep ==
  ASSUME TypeOK, ClaimsInv, FitInv, NoReturns, [Next]_vars
  PROVE  FitInv'
<1>1. ASSUME NEW h \in Calls,
             \/ SelectDraft(h) \/ UpdateDraft(h) \/ EmitDone(h)
             \/ ReadForSend(h) \/ CountAttempt(h) \/ Dispatch(h)
             \/ ProviderAccepts(h) \/ ProviderRefuses(h)
             \/ ProviderAnswerLost(h) \/ SafetyChecked(h)
             \/ MarkSent(h) \/ RecountAttempts(h)
             \/ RecordFailure(h) \/ NextDraft(h)
      PROVE FitInv'
  BY <1>1, FitSelect, FitUpdate, FitMoves, FitSend, FitDispatch, FitRecount,
     FitNextDraft
<1>2. ASSUME NEW h \in Workers,
             Tick(h) \/ PauseExhausted(h) \/ ReleaseExpired(h) \/ ClaimDue(h)
      PROVE FitInv'
  BY <1>2, FitMoves, FitSweep, FitClaim DEF Calls
<1>3. ASSUME UNCHANGED vars PROVE FitInv'
  BY <1>3 DEF vars, FitInv, RowFits, OneCount, Counting, SeenFits, Gone, InHand,
     Leaving, Refuses, Shut
<1>4. ASSUME Next PROVE FitInv'
  BY <1>1, <1>2, <1>4, StepCases, FitRequest, FitTime, FitVanish
<1>5. QED
  BY <1>3, <1>4

(* However many replicas send, a row that waits for the scheduler can be   *)
(* claimed one day, while reviewers reject, delete and move drafts and no  *)
(* claim outlives the claim timeout in live hands: no retry, release or    *)
(* rollback leaves it without approval, time or attempts.                  *)
THEOREM ReplicasLeaveNoRow ==
  ASSUME NoReturns
  PROVE  Spec => []NoZombie
<1>1. Init => ClaimsInv /\ FitInv
  BY ClaimsInvInit, FitInit
<1>2. TypeOK /\ ClaimsInv /\ FitInv /\ [Next]_vars => ClaimsInv' /\ FitInv'
  BY ClaimsInvStep, FitInvStep DEF NoReturns
<1>3. FitInv => NoZombie
  BY DEF FitInv, RowFits, Fit, Settled, NoZombie
<1>4. QED
  BY <1>1, <1>2, <1>3, TypeCorrect, PTL DEF Spec
=============================================================================
