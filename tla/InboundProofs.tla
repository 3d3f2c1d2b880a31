---------------------------- MODULE InboundProofs ----------------------------
(* Theorems about Inbound, for every value of its constants. *)
EXTENDS Inbound, TLAPS

-----------------------------------------------------------------------------
(* Types.  A call that works on a message has one, and a poll that goes on *)
(* has a message to go on with.                                            *)

LeadType == [status: {"CONTACTED", "WARM", "MEETING_PROPOSED", "MEETING_BOOKED",
                      "OPTED_OUT"},
             out: BOOLEAN, responded: BOOLEAN, meeting: BOOLEAN]

Working == [pc: {"models", "agent", "record", "seen"}, todo: Seq(Polled),
            message: Messages, tool: {"unused", "drafted", "sent"}]

CallType == {Idle} \cup [pc: {"next"}, todo: Seq(Polled) \ {<<>>}] \cup Working

\* The types of what most actions leave alone.
RestTypeOK ==
  /\ recorded \in [Messages -> Nat]
  /\ draft \in [Messages -> {"none", "DRAFT", "SENT"}]
  /\ lead \in [Leads -> LeadType]
  /\ memory \subseteq Pushed
  /\ mails \in [Messages -> Nat]
  /\ refused \subseteq Messages /\ excused \subseteq Messages
  /\ pushes \in Nat /\ reviews \in Nat /\ faults \in Nat

\* What TypeOK needs to be inductive.
TypeInv ==
  /\ box \in [Polled -> {"absent", "unread", "seen"}]
  /\ call \in [Calls -> CallType]
  /\ RestTypeOK

LEMMA TypeInvSuffices == TypeInv => TypeOK
<1>1. call \in [Calls -> CallType] =>
        \A c \in Calls : call[c].pc \in {"idle", "next", "models", "agent", "record", "seen"}
  BY DEF CallType, Working, Idle
<1>2. pushes \in Nat /\ reviews \in Nat /\ faults \in Nat => bounds \in Nat \X Nat \X Nat
  BY DEF bounds
<1>3. QED
  BY <1>1, <1>2 DEF TypeInv, TypeOK, RestTypeOK, LeadType

LEMMA TypeInit == Init => TypeInv
BY DEF Init, TypeInv, RestTypeOK, LeadType, CallType

(* What a call does next has the type of a call.                           *)
LEMMA NextCall ==
  ASSUME TypeInv, NEW c \in Calls, call[c].pc \notin {"idle", "next"}
  PROVE  /\ call[c] \in Working
         /\ \A pc \in {"models", "agent", "record", "seen"} :
              Goto(c, pc) => call' \in [Calls -> CallType]
         /\ Done(c) => call' \in [Calls -> CallType]
<1>1. call[c] \in Working
  BY DEF TypeInv, CallType, Idle
<1>2. ASSUME NEW pc \in {"models", "agent", "record", "seen"}, Goto(c, pc)
      PROVE  call' \in [Calls -> CallType]
  <2>1. [call[c] EXCEPT !.pc = pc] \in Working
    BY <1>1 DEF Working
  <2>2. call' = [call EXCEPT ![c] = [call[c] EXCEPT !.pc = pc]]
    BY <1>2 DEF Goto, TypeInv
  <2>3. QED
    BY <2>1, <2>2 DEF TypeInv, CallType
<1>3. ASSUME Done(c) PROVE call' \in [Calls -> CallType]
  <2> DEFINE v == IF c \in Syncs /\ call[c].todo # <<>>
                  THEN [pc |-> "next", todo |-> call[c].todo] ELSE Idle
  <2>1. v \in CallType
    BY <1>1 DEF CallType, Working
  <2>2. call' = [call EXCEPT ![c] = v]
    BY <1>3 DEF Done, TypeInv
  <2>3. QED
    BY <2>1, <2>2 DEF TypeInv
<1>4. QED
  BY <1>1, <1>2, <1>3

LEMMA SettledType ==
  ASSUME TypeInv, NEW m
  PROVE  /\ Settled(m) \in [Polled -> {"absent", "unread", "seen"}]
         /\ Fetched(m) \in [Polled -> {"absent", "unread", "seen"}]
BY DEF TypeInv, Settled, Fetched

LEMMA FaultType ==
  ASSUME TypeInv, Fault
  PROVE  faults' \in Nat
BY DEF TypeInv, RestTypeOK, Fault

LEMMA PollType ==
  ASSUME TypeInv, NEW c \in Calls, Poll(c)
  PROVE  TypeInv'
<1>1. PICK n \in 1 .. Limit : \E list \in [1 .. n -> Unread] :
        call' = [call EXCEPT ![c] = [pc |-> "next", todo |-> list]]
  BY DEF Poll
<1>2. PICK list \in [1 .. n -> Unread] :
        call' = [call EXCEPT ![c] = [pc |-> "next", todo |-> list]]
  BY <1>1
<1>3. n \in Nat \ {0}
  BY ConstantsAssumption
<1>4. list \in Seq(Polled) /\ list # <<>>
  BY <1>3 DEF Unread
<1>5. call' \in [Calls -> CallType]
  BY <1>2, <1>4 DEF TypeInv, CallType
<1>6. UNCHANGED <<box, recorded, draft, lead, memory, mails, refused, excused, pushes,
                  reviews, faults>>
  BY DEF Poll, history, bounds
<1>7. QED
  BY <1>5, <1>6 DEF TypeInv, RestTypeOK

LEMMA ArriveType ==
  ASSUME TypeInv, NEW m \in Polled, Arrive(m)
  PROVE  TypeInv'
BY DEF TypeInv, Arrive, RestTypeOK, history, bounds

(* A poll that leaves a message behind goes on with the rest.              *)
LEMMA SkipCall ==
  ASSUME TypeInv, NEW c \in Calls, call[c].pc = "next", Skip(c)
  PROVE  /\ call' \in [Calls -> CallType]
         /\ \A d \in Calls \ {c} : call'[d] = call[d]
         /\ call'[c].pc \in {"idle", "next"}
<1> DEFINE rest == Tail(call[c].todo)
           v == IF rest = <<>> THEN Idle ELSE [pc |-> "next", todo |-> rest]
<1>1. call[c].todo \in Seq(Polled) /\ call[c].todo # <<>>
  BY DEF TypeInv, CallType, Working, Idle
<1>2. rest \in Seq(Polled)
  BY <1>1
<1>3. v \in CallType /\ v.pc \in {"idle", "next"}
  BY <1>2 DEF CallType, Idle
<1>4. call' = [call EXCEPT ![c] = v]
  BY DEF Skip, TypeInv
<1> HIDE DEF v
<1>5. QED
  BY <1>3, <1>4 DEF TypeInv

LEMMA TakeFailsType ==
  ASSUME TypeInv, NEW c \in Calls, TakeFails(c)
  PROVE  TypeInv'
<1>1. call' \in [Calls -> CallType]
  BY SkipCall DEF TakeFails, At
<1>2. faults' \in Nat
  BY FaultType DEF TakeFails, TypeInv, RestTypeOK
<1>3. UNCHANGED <<box, recorded, draft, lead, memory, mails, refused, excused, pushes,
                  reviews>>
  BY DEF TakeFails, history
<1>4. QED
  BY <1>1, <1>2, <1>3 DEF TypeInv, RestTypeOK

LEMMA TakeType ==
  ASSUME TypeInv, NEW c \in Calls, Take(c)
  PROVE  TypeInv'
<1> DEFINE m == Head(call[c].todo)
           rest == Tail(call[c].todo)
<1>1. call[c].todo \in Seq(Polled) /\ call[c].todo # <<>>
  BY DEF Take, At, TypeInv, CallType, Working, Idle
<1>2. m \in Polled /\ m \in Messages /\ rest \in Seq(Polled)
  BY <1>1 DEF Messages
<1>3. UNCHANGED <<recorded, draft, lead, memory, mails, pushes, reviews, faults>>
  BY DEF Take, bounds
<1>4. CASE AlreadyRecorded(m) \/ ~Routed(m)
  <2>1. box' = Settled(m) /\ Skip(c) /\ call[c].pc = "next"
    BY <1>4 DEF Take, At
  <2>2. box' \in [Polled -> {"absent", "unread", "seen"}]
    BY <2>1, SettledType
  <2>4. call' \in [Calls -> CallType]
    BY <2>1, SkipCall
  <2>5. refused' \subseteq Messages /\ excused' = excused
    BY <1>2, <1>4 DEF TypeInv, Take, RestTypeOK
  <2>6. QED
    BY <1>3, <2>2, <2>4, <2>5 DEF TypeInv, RestTypeOK
<1>5. CASE ~(AlreadyRecorded(m) \/ ~Routed(m))
  <2>1. box' = Fetched(m) /\ UNCHANGED refused
    BY <1>5 DEF Take
  <2>2. call' = [call EXCEPT ![c] =
          [pc |-> "models", todo |-> rest, message |-> m, tool |-> "unused"]]
    BY <1>5 DEF Take
  <2>3. call' \in [Calls -> CallType]
    BY <1>2, <2>2 DEF TypeInv, CallType, Working
  <2>4. excused' \subseteq Messages
    BY <1>2, <1>5 DEF TypeInv, Take, RestTypeOK
  <2>5. box' \in [Polled -> {"absent", "unread", "seen"}]
    BY <2>1, SettledType
  <2>6. QED
    BY <1>3, <2>1, <2>3, <2>4, <2>5 DEF TypeInv, RestTypeOK
<1>6. QED
  BY <1>4, <1>5

LEMMA PushType ==
  ASSUME TypeInv, NEW c \in Calls, NEW m \in Pushed, Push(c, m)
  PROVE  TypeInv'
<1>1. m \in Messages /\ <<>> \in Seq(Polled)
  BY DEF Messages
<1>2. pushes' \in Nat /\ UNCHANGED <<box, recorded, draft, lead, mails, refused, reviews, faults>>
  BY DEF TypeInv, Push, RestTypeOK
<1>3. CASE Remembered(m)
  BY <1>2, <1>3 DEF TypeInv, Push, RestTypeOK
<1>4. CASE ~Remembered(m)
  <2>1. call' = [call EXCEPT ![c] =
          [pc |-> "models", todo |-> <<>>, message |-> m, tool |-> "unused"]]
    BY <1>4 DEF Push
  <2>2. call' \in [Calls -> CallType]
    BY <1>1, <2>1 DEF TypeInv, CallType, Working
  <2>3. memory' \subseteq Pushed /\ excused' \subseteq Messages
    BY <1>1, <1>4 DEF TypeInv, Push, RestTypeOK
  <2>4. QED
    BY <1>2, <2>2, <2>3 DEF TypeInv, RestTypeOK
<1>5. QED
  BY <1>3, <1>4

LEMMA ForgetType ==
  ASSUME TypeInv, NEW m \in Pushed, Forget(m)
  PROVE  TypeInv'
<1>1. m \in Messages /\ faults' \in Nat
  BY FaultType DEF Messages, Forget
<1>2. QED
  BY <1>1 DEF TypeInv, Forget, RestTypeOK

(* The steps of the pipeline.                                              *)
LEMMA RefuseType ==
  ASSUME TypeInv, NEW c \in Calls, Refuse(c)
  PROVE  TypeInv'
<1>1. call[c].message \in Messages /\ call' \in [Calls -> CallType]
  BY NextCall DEF Refuse, At, Working
<1>2. QED
  BY <1>1 DEF TypeInv, Refuse, RestTypeOK, bounds

LEMMA DraftedType ==
  ASSUME TypeInv, NEW m
  PROVE  Drafted(m) \in [Messages -> {"none", "DRAFT", "SENT"}]
BY DEF TypeInv, RestTypeOK, Drafted

LEMMA DraftReplyType ==
  ASSUME TypeInv, NEW c \in Calls, DraftReply(c)
  PROVE  TypeInv'
<1>1. call' \in [Calls -> CallType]
  BY NextCall DEF DraftReply, At
<1>2. draft' \in [Messages -> {"none", "DRAFT", "SENT"}]
  BY DraftedType DEF DraftReply
<1>3. QED
  BY <1>1, <1>2 DEF TypeInv, DraftReply, RestTypeOK, history, bounds

(* A call of the tool: the same call goes on, the message excused where it *)
(* is not the first one.                                                   *)
LEMMA ToolCall ==
  ASSUME TypeInv, NEW c \in Calls, NEW result \in {"drafted", "sent"}, CallsTool(c, result)
  PROVE  /\ call[c] \in Working /\ call[c].pc = "agent" /\ call[c].message \in Messages
         /\ call' \in [Calls -> CallType]
         /\ \A d \in Calls \ {c} : call'[d] = call[d]
         /\ call'[c].pc = "agent" /\ call'[c].message = call[c].message
         /\ call'[c].tool # "unused"
         /\ excused' = excused \/ excused' = excused \cup {call[c].message}
         /\ call[c].tool # "unused" => call[c].message \in excused'
         /\ faults' \in Nat
<1>1. call[c].pc = "agent"
  BY DEF CallsTool, At
<1>2. call[c] \in Working /\ call[c].message \in Messages
  BY <1>1, NextCall DEF Working
<1> DEFINE t == IF call[c].tool = "sent" THEN "sent" ELSE result
           w == [call[c] EXCEPT !.tool = t]
<1>3. t \in {"drafted", "sent"}
  OBVIOUS
<1>4. call' = [call EXCEPT ![c] = w]
  BY DEF CallsTool, TypeInv
<1> HIDE DEF t
<1>5. w \in Working /\ w.pc = "agent" /\ w.message = call[c].message /\ w.tool # "unused"
  BY <1>1, <1>2, <1>3 DEF Working
<1> HIDE DEF w
<1>6. /\ call' \in [Calls -> CallType]
      /\ \A d \in Calls \ {c} : call'[d] = call[d]
      /\ call'[c] = w
  BY <1>4, <1>5 DEF TypeInv, CallType
<1>7. /\ excused' = excused \/ excused' = excused \cup {call[c].message}
      /\ call[c].tool # "unused" => call[c].message \in excused'
  BY DEF CallsTool
<1>8. faults' \in Nat
  BY FaultType DEF CallsTool, TypeInv, RestTypeOK
<1>9. QED
  BY <1>1, <1>2, <1>5, <1>6, <1>7, <1>8

LEMMA ToolType ==
  ASSUME TypeInv, NEW c \in Calls, AgentSends(c) \/ AgentDrafts(c)
  PROVE  TypeInv'
<1>1. PICK result \in {"drafted", "sent"} : CallsTool(c, result)
  BY DEF AgentSends, AgentDrafts
<1>2. call' \in [Calls -> CallType] /\ faults' \in Nat /\ call[c].message \in Messages
  BY <1>1, ToolCall
<1>3. excused' \subseteq Messages
  <2>1. excused' = excused \/ excused' = excused \cup {call[c].message}
    BY <1>1, ToolCall
  <2>2. QED
    BY <1>2, <2>1 DEF TypeInv, RestTypeOK
<1>4. UNCHANGED <<box, recorded, lead, memory, refused, pushes, reviews>>
  BY <1>1 DEF CallsTool
<1>5. mails' \in [Messages -> Nat]
  <2>1. mails \in [Messages -> Nat]
    BY DEF TypeInv, RestTypeOK
  <2>2. CASE AgentSends(c)
    BY <1>2, <2>1, <2>2 DEF AgentSends
  <2>3. CASE AgentDrafts(c)
    BY <2>1, <2>3 DEF AgentDrafts
  <2>4. QED
    BY <2>2, <2>3
<1>6. draft' \in [Messages -> {"none", "DRAFT", "SENT"}]
  BY DraftedType DEF AgentSends, AgentDrafts, TypeInv, RestTypeOK
<1>7. QED
  BY <1>2, <1>3, <1>4, <1>5, <1>6 DEF TypeInv, RestTypeOK

LEMMA AgentType ==
  ASSUME TypeInv, NEW c \in Calls, CallAgent(c) \/ AgentRestarts(c) \/ AgentEnds(c)
  PROVE  TypeInv'
<1>1. CASE CallAgent(c)
  <2>1. call' \in [Calls -> CallType]
    BY <1>1, NextCall DEF CallAgent, At
  <2>2. QED
    BY <1>1, <2>1 DEF TypeInv, CallAgent, RestTypeOK, history, bounds
<1>3. CASE AgentRestarts(c)
  <2>1. call[c] \in Working /\ call[c].message \in Messages
    BY <1>3, NextCall DEF AgentRestarts, At, Working
  <2>2. call' \in [Calls -> CallType]
    BY <1>3, <2>1 DEF AgentRestarts, TypeInv, CallType, Working
  <2>3. faults' \in Nat
    BY <1>3, FaultType DEF AgentRestarts
  <2>4. QED
    BY <1>3, <2>1, <2>2, <2>3 DEF TypeInv, AgentRestarts, RestTypeOK
<1>4. CASE AgentEnds(c)
  <2>1. call' \in [Calls -> CallType]
    BY <1>4, NextCall DEF AgentEnds, At
  <2>2. QED
    BY <1>4, <2>1 DEF TypeInv, AgentEnds, RestTypeOK, history, bounds
<1>5. QED
  BY <1>1, <1>3, <1>4

(* What a message does to its lead only adds to what others did.           *)
LEMMA HeardLead ==
  ASSUME TypeInv, NEW m \in Messages, From[m] \in Leads, NEW sent \in BOOLEAN
  PROVE  LET l == lead[From[m]] IN
         /\ Heard(m, sent) \in LeadType
         /\ Heard(m, sent).out = (l.out \/ Intent[m] = "opt_out")
         /\ Heard(m, sent).responded = (l.responded \/ Intent[m] # "spam")
         /\ Heard(m, sent).meeting = (l.meeting \/ Intent[m] = "meeting_confirmation")
<1> DEFINE l == lead[From[m]]
           h == Heard(m, sent)
<1>1. l \in LeadType
  BY DEF TypeInv, RestTypeOK
<1>2. /\ h.out = (l.out \/ Intent[m] = "opt_out")
      /\ h.responded = (l.responded \/ Intent[m] # "spam")
      /\ h.meeting = (l.meeting \/ Intent[m] = "meeting_confirmation")
  BY <1>1 DEF Heard, LeadType
<1>3. h \in LeadType
  BY <1>1 DEF Heard, LeadType
<1>4. QED
  BY <1>2, <1>3

LEMMA RecordType ==
  ASSUME TypeInv, NEW c \in Calls, Record(c)
  PROVE  TypeInv'
<1> DEFINE m == call[c].message
<1>1. /\ m \in Messages
      /\ call' \in [Calls -> CallType]
  BY NextCall DEF Record, At, Working
<1>2. UNCHANGED <<box, draft, memory, mails, pushes, reviews>>
  BY DEF Record
<1>3. CASE /\ Known(m)
           /\ recorded' = [recorded EXCEPT ![m] = @ + 1]
           /\ lead' = [lead EXCEPT ![From[m]] = Heard(m, call[c].tool = "sent")]
           /\ UNCHANGED <<refused, excused, faults>>
  <2>1. Heard(m, call[c].tool = "sent") \in LeadType
    <3> DEFINE sent == call[c].tool = "sent"
    <3>1. sent \in BOOLEAN /\ From[m] \in Leads
      BY <1>3 DEF Known
    <3> HIDE DEF m, sent
    <3>2. QED
      BY <1>1, <3>1, HeardLead
  <2>2. lead' \in [Leads -> LeadType] /\ recorded' \in [Messages -> Nat]
    BY <1>1, <1>3, <2>1 DEF Known, TypeInv, RestTypeOK
  <2>3. QED
    BY <1>1, <1>2, <1>3, <2>2 DEF TypeInv, RestTypeOK
<1>4. CASE ~Known(m) /\ refused' = refused \cup {m}
           /\ UNCHANGED <<recorded, lead, excused, faults>>
  BY <1>1, <1>2, <1>4 DEF TypeInv, RestTypeOK
<1>5. CASE Fault /\ refused' = refused \cup {m} /\ excused' = excused \cup {m}
           /\ UNCHANGED <<recorded, lead>>
  BY <1>1, <1>2, <1>5, FaultType DEF TypeInv, RestTypeOK
<1>6. QED
  BY <1>3, <1>4, <1>5 DEF Record

LEMMA MarkSeenType ==
  ASSUME TypeInv, NEW c \in Calls, MarkSeen(c)
  PROVE  TypeInv'
<1>1. call' \in [Calls -> CallType]
  BY NextCall DEF MarkSeen, At
<1>2. (box' = Settled(call[c].message) /\ faults' = faults) \/ (Fault /\ box' = box)
  BY DEF MarkSeen
<1>3. box' \in [Polled -> {"absent", "unread", "seen"}] /\ faults' \in Nat
  BY <1>2, SettledType, FaultType DEF TypeInv, RestTypeOK
<1>4. QED
  BY <1>1, <1>3 DEF TypeInv, MarkSeen, RestTypeOK, history

LEMMA ReviewType ==
  ASSUME TypeInv, NEW m \in Messages, Review(m)
  PROVE  TypeInv'
BY DEF TypeInv, Review, RestTypeOK

LEMMA CrashType ==
  ASSUME TypeInv, Crash
  PROVE  TypeInv'
<1>1. faults' \in Nat /\ call' \in [Calls -> CallType]
  BY FaultType DEF Crash, CallType
<1>2. excused' \subseteq Messages
  BY DEF TypeInv, Crash, RestTypeOK, Messages
<1>3. QED
  BY <1>1, <1>2 DEF TypeInv, Crash, RestTypeOK

LEMMA TypeNext == TypeInv /\ [Next]_vars => TypeInv'
<1> SUFFICES ASSUME TypeInv, [Next]_vars PROVE TypeInv'
  OBVIOUS
<1>1. ASSUME NEW m \in Polled, Arrive(m) PROVE TypeInv'
  BY <1>1, ArriveType
<1>2. ASSUME NEW c \in Syncs, Poll(c) \/ Take(c) \/ TakeFails(c) PROVE TypeInv'
  BY <1>2, PollType, TakeType, TakeFailsType DEF Calls
<1>3. ASSUME NEW c \in Hooks, NEW m \in Pushed, Push(c, m) PROVE TypeInv'
  BY <1>3, PushType DEF Calls
<1>4. ASSUME NEW c \in Calls, Step(c) \/ AgentRestarts(c) PROVE TypeInv'
  BY <1>4, RefuseType, DraftReplyType, AgentType, ToolType, RecordType, MarkSeenType DEF Step
<1>5. ASSUME NEW m \in Pushed, Forget(m) PROVE TypeInv'
  BY <1>5, ForgetType
<1>6. ASSUME NEW m \in Messages, Review(m) PROVE TypeInv'
  BY <1>6, ReviewType
<1>7. CASE Crash
  BY <1>7, CrashType
<1>8. CASE UNCHANGED vars
  BY <1>8 DEF TypeInv, RestTypeOK, vars
<1>9. QED
  BY <1>1, <1>2, <1>3, <1>4, <1>5, <1>6, <1>7, <1>8 DEF Next

\* The state of the inbound monitor keeps its types: a poll that goes on has a message
\* to go on with, and a lead one of the statuses that _update_lead_from_inbound writes.
THEOREM TypeCorrect == Spec => []TypeOK
BY TypeInit, TypeNext, TypeInvSuffices, PTL DEF Spec

-----------------------------------------------------------------------------
(* Nothing is lost unseen.  Records and refusals stay, and a call that is  *)
(* about to mark its message as seen has one of them.                      *)

IsSettled(m) == recorded[m] > 0 \/ m \in refused

\* What SeenIsSettled needs to be inductive.
SettledInv ==
  /\ TypeInv
  /\ SeenIsSettled
  /\ \A c \in Calls : call[c].pc = "seen" => IsSettled(call[c].message)

\* Nothing that is settled ceases to be.
SettledStays == \A m \in Messages : IsSettled(m) => IsSettled(m)'

LEMMA SettledOnly ==
  ASSUME TypeInv, [Next]_vars
  PROVE  SettledStays
<1>1. ASSUME NEW c \in Calls, Record(c) PROVE SettledStays
  BY <1>1 DEF Record, TypeInv, RestTypeOK, SettledStays, IsSettled
<1>2. ASSUME NEW c \in Syncs, Take(c) PROVE SettledStays
  BY <1>2 DEF Take, SettledStays, IsSettled
<1>3. ASSUME NEW c \in Calls, Refuse(c) PROVE SettledStays
  BY <1>3 DEF Refuse, SettledStays, IsSettled
<1>4. CASE UNCHANGED <<recorded, refused>>
  BY <1>4 DEF SettledStays, IsSettled
<1>5. QED
  <2>1. CASE \E c \in Syncs : Poll(c) \/ TakeFails(c)
    BY <2>1, <1>4 DEF Poll, TakeFails, history
  <2>2. CASE \E m \in Polled : Arrive(m)
    BY <2>2, <1>4 DEF Arrive, history
  <2>3. CASE \E c \in Hooks, m \in Pushed : Push(c, m)
    BY <2>3, <1>4 DEF Push
  <2>4. CASE \E c \in Calls : \/ DraftReply(c) \/ CallAgent(c) \/ AgentSends(c)
                              \/ AgentDrafts(c) \/ AgentEnds(c) \/ MarkSeen(c)
                              \/ AgentRestarts(c)
    BY <2>4, <1>4 DEF DraftReply, CallAgent, AgentSends, AgentDrafts, CallsTool, AgentEnds,
                      MarkSeen, AgentRestarts, history
  <2>5. CASE \/ \E m \in Pushed : Forget(m)
             \/ \E m \in Messages : Review(m)
             \/ Crash
    BY <2>5, <1>4 DEF Forget, Review, Crash
  <2>6. CASE UNCHANGED vars
    BY <2>6, <1>4 DEF vars
  <2>7. QED
    BY <1>1, <1>2, <1>3, <2>1, <2>2, <2>3, <2>4, <2>5, <2>6 DEF Next, Step

\* A message has a record or is refused after this step.
SettledNow(m) == recorded'[m] > 0 \/ m \in refused'

\* No call comes to mark a message as seen in this step.
SeenStay ==
  \A c \in Calls : call'[c].pc = "seen" =>
    call[c].pc = "seen" /\ call'[c].message = call[c].message

(* A step that marks nothing as seen, and brings no call to do so.         *)
LEMMA OthersSettled ==
  ASSUME SettledInv, TypeInv', SettledStays, SeenStay,
         \A m \in Polled : box'[m] = "seen" => box[m] = "seen"
  PROVE  SettledInv'
<1>1. SeenIsSettled'
  BY DEF SettledInv, SeenIsSettled, SettledStays, IsSettled, Messages
<1>2. ASSUME NEW c \in Calls, call'[c].pc = "seen"
      PROVE  IsSettled(call[c].message)'
  <2>1. call[c].pc = "seen" /\ call'[c].message = call[c].message
    BY <1>2 DEF SeenStay
  <2>2. IsSettled(call[c].message) /\ call[c].message \in Messages
    BY <2>1, NextCall DEF SettledInv, Working
  <2>3. QED
    BY <2>1, <2>2 DEF SettledStays, IsSettled
<1>3. QED
  BY <1>1, <1>2 DEF SettledInv, IsSettled

(* What a poll does not hand on has a record or is turned away.            *)
LEMMA TakeSettled ==
  ASSUME SettledInv, TypeInv', SettledStays, NEW c \in Calls, Take(c)
  PROVE  SettledInv'
<1> DEFINE m == Head(call[c].todo)
<1>0. call[c].pc = "next" /\ TypeInv
  BY DEF SettledInv, Take, At
<1>1. SeenStay
  <2>1. CASE Skip(c)
    <3>1. /\ \A d \in Calls \ {c} : call'[d] = call[d]
          /\ call'[c].pc \in {"idle", "next"}
      BY <1>0, <2>1, SkipCall
    <3>2. QED
      BY <3>1 DEF SeenStay
  <2>2. CASE ~Skip(c)
    BY <1>0, <2>2 DEF TypeInv, SeenStay, Take
  <2>3. QED
    BY <2>1, <2>2
<1>2. CASE AlreadyRecorded(m) \/ ~Routed(m)
  <2>1. box' = Settled(m) \/ box' = box
    BY <1>2 DEF Take
  <2>2. SettledNow(m)
    BY <1>2 DEF Take, SettledNow, AlreadyRecorded
  <2>3. SeenIsSettled'
    BY <2>1, <2>2 DEF SettledInv, TypeInv, SeenIsSettled, SettledStays, IsSettled, Settled,
                      SettledNow, Messages
  <2>4. \A d \in Calls : call'[d].pc = "seen" => IsSettled(call[d].message)'
    <3>1. SUFFICES ASSUME NEW d \in Calls, call'[d].pc = "seen"
                   PROVE  IsSettled(call[d].message)'
      OBVIOUS
    <3>2. call[d].pc = "seen" /\ call'[d].message = call[d].message
      BY <1>1, <3>1 DEF SeenStay
    <3>3. IsSettled(call[d].message) /\ call[d].message \in Messages
      BY <3>2, NextCall DEF SettledInv, Working
    <3>4. QED
      BY <3>2, <3>3 DEF SettledStays, IsSettled
  <2>5. QED
    BY <2>3, <2>4, <1>1 DEF SettledInv, SeenStay, IsSettled
<1>3. CASE ~(AlreadyRecorded(m) \/ ~Routed(m))
  BY <1>1, <1>3, OthersSettled DEF Take, Fetched
<1>4. QED
  BY <1>2, <1>3

(* The pipeline settles a message before it goes to mark it as seen.       *)
LEMMA PipelineSettled ==
  ASSUME SettledInv, TypeInv', SettledStays, NEW c \in Calls, Refuse(c) \/ Record(c)
  PROVE  SettledInv'
<1> DEFINE m == call[c].message
<1>1. call[c] \in Working /\ m \in Messages
  BY NextCall DEF SettledInv, Refuse, Record, At, Working
<1>2. SettledNow(m)
  BY <1>1 DEF Refuse, Record, SettledNow, SettledInv, TypeInv, RestTypeOK
<1>3. Goto(c, "seen") \/ Done(c)
  BY DEF Refuse, Record
<1>4. ASSUME NEW d \in Calls, call'[d].pc = "seen"
      PROVE  IsSettled(call[d].message)'
  <2>1. CASE d = c
    <3>1. call'[c].message = m
      BY <1>1, <1>3, <1>4, <2>1 DEF SettledInv, TypeInv, Goto, Done, Idle, Working
    <3>2. QED
      BY <1>2, <2>1, <3>1 DEF IsSettled, SettledNow
  <2>2. CASE d # c
    <3>1. call'[d] = call[d]
      BY <1>3, <2>2 DEF SettledInv, TypeInv, Goto, Done
    <3>2. IsSettled(call[d].message) /\ call[d].message \in Messages
      BY <1>4, <3>1, NextCall DEF SettledInv, Working
    <3>3. QED
      BY <3>1, <3>2 DEF SettledStays, IsSettled
  <2>3. QED
    BY <2>1, <2>2
<1>5. SeenIsSettled'
  BY DEF Refuse, Record, SettledInv, SeenIsSettled, SettledStays, IsSettled, Messages
<1>6. QED
  BY <1>4, <1>5 DEF SettledInv, IsSettled

LEMMA MarkSeenSettled ==
  ASSUME SettledInv, TypeInv', SettledStays, NEW c \in Calls, MarkSeen(c)
  PROVE  SettledInv'
<1> DEFINE m == call[c].message
<1>1. m \in Messages /\ IsSettled(m)
  BY NextCall DEF SettledInv, MarkSeen, At, Working
<1>2. SeenStay
  BY DEF MarkSeen, Done, SeenStay, SettledInv, TypeInv, Idle
<1>3. box' = Settled(m) \/ box' = box
  BY DEF MarkSeen
<1>4. SeenIsSettled'
  BY <1>1, <1>3 DEF SettledInv, TypeInv, SeenIsSettled, SettledStays, IsSettled, Settled,
                    Messages
<1>5. ASSUME NEW d \in Calls, call'[d].pc = "seen"
      PROVE  IsSettled(call[d].message)'
  <2>1. call[d].pc = "seen" /\ call'[d].message = call[d].message
    BY <1>2, <1>5 DEF SeenStay
  <2>2. IsSettled(call[d].message) /\ call[d].message \in Messages
    BY <2>1, NextCall DEF SettledInv, Working
  <2>3. QED
    BY <2>1, <2>2 DEF SettledStays, IsSettled
<1>6. QED
  BY <1>4, <1>5 DEF SettledInv, IsSettled

LEMMA SettledNext == SettledInv /\ [Next]_vars => SettledInv'
<1> SUFFICES ASSUME SettledInv, [Next]_vars PROVE SettledInv'
  OBVIOUS
<1>1. TypeInv /\ TypeInv' /\ SettledStays
  BY TypeNext, SettledOnly DEF SettledInv
<1>2. ASSUME NEW m \in Polled, Arrive(m) PROVE SettledInv'
  BY <1>1, <1>2, OthersSettled DEF Arrive, TypeInv, SeenStay
<1>3. ASSUME NEW c \in Syncs, Poll(c) PROVE SettledInv'
  BY <1>1, <1>3, OthersSettled DEF Poll, TypeInv, SeenStay, Calls
<1>4. ASSUME NEW c \in Syncs, Take(c) \/ TakeFails(c) PROVE SettledInv'
  <2>1. CASE Take(c)
    BY <1>1, <2>1, TakeSettled DEF Calls
  <2>2. CASE TakeFails(c)
    <3>1. c \in Calls /\ call[c].pc = "next" /\ Skip(c) /\ UNCHANGED box
      BY <2>2 DEF TakeFails, At, Calls
    <3>2. /\ \A d \in Calls \ {c} : call'[d] = call[d]
          /\ call'[c].pc \in {"idle", "next"}
      BY <1>1, <3>1, SkipCall
    <3>3. SeenStay
      BY <3>2 DEF SeenStay
    <3>4. QED
      BY <1>1, <3>1, <3>3, OthersSettled
  <2>3. QED
    BY <1>4, <2>1, <2>2
<1>5. ASSUME NEW c \in Hooks, NEW m \in Pushed, Push(c, m) PROVE SettledInv'
  BY <1>1, <1>5, OthersSettled DEF Push, TypeInv, SeenStay, Calls
<1>6. ASSUME NEW c \in Calls, Step(c) \/ AgentRestarts(c) PROVE SettledInv'
  <2>1. CASE Refuse(c) \/ Record(c)
    BY <1>1, <2>1, PipelineSettled
  <2>2. CASE MarkSeen(c)
    BY <1>1, <2>2, MarkSeenSettled
  <2>3. CASE DraftReply(c) \/ CallAgent(c) \/ AgentRestarts(c) \/ AgentEnds(c)
    <3>1. UNCHANGED box
      BY <2>3 DEF DraftReply, CallAgent, AgentRestarts, AgentEnds
    <3>2. call[c] \in Working
      BY <1>1, <2>3, NextCall DEF DraftReply, CallAgent, AgentRestarts, AgentEnds, At
    <3>3. /\ \A d \in Calls \ {c} : call'[d] = call[d]
          /\ call'[c].pc \in {"agent", "record"}
      <4>1. call \in [Calls -> CallType] /\ DOMAIN call = Calls
        BY <1>1 DEF TypeInv
      <4>2. CASE DraftReply(c) \/ CallAgent(c) \/ AgentEnds(c)
        <5>1. Goto(c, "record") \/ Goto(c, "agent")
          BY <4>2 DEF DraftReply, CallAgent, AgentEnds
        <5>2. QED
          BY <3>2, <4>1, <5>1 DEF Goto, Working
      <4>3. CASE AgentRestarts(c)
        <5>1. call[c].pc = "agent" /\ call' = [call EXCEPT ![c].tool = "unused"]
          BY <4>3 DEF AgentRestarts, At
        <5>2. QED
          BY <3>2, <4>1, <5>1 DEF Working
      <4>4. QED
        BY <2>3, <4>2, <4>3
    <3>4. SeenStay
      BY <3>3 DEF SeenStay
    <3>5. QED
      BY <1>1, <3>1, <3>4, OthersSettled
  <2>4. CASE AgentSends(c) \/ AgentDrafts(c)
    <3>1. PICK result \in {"drafted", "sent"} : CallsTool(c, result)
      BY <2>4 DEF AgentSends, AgentDrafts
    <3>2. UNCHANGED box
      BY <3>1 DEF CallsTool
    <3>3. (\A d \in Calls \ {c} : call'[d] = call[d]) /\ call'[c].pc = "agent"
      BY <1>1, <3>1, ToolCall
    <3>4. SeenStay
      BY <3>3 DEF SeenStay
    <3>5. QED
      BY <1>1, <3>2, <3>4, OthersSettled
  <2>5. QED
    BY <1>6, <2>1, <2>2, <2>3, <2>4 DEF Step
<1>7. CASE \/ \E m \in Pushed : Forget(m)
           \/ \E m \in Messages : Review(m)
           \/ UNCHANGED vars
  <2>1. UNCHANGED <<box, call>>
    BY <1>7 DEF Forget, Review, vars
  <2>2. QED
    BY <1>1, <2>1, OthersSettled DEF SeenStay
<1>8. CASE Crash
  BY <1>1, <1>8, OthersSettled DEF Crash, SeenStay, Idle
<1>9. QED
  BY <1>2, <1>3, <1>4, <1>5, <1>6, <1>7, <1>8 DEF Next

\* Whatever fails, crashes or overlaps, a message that is marked as seen has a record or
\* was turned away by the pipeline: the flag is set after the record and never without
\* one (sync_unread_mailbox, process_incoming_email).
THEOREM SeenStaysSettled == Spec => []SeenIsSettled
<1>1. Init => SettledInv
  BY TypeInit DEF Init, SettledInv, SeenIsSettled, Idle
<1>2. SettledInv => SeenIsSettled
  BY DEF SettledInv
<1>3. QED
  BY <1>1, <1>2, SettledNext, PTL DEF Spec

-----------------------------------------------------------------------------
(* What is recorded is in force.  The flags of a lead are only ever set,   *)
(* and only a message of a known lead is recorded.                         *)

\* What the message m asks of its lead holds of l.
InForce(m, l) ==
  /\ Intent[m] = "opt_out" => l.out
  /\ Intent[m] # "spam" => l.responded
  /\ Intent[m] = "meeting_confirmation" => l.meeting

\* What RecordedIsHeard needs to be inductive.
HeardInv ==
  /\ TypeInv
  /\ \A m \in Messages : recorded[m] > 0 => From[m] \in Leads /\ InForce(m, lead[From[m]])

(* Only the record of a message touches what is recorded and the leads.    *)
LEMMA RecordOnly ==
  ASSUME [Next]_vars
  PROVE  UNCHANGED <<recorded, lead>> \/ \E c \in Calls : Record(c)
<1>1. CASE \E m \in Polled : Arrive(m)
  BY <1>1 DEF Arrive
<1>2. CASE \E c \in Syncs : Poll(c) \/ Take(c) \/ TakeFails(c)
  BY <1>2 DEF Poll, Take, TakeFails
<1>3. CASE \E c \in Hooks, m \in Pushed : Push(c, m)
  BY <1>3 DEF Push
<1>4. ASSUME NEW c \in Calls, Step(c) \/ AgentRestarts(c)
      PROVE  UNCHANGED <<recorded, lead>> \/ Record(c)
  BY <1>4 DEF Step, Refuse, DraftReply, CallAgent, AgentSends, AgentDrafts, CallsTool,
              AgentEnds, MarkSeen, AgentRestarts
<1>5. CASE (\E m \in Pushed : Forget(m)) \/ (\E m \in Messages : Review(m)) \/ Crash
  BY <1>5 DEF Forget, Review, Crash
<1>6. CASE UNCHANGED vars
  BY <1>6 DEF vars
<1>7. QED
  BY <1>1, <1>2, <1>3, <1>4, <1>5, <1>6 DEF Next

(* A message recorded puts its own request in force and keeps the others'. *)
LEMMA RecordHeard ==
  ASSUME HeardInv, TypeInv', NEW c \in Calls, Record(c)
  PROVE  HeardInv'
<1> DEFINE m == call[c].message
           l == From[m]
           h == Heard(m, call[c].tool = "sent")
<1>1. m \in Messages
  BY NextCall DEF HeardInv, Record, At, Working
<1>2. CASE UNCHANGED <<recorded, lead>>
  BY <1>2 DEF HeardInv, InForce
<1>3. CASE /\ l \in Leads
           /\ recorded' = [recorded EXCEPT ![m] = @ + 1]
           /\ lead' = [lead EXCEPT ![l] = h]
  <2>1. /\ h.out = (lead[l].out \/ Intent[m] = "opt_out")
        /\ h.responded = (lead[l].responded \/ Intent[m] # "spam")
        /\ h.meeting = (lead[l].meeting \/ Intent[m] = "meeting_confirmation")
    <3> DEFINE sent == call[c].tool = "sent"
    <3>1. sent \in BOOLEAN
      OBVIOUS
    <3> HIDE DEF m, sent
    <3>2. QED
      BY <1>1, <1>3, <3>1, HeardLead DEF HeardInv
  <2>2. lead'[l] = h /\ \A k \in Leads \ {l} : lead'[k] = lead[k]
    BY <1>3 DEF HeardInv, TypeInv, RestTypeOK
  <2>3. ASSUME NEW n \in Messages, recorded'[n] > 0
        PROVE  From[n] \in Leads /\ InForce(n, lead'[From[n]])
    <3>1. CASE n = m
      BY <1>3, <2>1, <2>2, <3>1 DEF InForce
    <3>2. CASE n # m
      <4>1. From[n] \in Leads /\ InForce(n, lead[From[n]])
        BY <1>3, <2>3, <3>2 DEF HeardInv, TypeInv, RestTypeOK
      <4>2. QED
        BY <2>1, <2>2, <4>1 DEF InForce
    <3>3. QED
      BY <3>1, <3>2
  <2>4. QED
    BY <2>3 DEF HeardInv, InForce
<1>4. QED
  BY <1>2, <1>3 DEF Record, Known

LEMMA HeardNext == HeardInv /\ [Next]_vars => HeardInv'
<1> SUFFICES ASSUME HeardInv, [Next]_vars PROVE HeardInv'
  OBVIOUS
<1>1. TypeInv'
  BY TypeNext DEF HeardInv
<1>2. CASE UNCHANGED <<recorded, lead>>
  BY <1>1, <1>2 DEF HeardInv, InForce
<1>3. ASSUME NEW c \in Calls, Record(c) PROVE HeardInv'
  BY <1>1, <1>3, RecordHeard
<1>4. QED
  BY <1>2, <1>3, RecordOnly

\* What a recorded message asks for stays in force: no later message of the lead, on
\* whatever call and with or without a reply, takes an opt-out, a response or a meeting
\* back (_update_lead_from_inbound).
THEOREM RecordedStaysHeard == Spec => []RecordedIsHeard
<1>1. Init => HeardInv
  BY TypeInit DEF Init, HeardInv
<1>2. HeardInv => RecordedIsHeard
  BY DEF HeardInv, InForce, RecordedIsHeard
<1>3. QED
  BY <1>1, <1>2, HeardNext, PTL DEF Spec

-----------------------------------------------------------------------------
(* Answers are not repeated.  As long as nothing excuses it, a message has *)
(* one call at most; it is unanswered until that call has a reply drafted  *)
(* or sent, and once it is answered there is always something by which the *)
(* next call recognizes it: the call that works on it still, its record    *)
(* or, for an event of a provider, the memory of the process.              *)

\* The replies to m that were sent or wait for a review.
Answers(m) == mails[m] + (IF draft[m] = "DRAFT" THEN 1 ELSE 0)

\* The call has neither drafted nor sent a reply to its message.
Unstarted(c) == call[c].pc = "models" \/ (call[c].pc = "agent" /\ call[c].tool = "unused")

\* What AnsweredOnce needs of a message to be inductive.
AnswerKept(m) ==
  /\ Answers(m) <= 1
  /\ \A c, d \in WorksOn(m) : c = d
  /\ \A c \in WorksOn(m) : /\ Unstarted(c) => Answers(m) = 0
                           /\ m \in Polled => Known(m)
                           /\ m \in Pushed => m \in memory
  /\ m \in Polled /\ recorded[m] = 0 /\ (\A c \in WorksOn(m) : call[c].pc = "seen")
       => Answers(m) = 0
  /\ m \in Pushed \ memory => Answers(m) = 0

AnswerInv ==
  /\ TypeInv
  /\ \A m \in (Pushed \cup Exact) \ excused : AnswerKept(m)

LEMMA AnswersNat ==
  ASSUME TypeInv, NEW m \in Messages
  PROVE  Answers(m) \in Nat
BY DEF TypeInv, RestTypeOK, Answers

(* No step takes an excuse back.                                           *)
LEMMA ExcusesStay ==
  ASSUME [Next]_vars
  PROVE  excused \subseteq excused'
<1>1. CASE (\E m \in Polled : Arrive(m)) \/ (\E m \in Messages : Review(m))
  BY <1>1 DEF Arrive, Review, history
<1>2. CASE \E c \in Syncs : Poll(c) \/ TakeFails(c)
  BY <1>2 DEF Poll, TakeFails, history
<1>3. ASSUME NEW c \in Syncs, Take(c) PROVE excused \subseteq excused'
  BY <1>3 DEF Take
<1>4. CASE \E c \in Hooks, m \in Pushed : Push(c, m)
  BY <1>4 DEF Push
<1>5. ASSUME NEW c \in Calls, Step(c) \/ AgentRestarts(c) PROVE excused \subseteq excused'
  <2>1. CASE Refuse(c) \/ AgentSends(c) \/ AgentDrafts(c) \/ AgentRestarts(c)
    BY <2>1 DEF Refuse, AgentSends, AgentDrafts, CallsTool, AgentRestarts
  <2>2. CASE DraftReply(c) \/ CallAgent(c) \/ AgentEnds(c) \/ MarkSeen(c)
    BY <2>2 DEF DraftReply, CallAgent, AgentEnds, MarkSeen, history
  <2>3. CASE Record(c)
    BY <2>3 DEF Record
  <2>4. QED
    BY <1>5, <2>1, <2>2, <2>3 DEF Step
<1>6. CASE (\E m \in Pushed : Forget(m)) \/ Crash
  BY <1>6 DEF Forget, Crash
<1>7. CASE UNCHANGED vars
  BY <1>7 DEF vars
<1>8. QED
  BY <1>1, <1>2, <1>3, <1>4, <1>5, <1>6, <1>7 DEF Next

(* A step that leaves the work on n alone and answers it no more often.    *)
LEMMA UntouchedAnswer ==
  ASSUME TypeInv, TypeInv', NEW n \in Messages, AnswerKept(n),
         WorksOn(n)' = WorksOn(n),
         \A d \in WorksOn(n) : call'[d] = call[d],
         Answers(n)' <= Answers(n),
         recorded'[n] = recorded[n],
         n \in memory => n \in memory'
  PROVE  AnswerKept(n)'
<1>1. Answers(n) \in Nat /\ Answers(n)' \in Nat
  <2>1. Answers(n) \in Nat
    BY AnswersNat
  <2>2. mails'[n] \in Nat
    BY DEF TypeInv, RestTypeOK
  <2>3. QED
    BY <2>1, <2>2 DEF Answers
<1>2. Answers(n) = 0 => Answers(n)' = 0
  BY <1>1
<1>3. Answers(n)' <= 1
  BY <1>1 DEF AnswerKept
<1>4. (\A c, d \in WorksOn(n) : c = d)'
  BY DEF AnswerKept
<1>5. (\A c \in WorksOn(n) : /\ Unstarted(c) => Answers(n) = 0
                             /\ n \in Polled => Known(n)
                             /\ n \in Pushed => n \in memory)'
  BY <1>2 DEF AnswerKept, Unstarted, Known
<1>6. (n \in Polled /\ recorded[n] = 0 /\ (\A c \in WorksOn(n) : call[c].pc = "seen")
         => Answers(n) = 0)'
  BY <1>2 DEF AnswerKept
<1>7. (n \in Pushed \ memory => Answers(n) = 0)'
  BY <1>2 DEF AnswerKept
<1>8. QED
  BY <1>3, <1>4, <1>5, <1>6, <1>7 DEF AnswerKept

\* Only the call c does something else after this step.
OnlyCall(c) == \A d \in Calls \ {c} : call'[d] = call[d]

(* A step of a call that works on another message, or on none.             *)
LEMMA OtherAnswer ==
  ASSUME TypeInv, TypeInv', NEW n \in Messages, AnswerKept(n), NEW c \in Calls, OnlyCall(c),
         c \notin WorksOn(n), c \notin WorksOn(n)',
         mails'[n] = mails[n], draft'[n] = draft[n], recorded'[n] = recorded[n],
         n \in memory => n \in memory'
  PROVE  AnswerKept(n)'
<1>1. WorksOn(n)' = WorksOn(n) /\ \A d \in WorksOn(n) : call'[d] = call[d]
  <2>1. \A d \in WorksOn(n) : d \in Calls /\ d # c
    BY DEF WorksOn
  <2>2. \A d \in Calls : d \in WorksOn(n)' <=> d \in WorksOn(n)
    BY DEF WorksOn, OnlyCall
  <2>3. WorksOn(n) \subseteq Calls /\ WorksOn(n)' \subseteq Calls
    BY DEF WorksOn
  <2>4. QED
    BY <2>1, <2>2, <2>3 DEF OnlyCall
<1>2. Answers(n)' = Answers(n) /\ Answers(n) \in Nat
  BY AnswersNat DEF Answers
<1>3. QED
  BY <1>1, <1>2, UntouchedAnswer

(* A step of the call that works on n: it is enough to look at that call.  *)
LEMMA OwnAnswer ==
  ASSUME TypeInv, NEW n \in Messages, AnswerKept(n), NEW c \in WorksOn(n), OnlyCall(c),
         Answers(n)' <= 1,
         c \in WorksOn(n)' /\ Unstarted(c)' => Answers(n)' = 0,
         n \in Polled /\ recorded'[n] = 0 /\ (c \in WorksOn(n)' => call'[c].pc = "seen")
           => Answers(n)' = 0,
         n \in memory => n \in memory'
  PROVE  AnswerKept(n)'
<1>1. WorksOn(n)' \subseteq {c}
  <2>1. ASSUME NEW d \in WorksOn(n)', d # c PROVE FALSE
    <3>1. d \in Calls /\ call'[d] = call[d]
      BY <2>1 DEF WorksOn, OnlyCall
    <3>2. d \in WorksOn(n)
      BY <2>1, <3>1 DEF WorksOn
    <3>3. QED
      BY <2>1, <3>2 DEF AnswerKept
  <2>2. QED
    BY <2>1
<1>2. (n \in Polled => Known(n)) /\ (n \in Pushed => n \in memory')
  BY DEF AnswerKept
<1>3. (\A d, e \in WorksOn(n) : d = e)'
  BY <1>1
<1>4. (\A d \in WorksOn(n) : /\ Unstarted(d) => Answers(n) = 0
                             /\ n \in Polled => Known(n)
                             /\ n \in Pushed => n \in memory)'
  BY <1>1, <1>2 DEF Known
<1>5. (n \in Polled /\ recorded[n] = 0 /\ (\A d \in WorksOn(n) : call[d].pc = "seen")
         => Answers(n) = 0)'
  OBVIOUS
<1>6. (n \in Pushed \ memory => Answers(n) = 0)'
  BY <1>2
<1>7. QED
  BY <1>3, <1>4, <1>5, <1>6 DEF AnswerKept

(* A call takes up a message that no other call works on.                  *)
LEMMA StartAnswer ==
  ASSUME TypeInv, NEW n \in Messages, AnswerKept(n), NEW c \in Calls, OnlyCall(c),
         WorksOn(n) = {}, Answers(n) = 0, Answers(n)' = Answers(n),
         call'[c].pc = "models",
         n \in Polled => Known(n),
         n \in Pushed => n \in memory'
  PROVE  AnswerKept(n)'
<1>1. WorksOn(n)' \subseteq {c}
  BY DEF WorksOn, OnlyCall
<1>2. Answers(n)' = 0
  OBVIOUS
<1>3. (\A d, e \in WorksOn(n) : d = e)'
  BY <1>1
<1>4. (\A d \in WorksOn(n) : /\ Unstarted(d) => Answers(n) = 0
                             /\ n \in Polled => Known(n)
                             /\ n \in Pushed => n \in memory)'
  BY <1>1, <1>2 DEF Known
<1>5. QED
  BY <1>2, <1>3, <1>4 DEF AnswerKept

LEMMA PollAnswer ==
  ASSUME TypeInv, TypeInv', NEW c \in Calls, Poll(c), NEW n \in Messages, AnswerKept(n)
  PROVE  AnswerKept(n)'
<1>1. call[c].pc = "idle" /\ UNCHANGED <<mails, draft, recorded, memory>>
  BY DEF Poll, At, history
<1>2. \E list : call' = [call EXCEPT ![c] = [pc |-> "next", todo |-> list]]
  BY DEF Poll
<1>3. call'[c].pc = "next" /\ OnlyCall(c)
  BY <1>2 DEF OnlyCall, TypeInv
<1>4. c \notin WorksOn(n) /\ c \notin WorksOn(n)'
  BY <1>1, <1>3 DEF WorksOn
<1>5. QED
  BY <1>1, <1>3, <1>4, OtherAnswer

(* What is taken up again was not recorded, and no call works on it.       *)
LEMMA TakeAnswer ==
  ASSUME TypeInv, TypeInv', NEW c \in Calls, Take(c), NEW n \in Pushed \cup Exact,
         AnswerKept(n), n \notin excused'
  PROVE  AnswerKept(n)'
<1> DEFINE m == Head(call[c].todo)
           rest == Tail(call[c].todo)
<1>1. call[c].todo \in Seq(Polled) /\ call[c].todo # <<>> /\ call[c].pc = "next"
  BY DEF Take, At, TypeInv, CallType, Working, Idle
<1>2. m \in Polled /\ m \in Messages
  BY <1>1 DEF Messages
<1>3. UNCHANGED <<mails, draft, recorded, memory>>
  BY DEF Take
<1>4. n \in Messages /\ c \notin WorksOn(n)
  BY <1>1, ConstantsAssumption DEF WorksOn, Messages
<1>5. CASE AlreadyRecorded(m) \/ ~Routed(m)
  <2>1. Skip(c)
    BY <1>5 DEF Take
  <2>2. OnlyCall(c) /\ call'[c].pc \in {"idle", "next"}
    BY <1>1, <2>1, SkipCall DEF OnlyCall
  <2>3. c \notin WorksOn(n)'
    BY <2>2 DEF WorksOn
  <2>4. QED
    BY <1>3, <1>4, <2>2, <2>3, OtherAnswer
<1>6. CASE ~(AlreadyRecorded(m) \/ ~Routed(m))
  <2>1. call' = [call EXCEPT ![c] =
          [pc |-> "models", todo |-> rest, message |-> m, tool |-> "unused"]]
    BY <1>6 DEF Take
  <2>2. OnlyCall(c) /\ call'[c].pc = "models" /\ call'[c].message = m
    BY <2>1 DEF OnlyCall, TypeInv
  <2>3. CASE n # m
    <3>1. c \notin WorksOn(n)'
      BY <2>2, <2>3 DEF WorksOn
    <3>2. QED
      BY <1>3, <1>4, <2>2, <3>1, OtherAnswer
  <2>4. CASE n = m
    <3>1. excused' = IF WorksOn(m) # {} THEN excused \cup {m} ELSE excused
      BY <1>6 DEF Take
    <3>2. WorksOn(n) = {}
      BY <2>4, <3>1
    <3>3. recorded[n] = 0 /\ Known(n)
      <4>1. n \in Exact
        BY <1>2, <2>4, ConstantsAssumption
      <4>2. QED
        BY <1>2, <1>6, <2>4, <4>1 DEF AlreadyRecorded, Routed, Known, TypeInv, RestTypeOK
    <3>4. Answers(n) = 0
      BY <1>2, <2>4, <3>2, <3>3 DEF AnswerKept
    <3>5. Answers(n)' = Answers(n)
      BY <1>3 DEF Answers
    <3>6. n \notin Pushed
      BY <1>2, <2>4, ConstantsAssumption
    <3>7. QED
      BY <1>4, <2>2, <3>2, <3>3, <3>4, <3>5, <3>6, StartAnswer
  <2>5. QED
    BY <2>3, <2>4
<1>7. QED
  BY <1>5, <1>6

(* What a poll fails to take up is left as it was.                         *)
LEMMA TakeFailsAnswer ==
  ASSUME TypeInv, TypeInv', NEW c \in Calls, TakeFails(c), NEW n \in Messages, AnswerKept(n)
  PROVE  AnswerKept(n)'
<1>1. call[c].pc = "next" /\ Skip(c) /\ UNCHANGED <<mails, draft, recorded, memory>>
  BY DEF TakeFails, At, history
<1>2. OnlyCall(c) /\ call'[c].pc \in {"idle", "next"}
  BY <1>1, SkipCall DEF OnlyCall
<1>3. c \notin WorksOn(n) /\ c \notin WorksOn(n)'
  BY <1>1, <1>2 DEF WorksOn
<1>4. QED
  BY <1>1, <1>2, <1>3, OtherAnswer

LEMMA PushAnswer ==
  ASSUME TypeInv, TypeInv', NEW c \in Calls, NEW m \in Pushed, Push(c, m),
         NEW n \in Messages, AnswerKept(n), n \notin excused'
  PROVE  AnswerKept(n)'
<1>1. call[c].pc = "idle" /\ UNCHANGED <<mails, draft, recorded>>
  BY DEF Push, At
<1>2. c \notin WorksOn(n)
  BY <1>1 DEF WorksOn
<1>3. CASE Remembered(m)
  <2>1. UNCHANGED <<memory, call>>
    BY <1>3 DEF Push
  <2>2. OnlyCall(c) /\ c \notin WorksOn(n)'
    BY <1>2, <2>1 DEF OnlyCall, WorksOn
  <2>3. QED
    BY <1>1, <1>2, <2>1, <2>2, OtherAnswer
<1>4. CASE ~Remembered(m)
  <2>1. /\ memory' = memory \cup {m}
        /\ call' = [call EXCEPT ![c] =
             [pc |-> "models", todo |-> <<>>, message |-> m, tool |-> "unused"]]
        /\ excused' = IF WorksOn(m) # {} THEN excused \cup {m} ELSE excused
    BY <1>4 DEF Push
  <2>2. OnlyCall(c) /\ call'[c].pc = "models" /\ call'[c].message = m
    BY <2>1 DEF OnlyCall, TypeInv
  <2>3. CASE n # m
    <3>1. c \notin WorksOn(n)'
      BY <2>2, <2>3 DEF WorksOn
    <3>2. QED
      BY <1>1, <1>2, <2>1, <2>2, <3>1, OtherAnswer
  <2>4. CASE n = m
    <3>1. WorksOn(n) = {} /\ n \in memory'
      BY <2>1, <2>4
    <3>2. Answers(n) = 0
      BY <1>4, <2>4 DEF AnswerKept, Remembered
    <3>3. Answers(n)' = Answers(n)
      BY <1>1 DEF Answers
    <3>4. n \notin Polled
      BY <2>4, ConstantsAssumption
    <3>5. QED
      BY <2>2, <3>1, <3>2, <3>3, <3>4, StartAnswer
  <2>5. QED
    BY <2>3, <2>4
<1>5. QED
  BY <1>3, <1>4

(* What the call of a pipeline step does next.                             *)
LEMMA NextStep ==
  ASSUME TypeInv, NEW c \in Calls, call[c].pc \notin {"idle", "next"},
         NEW n \in Messages
  PROVE  /\ \A pc \in {"models", "agent", "record", "seen"} : Goto(c, pc) =>
              /\ OnlyCall(c)
              /\ call'[c].pc = pc /\ call'[c].message = call[c].message
         /\ Done(c) => OnlyCall(c) /\ c \notin WorksOn(n)'
         /\ c \in WorksOn(n) <=> n = call[c].message
<1>1. call[c] \in Working
  BY NextCall
<1>2. ASSUME NEW pc \in {"models", "agent", "record", "seen"}, Goto(c, pc)
      PROVE  /\ OnlyCall(c)
             /\ call'[c].pc = pc /\ call'[c].message = call[c].message
  BY <1>1, <1>2 DEF Goto, OnlyCall, TypeInv, Working
<1>3. ASSUME Done(c) PROVE OnlyCall(c) /\ c \notin WorksOn(n)'
  <2>1. OnlyCall(c) /\ call'[c].pc \in {"idle", "next"}
    BY <1>3 DEF Done, OnlyCall, TypeInv, Idle
  <2>2. QED
    BY <2>1 DEF WorksOn
<1>4. c \in WorksOn(n) <=> n = call[c].message
  BY DEF WorksOn
<1>5. QED
  BY <1>2, <1>3, <1>4

(* A message that is turned away has no answer yet.                        *)
LEMMA RefuseAnswer ==
  ASSUME TypeInv, TypeInv', NEW c \in Calls, Refuse(c), NEW n \in Messages, AnswerKept(n)
  PROVE  AnswerKept(n)'
<1>1. call[c].pc = "models" /\ UNCHANGED <<mails, draft, recorded, memory>>
  BY DEF Refuse, At
<1>2. OnlyCall(c) /\ (c \in WorksOn(n)' => n = call[c].message /\ call'[c].pc = "seen")
  <2>1. CASE Goto(c, "seen")
    BY <1>1, <2>1, NextStep DEF WorksOn
  <2>2. CASE Done(c)
    BY <1>1, <2>2, NextStep
  <2>3. QED
    BY <2>1, <2>2 DEF Refuse
<1>3. CASE n # call[c].message
  <2>1. c \notin WorksOn(n) /\ c \notin WorksOn(n)'
    BY <1>2, <1>3 DEF WorksOn
  <2>2. QED
    BY <1>1, <1>2, <2>1, OtherAnswer
<1>4. CASE n = call[c].message
  <2>1. c \in WorksOn(n)
    BY <1>1, <1>4, NextStep
  <2>2. Answers(n)' = 0
    BY <1>1, <2>1 DEF AnswerKept, Unstarted, Answers
  <2>3. QED
    BY <1>1, <1>2, <2>1, <2>2, OwnAnswer
<1>5. QED
  BY <1>3, <1>4

(* A reply is drafted for a message that has no answer yet.                *)
LEMMA DraftReplyAnswer ==
  ASSUME TypeInv, TypeInv', NEW c \in Calls, DraftReply(c), NEW n \in Messages,
         AnswerKept(n)
  PROVE  AnswerKept(n)'
<1> DEFINE m == call[c].message
<1>1. call[c].pc = "models" /\ UNCHANGED <<mails, recorded, memory>>
  BY DEF DraftReply, At, history
<1>2. OnlyCall(c) /\ call'[c].pc = "record" /\ call'[c].message = m
  BY <1>1, NextStep DEF DraftReply
<1>3. CASE n # m
  <2>1. c \notin WorksOn(n) /\ c \notin WorksOn(n)'
    BY <1>2, <1>3 DEF WorksOn
  <2>2. draft'[n] = draft[n]
    BY <1>3 DEF DraftReply, Drafted, TypeInv, RestTypeOK
  <2>3. QED
    BY <1>1, <1>2, <2>1, <2>2, OtherAnswer
<1>4. CASE n = m
  <2>1. c \in WorksOn(n)
    BY <1>1, <1>4, NextStep
  <2>2. Answers(n) = 0 /\ mails[n] \in Nat
    BY <1>1, <2>1 DEF AnswerKept, Unstarted, TypeInv, RestTypeOK
  <2>3. mails[n] = 0
    BY <2>2 DEF Answers
  <2>4. Answers(n)' <= 1
    BY <1>1, <2>3 DEF Answers
  <2>5. ~Unstarted(c)' /\ c \in WorksOn(n)' /\ call'[c].pc # "seen"
    BY <1>2, <1>4 DEF Unstarted, WorksOn
  <2>6. QED
    BY <1>1, <1>2, <2>1, <2>4, <2>5, OwnAnswer
<1>5. QED
  BY <1>3, <1>4

(* The agent is called, and ends.                                          *)
LEMMA AgentAnswer ==
  ASSUME TypeInv, TypeInv', NEW c \in Calls, CallAgent(c) \/ AgentEnds(c),
         NEW n \in Messages, AnswerKept(n)
  PROVE  AnswerKept(n)'
<1> DEFINE m == call[c].message
<1>1. call[c].pc \in {"models", "agent"} /\ UNCHANGED <<mails, draft, recorded, memory>>
  BY DEF CallAgent, AgentEnds, At, history
<1>2. OnlyCall(c) /\ call'[c].pc \in {"agent", "record"} /\ call'[c].message = m
  BY <1>1, NextStep DEF CallAgent, AgentEnds
<1>3. CASE n # m
  <2>1. c \notin WorksOn(n) /\ c \notin WorksOn(n)'
    BY <1>2, <1>3 DEF WorksOn
  <2>2. QED
    BY <1>1, <1>2, <2>1, OtherAnswer
<1>4. CASE n = m
  <2>1. c \in WorksOn(n) /\ c \in WorksOn(n)'
    BY <1>1, <1>2, <1>4, NextStep DEF WorksOn
  <2>2. /\ Answers(n) <= 1 /\ (Unstarted(c) => Answers(n) = 0)
        /\ Answers(n)' = Answers(n)
    BY <1>1, <2>1 DEF AnswerKept, Answers
  <2>3. Unstarted(c)' => Unstarted(c)
    <3>1. CASE CallAgent(c)
      BY <3>1 DEF CallAgent, At, Unstarted
    <3>2. CASE AgentEnds(c)
      <4>1. call'[c].pc = "record"
        BY <1>1, <3>2, NextStep DEF AgentEnds
      <4>2. QED
        BY <4>1 DEF Unstarted
    <3>3. QED
      BY <3>1, <3>2
  <2>4. QED
    BY <1>1, <1>2, <2>1, <2>2, <2>3, OwnAnswer
<1>5. QED
  BY <1>3, <1>4

(* The first call of the tool answers a message that has no answer yet;    *)
(* another one is excused.                                                 *)
LEMMA ToolAnswer ==
  ASSUME TypeInv, TypeInv', NEW c \in Calls, AgentSends(c) \/ AgentDrafts(c),
         NEW n \in Messages, AnswerKept(n), n \notin excused'
  PROVE  AnswerKept(n)'
<1> DEFINE m == call[c].message
<1>1. PICK result \in {"drafted", "sent"} : CallsTool(c, result)
  BY DEF AgentSends, AgentDrafts
<1>2. /\ m \in Messages /\ call[c].pc = "agent"
      /\ OnlyCall(c) /\ call'[c].pc = "agent" /\ call'[c].message = m
      /\ call'[c].tool # "unused"
      /\ call[c].tool # "unused" => m \in excused'
  BY <1>1, ToolCall DEF OnlyCall
<1>3. UNCHANGED <<recorded, memory>>
  BY <1>1 DEF CallsTool
<1>4. \/ mails' = [mails EXCEPT ![m] = mails[m] + 1] /\ draft' = draft
      \/ mails' = mails /\ draft' = Drafted(m)
  BY DEF AgentSends, AgentDrafts
<1>5. CASE n # m
  <2>1. c \notin WorksOn(n) /\ c \notin WorksOn(n)'
    BY <1>2, <1>5 DEF WorksOn
  <2>2. mails'[n] = mails[n] /\ draft'[n] = draft[n]
    BY <1>2, <1>4, <1>5 DEF Drafted, TypeInv, RestTypeOK
  <2>3. QED
    BY <1>2, <1>3, <2>1, <2>2, OtherAnswer
<1>6. CASE n = m
  <2>1. c \in WorksOn(n) /\ c \in WorksOn(n)'
    BY <1>2, <1>6 DEF WorksOn
  <2>2. call[c].tool = "unused"
    BY <1>2, <1>6
  <2>3. Answers(n) = 0 /\ mails[n] \in Nat
    BY <1>2, <2>1, <2>2 DEF AnswerKept, Unstarted, TypeInv, RestTypeOK
  <2>4. mails[n] = 0 /\ draft[n] # "DRAFT"
    BY <2>3 DEF Answers
  <2>5. Answers(n)' <= 1
    <3>1. CASE mails' = [mails EXCEPT ![m] = mails[m] + 1] /\ draft' = draft
      BY <1>6, <2>4, <3>1 DEF Answers, TypeInv, RestTypeOK
    <3>2. CASE mails' = mails
      BY <2>4, <3>2 DEF Answers
    <3>3. QED
      BY <1>4, <3>1, <3>2
  <2>6. ~Unstarted(c)' /\ call'[c].pc # "seen"
    BY <1>2 DEF Unstarted
  <2>7. QED
    BY <1>2, <1>3, <2>1, <2>5, <2>6, OwnAnswer
<1>7. QED
  BY <1>5, <1>6

(* The record of a message keeps it from being answered again; it fails to *)
(* only where that is excused, or where no poll would take it up.          *)
LEMMA RecordAnswer ==
  ASSUME TypeInv, TypeInv', NEW c \in Calls, Record(c), NEW n \in Messages, AnswerKept(n),
         n \notin excused'
  PROVE  AnswerKept(n)'
<1> DEFINE m == call[c].message
<1>1. call[c].pc = "record" /\ UNCHANGED <<mails, draft, memory>>
  BY DEF Record, At
<1>2. OnlyCall(c) /\ (c \in WorksOn(n)' => n = m /\ call'[c].pc = "seen")
  <2>1. CASE Goto(c, "seen")
    BY <1>1, <2>1, NextStep DEF WorksOn
  <2>2. CASE Done(c)
    BY <1>1, <2>2, NextStep
  <2>3. QED
    BY <2>1, <2>2 DEF Record
<1>3. \/ Known(m) /\ recorded' = [recorded EXCEPT ![m] = recorded[m] + 1]
      \/ ~Known(m) /\ recorded' = recorded
      \/ m \in excused' /\ recorded' = recorded
  BY DEF Record, TypeInv, RestTypeOK
<1>4. CASE n # m
  <2>1. c \notin WorksOn(n) /\ c \notin WorksOn(n)'
    BY <1>2, <1>4 DEF WorksOn
  <2>2. recorded'[n] = recorded[n]
    BY <1>3, <1>4 DEF TypeInv, RestTypeOK
  <2>3. QED
    BY <1>1, <1>2, <2>1, <2>2, OtherAnswer
<1>5. CASE n = m
  <2>1. c \in WorksOn(n)
    BY <1>1, <1>5, NextStep
  <2>2. n \in Polled => recorded'[n] # 0
    <3>1. ASSUME n \in Polled PROVE Known(n)
      BY <2>1, <3>1 DEF AnswerKept
    <3>2. QED
      BY <1>3, <1>5, <3>1 DEF TypeInv, RestTypeOK
  <2>3. Answers(n)' = Answers(n) /\ Answers(n) <= 1
    BY <1>1 DEF AnswerKept, Answers
  <2>4. c \in WorksOn(n)' => ~Unstarted(c)'
    BY <1>2 DEF Unstarted
  <2>5. QED
    BY <1>1, <1>2, <2>1, <2>2, <2>3, <2>4, OwnAnswer
<1>6. QED
  BY <1>4, <1>5

LEMMA MarkSeenAnswer ==
  ASSUME TypeInv, TypeInv', NEW c \in Calls, MarkSeen(c), NEW n \in Messages, AnswerKept(n)
  PROVE  AnswerKept(n)'
<1>1. call[c].pc = "seen" /\ UNCHANGED <<mails, draft, recorded, memory>>
  BY DEF MarkSeen, At, history
<1>2. OnlyCall(c) /\ c \notin WorksOn(n)'
  BY <1>1, NextStep DEF MarkSeen
<1>3. CASE c \notin WorksOn(n)
  BY <1>1, <1>2, <1>3, OtherAnswer
<1>4. CASE c \in WorksOn(n)
  <2>1. \A d \in WorksOn(n) : call[d].pc = "seen"
    BY <1>1, <1>4 DEF AnswerKept
  <2>2. Answers(n)' = Answers(n) /\ Answers(n) <= 1
    BY <1>1 DEF AnswerKept, Answers
  <2>3. n \in Polled /\ recorded[n] = 0 => Answers(n)' = 0
    BY <2>1, <2>2 DEF AnswerKept
  <2>4. QED
    BY <1>1, <1>2, <1>4, <2>2, <2>3, OwnAnswer
<1>5. QED
  BY <1>3, <1>4

(* A review sends what was drafted, or gives it up.                        *)
LEMMA ReviewAnswer ==
  ASSUME TypeInv, TypeInv', NEW m \in Messages, Review(m), NEW n \in Messages, AnswerKept(n)
  PROVE  AnswerKept(n)'
<1>1. UNCHANGED <<call, recorded, memory>> /\ draft[m] = "DRAFT"
  BY DEF Review
<1>2. WorksOn(n)' = WorksOn(n)
  BY <1>1 DEF WorksOn
<1>3. mails[n] \in Nat
  BY DEF TypeInv, RestTypeOK
<1>4. Answers(n)' <= Answers(n)
  <2>1. \/ /\ draft' = [draft EXCEPT ![m] = "SENT"]
           /\ mails' = [mails EXCEPT ![m] = mails[m] + 1]
        \/ draft' = [draft EXCEPT ![m] = "none"] /\ mails' = mails
    BY DEF Review
  <2>2. CASE n = m
    BY <1>1, <1>3, <2>1, <2>2 DEF Answers, TypeInv, RestTypeOK
  <2>3. CASE n # m
    BY <1>3, <2>1, <2>3 DEF Answers, TypeInv, RestTypeOK
  <2>4. QED
    BY <2>2, <2>3
<1>5. QED
  BY <1>1, <1>2, <1>4, UntouchedAnswer

(* A crash excuses what was worked on or remembered.                       *)
LEMMA CrashAnswer ==
  ASSUME TypeInv, TypeInv', Crash, NEW n \in Messages, AnswerKept(n), n \notin excused'
  PROVE  AnswerKept(n)'
<1>1. UNCHANGED <<mails, draft, recorded>>
  BY DEF Crash
<1>2. WorksOn(n) = {} /\ n \notin memory
  BY DEF Crash
<1>3. WorksOn(n)' = {}
  BY DEF Crash, WorksOn, Idle
<1>4. Answers(n)' <= Answers(n)
  BY <1>1, AnswersNat DEF Answers
<1>5. QED
  BY <1>1, <1>2, <1>3, <1>4, UntouchedAnswer

LEMMA AnswerNext == AnswerInv /\ [Next]_vars => AnswerInv'
<1> SUFFICES ASSUME AnswerInv, [Next]_vars PROVE AnswerInv'
  OBVIOUS
<1>1. TypeInv /\ TypeInv'
  BY TypeNext DEF AnswerInv
<1>2. SUFFICES ASSUME NEW n \in Pushed \cup Exact, n \notin excused' PROVE AnswerKept(n)'
  BY <1>1 DEF AnswerInv
<1>3. AnswerKept(n) /\ n \in Messages
  BY <1>2, ExcusesStay, ConstantsAssumption DEF AnswerInv, Messages
<1>4. ASSUME NEW m \in Polled, Arrive(m) PROVE AnswerKept(n)'
  <2>1. UNCHANGED <<call, mails, draft, recorded, memory>>
    BY <1>4 DEF Arrive, history
  <2>2. WorksOn(n)' = WorksOn(n) /\ Answers(n)' <= Answers(n)
    BY <1>1, <1>3, <2>1, AnswersNat DEF WorksOn, Answers
  <2>3. QED
    BY <1>1, <1>3, <2>1, <2>2, UntouchedAnswer
<1>5. ASSUME NEW c \in Syncs, Poll(c) \/ Take(c) \/ TakeFails(c) PROVE AnswerKept(n)'
  BY <1>1, <1>2, <1>3, <1>5, PollAnswer, TakeAnswer, TakeFailsAnswer DEF Calls
<1>6. ASSUME NEW c \in Hooks, NEW m \in Pushed, Push(c, m) PROVE AnswerKept(n)'
  BY <1>1, <1>2, <1>3, <1>6, PushAnswer DEF Calls
<1>7. ASSUME NEW c \in Calls, AgentRestarts(c) PROVE AnswerKept(n)'
  <2>1. call[c].pc = "agent" /\ UNCHANGED <<mails, draft, recorded, memory>>
    BY <1>7 DEF AgentRestarts, At
  <2>2. call[c] \in Working /\ n # call[c].message
    BY <1>1, <1>2, <1>7, <2>1, NextCall DEF AgentRestarts
  <2>3. call' = [call EXCEPT ![c] = [call[c] EXCEPT !.tool = "unused"]]
    BY <1>1, <1>7 DEF AgentRestarts, TypeInv
  <2>4. OnlyCall(c) /\ call'[c].message = call[c].message
    BY <1>1, <2>2, <2>3 DEF OnlyCall, TypeInv, Working
  <2>5. c \notin WorksOn(n) /\ c \notin WorksOn(n)'
    BY <2>2, <2>4 DEF WorksOn
  <2>6. QED
    BY <1>1, <1>3, <2>1, <2>4, <2>5, OtherAnswer
<1>8. ASSUME NEW c \in Calls, Step(c) PROVE AnswerKept(n)'
  BY <1>1, <1>2, <1>3, <1>8, RefuseAnswer, DraftReplyAnswer, AgentAnswer, ToolAnswer,
     RecordAnswer, MarkSeenAnswer DEF Step
<1>9. ASSUME NEW m \in Pushed, Forget(m) PROVE AnswerKept(n)'
  <2>1. UNCHANGED <<call, mails, draft, recorded>> /\ n # m /\ memory' = memory \ {m}
    BY <1>2, <1>9 DEF Forget
  <2>2. WorksOn(n)' = WorksOn(n) /\ Answers(n)' <= Answers(n)
    BY <1>1, <1>3, <2>1, AnswersNat DEF WorksOn, Answers
  <2>3. QED
    BY <1>1, <1>3, <2>1, <2>2, UntouchedAnswer
<1>10. ASSUME NEW m \in Messages, Review(m) PROVE AnswerKept(n)'
  BY <1>1, <1>3, <1>10, ReviewAnswer
<1>11. CASE Crash
  BY <1>1, <1>2, <1>3, <1>11, CrashAnswer
<1>12. CASE UNCHANGED vars
  <2>1. UNCHANGED <<call, mails, draft, recorded, memory>>
    BY <1>12 DEF vars
  <2>2. WorksOn(n)' = WorksOn(n) /\ Answers(n)' <= Answers(n)
    BY <1>1, <1>3, <2>1, AnswersNat DEF WorksOn, Answers
  <2>3. QED
    BY <1>1, <1>3, <2>1, <2>2, UntouchedAnswer
<1>13. QED
  BY <1>4, <1>5, <1>6, <1>7, <1>8, <1>9, <1>10, <1>11, <1>12 DEF Next

\* A message is answered once, a draft that waits included, whatever polls, webhooks and
\* reviews do, unless two calls worked on it at once, a crash cut its work short, its
\* record failed, the agent was restarted or called its tool again, or the process forgot
\* the event: a poll recognizes the record (sync_unread_mailbox) and a webhook the event
\* it remembers.  Nothing is said of a polled message that writes the address of its lead
\* in another way than it is stored, for which no record is made.
THEOREM AnswersOnlyOnce == Spec => []AnsweredOnce
<1>1. Init => AnswerInv
  <2>1. SUFFICES ASSUME Init PROVE AnswerInv
    OBVIOUS
  <2>2. ASSUME NEW n \in Messages PROVE Answers(n) = 0 /\ WorksOn(n) = {}
    BY <2>1 DEF Init, Answers, WorksOn, Idle
  <2>3. Pushed \cup Exact \subseteq Messages
    BY ConstantsAssumption DEF Messages
  <2>4. QED
    BY <2>1, <2>2, <2>3, TypeInit DEF AnswerInv, AnswerKept
<1>2. AnswerInv => AnsweredOnce
  BY DEF AnswerInv, AnswerKept, Answers, AnsweredOnce
<1>3. QED
  BY <1>1, <1>2, AnswerNext, PTL DEF Spec
=============================================================================
