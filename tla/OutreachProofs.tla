---------------------------- MODULE OutreachProofs ----------------------------
(* Theorems about Outreach, for every value of its constants.  Those that  *)
(* need the event loop of a single process say so: OneLoop.                *)
EXTENDS Outreach, FiniteSetTheorems, WellFoundedInduction, TLAPS

-----------------------------------------------------------------------------
(* Types.                                                                  *)

Finding == [code: {"halt", "step", "skip"}, step: Nat, channel: Channels, linked: BOOLEAN]

Claim == [code: {"halt", "step", "skip"}, sent: Nat, skipped: SUBSET SkipRow, next: Finding]

Waiting == [pc: {"idle", "next"}, todo: SUBSET Leads, seen: [Leads -> LeadStatuses],
            left: Nat, auto: BOOLEAN]

Reserving == [pc: {"reserve"}, todo: SUBSET Leads, seen: [Leads -> LeadStatuses],
              left: Nat, auto: BOOLEAN, lead: Leads, found: Claim]

Working == [pc: {"generate", "record", "touch"}, todo: SUBSET Leads,
            seen: [Leads -> LeadStatuses], left: Nat, auto: BOOLEAN,
            lead: Leads, row: Nat \ {0}]

Row(l, i) == msgs[l][i]

\* The columns, the runs and the counters; a batch that is not full has room for the
\* claim at hand, and a lead is not worked on twice by a run.
ColumnsOK ==
  /\ lead \in [Leads -> [status: LeadStatuses, out: BOOLEAN, reach: SUBSET Channels]]
  /\ cl \in [Leads -> [member: BOOLEAN, sent: Nat, responded: BOOLEAN, meeting: BOOLEAN]]
  /\ msgs \in [Leads -> Seq(Message)] /\ \A l \in Leads : Len(msgs[l]) <= MaxRows
  /\ skips \in [Leads -> SUBSET SkipRow]
  /\ seqs \in [Steps -> Channels \cup {"none"}]
  /\ steps \in [Steps -> {"active", "inactive", "none"}]
  /\ base \in [Leads -> Nat] /\ late \in [Leads -> Nat]
  /\ mails \in [Leads -> [Steps -> Nat]]
  /\ starts \in Nat /\ ops \in Nat /\ faults \in Nat

RunsOK ==
  /\ run \in [Runs -> Waiting \cup Reserving \cup Working]
  /\ \A r \in Runs :
       /\ run[r].pc = "idle" => run[r].todo = {}
       /\ run[r].pc = "reserve" => run[r].left > 0 /\ run[r].lead \notin run[r].todo
       /\ run[r].pc \in {"generate", "record", "touch"} =>
            /\ run[r].row \in DOMAIN msgs[run[r].lead]
            /\ run[r].lead \notin run[r].todo

\* A row stays reserved while a run works on it, and no other run does.
Owns(r, l, i) ==
  run[r].pc \in {"generate", "record"} /\ run[r].lead = l /\ run[r].row = i

OwnersOK ==
  /\ \A r \in Runs : run[r].pc \in {"generate", "record"} =>
       MyRow(r).status = "GENERATING" /\ ~ MyRow(r).followup
  /\ \A r \in Runs : run[r].pc = "record" => Sends(r)
  /\ \A r, q \in Runs :
       run[r].pc \in {"generate", "record"} /\ Owns(q, run[r].lead, run[r].row) => r = q

\* No change of the sequence has been left or seen half done: its two tables agree.
Whole == OneLoop /\ faults = 0

\* What the searches for a next step go by.
LinksOK ==
  /\ \A l \in Leads : \A i \in DOMAIN msgs[l] :
       ~ Row(l, i).linked => (Whole => Row(l, i).step = 1) /\ ~ Row(l, i).followup
  /\ Whole => \A n \in Steps : seqs[n] # "none" => steps[n] # "none"
  /\ \A l \in Leads : ~ cl[l].member => cl[l] = NoMember
  /\ \A l \in Leads : base[l] <= Len(msgs[l])

\* Steps that were found are steps; those without a link are the first, unless a change
\* of the sequence is half done.
FoundOK ==
  \A r \in Runs : run[r].pc = "reserve" /\ run[r].found.code = "step" =>
    /\ run[r].found.next.step \in Steps
    /\ Whole /\ ~ run[r].found.next.linked => run[r].found.next.step = 1

TypeInv == ColumnsOK /\ RunsOK /\ OwnersOK /\ LinksOK /\ FoundOK

-----------------------------------------------------------------------------
(* The order of touches.                                                   *)

\* A touch of a run, and a follow-up that was sent.
OwnTouch(l, i) == Row(l, i).status \in Live /\ ~ Row(l, i).followup
SentFollowup(l, i) == Row(l, i).status = "SENT" /\ Row(l, i).followup

\* The order of two steps, as long as the sequence is whole.
Earlier(m, n) == Whole => m < n

\* Touches of runs since k were sent, and were of earlier steps than j.
Behind(l, k, j) ==
  \A i \in DOMAIN msgs[l] : k < i /\ i < j /\ OwnTouch(l, i) =>
    Row(l, i).status = "SENT" /\ Earlier(Row(l, i).step, Row(l, j).step)

\* A follow-up of an earlier step that hid the touches before it from the claim of j.
Hides(l, k, j) ==
  /\ k < j /\ SentFollowup(l, k) /\ Earlier(Row(l, k).step, Row(l, j).step)
  /\ Behind(l, k, j)

Ordered(l, j) == Behind(l, 0, j) \/ \E k \in DOMAIN msgs[l] : Hides(l, k, j)

Sequenced == \A l \in Leads : \A j \in DOMAIN msgs[l] : OwnTouch(l, j) => Ordered(l, j)

\* A step fits behind the touches of a lead.
FitsBehind(l, n) ==
  \A t \in Touches(l) : (\A j \in Touches(l) : j <= t) =>
    Row(l, t).status = "SENT" /\ Earlier(Row(l, t).step, n)

\* What a claim has found is true until it reserves.
ClaimsFit ==
  \A r \in Runs : run[r].pc = "reserve" /\ run[r].found.code = "step" =>
    ~ Halted(run[r].lead) /\ FitsBehind(run[r].lead, run[r].found.next.step)

-----------------------------------------------------------------------------
(* Counts.                                                                 *)

\* The mails of a step: those on record, and those about to be recorded.
Gone(l, n) ==
  {i \in DOMAIN msgs[l] : /\ Row(l, i).step = n
                          /\ \/ Row(l, i).status = "SENT"
                             \/ \E r \in Runs : run[r].pc = "record" /\ Owns(r, l, i)}

MailsCounted ==
  faults = 0 => \A l \in Leads, n \in Steps : mails[l][n] = Cardinality(Gone(l, n))

\* The rows that may still reach a lead.
Open(l) ==
  {i \in DOMAIN msgs[l] : \/ Row(l, i).status = "DRAFT"
                          \/ \E r \in Runs : run[r].pc = "generate" /\ Owns(r, l, i)}

HaltsCounted ==
  \A l \in Leads :
    /\ ~ Halted(l) => late[l] = 0
    /\ late[l] + Cardinality(Open(l)) <= 1 + Cardinality(Followed(l))

\* The touches of runs that the counter of a lead stands for, and the runs that have
\* yet to count theirs.
InHand(l, i) ==
  \E r \in Runs : run[r].pc \in {"generate", "record", "touch"}
                  /\ run[r].lead = l /\ run[r].row = i

Counted(l) ==
  {i \in Since(l) : /\ Row(l, i).status \in {"DRAFT", "SENT"}
                    /\ ~ Row(l, i).followup /\ ~ InHand(l, i)}

Busy(l) ==
  {r \in Runs : \/ l \in run[r].todo
                \/ run[r].pc \notin {"idle", "next"} /\ run[r].lead = l}

TouchesCounted ==
  faults = 0 =>
    \A l \in Leads :
      /\ cl[l].sent < MaxEmails => Cardinality(Counted(l)) <= cl[l].sent
      /\ Cardinality(Counted(l)) + Cardinality(Busy(l)) <= MaxEmails + Cardinality(Runs) - 1
-----------------------------------------------------------------------------
(* The last and the first of finitely many numbers.                        *)

(* Finitely many numbers have a greatest one: by the sets of greater ones, *)
(* of which one is minimal.                                                *)
LEMMA HasLast ==
  ASSUME NEW S \in SUBSET Nat, IsFiniteSet(S), S # {}
  PROVE  \E m \in S : \A k \in S : k <= m
<1> DEFINE Above(i) == {j \in S : j > i}
           T == {Above(i) : i \in S}
<1>1. \A i \in S : Above(i) \in FiniteSubsetsOf(S)
  BY FS_Subset DEF FiniteSubsetsOf
<1>2. T \subseteq FiniteSubsetsOf(S) /\ T # {}
  BY <1>1
<1>3. PICK U \in T : \A V \in T : ~ (<<V, U>> \in StrictSubsetOrdering(S))
  BY <1>2, WFMin, FS_StrictSubsetOrderingWellFounded
<1>4. PICK m \in S : U = Above(m)
  BY <1>3
<1>5. ASSUME NEW k \in S, k > m PROVE FALSE
  <2>1. Above(k) \subseteq Above(m) /\ Above(k) # Above(m)
    <3>1. k \in Above(m) /\ k \notin Above(k)
      BY <1>5
    <3>2. \A j \in S : j > k => j > m
      BY <1>5
    <3>3. QED
      BY <3>1, <3>2
  <2>2. <<Above(k), Above(m)>> \in StrictSubsetOrdering(S)
    BY <2>1, <1>1 DEF StrictSubsetOrdering, FiniteSubsetsOf
  <2>3. QED
    BY <2>2, <1>3, <1>4
<1>6. QED
  BY <1>5

(* And a least one.                                                        *)
LEMMA HasFirst ==
  ASSUME NEW S \in SUBSET Nat, IsFiniteSet(S), S # {}
  PROVE  \E m \in S : \A k \in S : m <= k
<1> DEFINE Below(i) == {j \in S : j < i}
           T == {Below(i) : i \in S}
<1>1. \A i \in S : Below(i) \in FiniteSubsetsOf(S)
  BY FS_Subset DEF FiniteSubsetsOf
<1>2. T \subseteq FiniteSubsetsOf(S) /\ T # {}
  BY <1>1
<1>3. PICK U \in T : \A V \in T : ~ (<<V, U>> \in StrictSubsetOrdering(S))
  BY <1>2, WFMin, FS_StrictSubsetOrderingWellFounded
<1>4. PICK m \in S : U = Below(m)
  BY <1>3
<1>5. ASSUME NEW k \in S, k < m PROVE FALSE
  <2>1. Below(k) \subseteq Below(m) /\ Below(k) # Below(m)
    <3>1. k \in Below(m) /\ k \notin Below(k)
      BY <1>5
    <3>2. \A j \in S : j < k => j < m
      BY <1>5
    <3>3. QED
      BY <3>1, <3>2
  <2>2. <<Below(k), Below(m)>> \in StrictSubsetOrdering(S)
    BY <2>1, <1>1 DEF StrictSubsetOrdering, FiniteSubsetsOf
  <2>3. QED
    BY <2>2, <1>3, <1>4
<1>6. QED
  BY <1>5

-----------------------------------------------------------------------------
(* Rows of a lead.                                                         *)

(* The rows of a lead are numbered, and finitely many.                     *)
LEMMA RowsAreNumbered ==
  ASSUME ColumnsOK, NEW l \in Leads
  PROVE  /\ Len(msgs[l]) \in Nat /\ DOMAIN msgs[l] = 1 .. Len(msgs[l])
         /\ \A i \in DOMAIN msgs[l] : Row(l, i) \in Message
         /\ \A S \in SUBSET DOMAIN msgs[l] :
              IsFiniteSet(S) /\ S \in SUBSET Nat /\ Cardinality(S) \in Nat
<1>1. msgs[l] \in Seq(Message)
  BY DEF ColumnsOK
<1>2. Len(msgs[l]) \in Nat /\ DOMAIN msgs[l] = 1 .. Len(msgs[l])
  BY <1>1
<1>3. \A i \in DOMAIN msgs[l] : Row(l, i) \in Message
  BY <1>1, <1>2 DEF Row
<1>4. IsFiniteSet(DOMAIN msgs[l])
  BY <1>2, FS_Interval
<1>5. QED
  BY <1>2, <1>3, <1>4, FS_Subset, FS_CardinalityType

(* The last touch of a lead is one of its rows.                            *)
LEMMA LastTouchIsLast ==
  ASSUME ColumnsOK, NEW l \in Leads, Touches(l) # {}
  PROVE  \E t \in Touches(l) : /\ LastTouch(l) = Row(l, t)
                               /\ \A j \in Touches(l) : j <= t
<1>1. Touches(l) \subseteq DOMAIN msgs[l]
  BY DEF Touches
<1>2. \E t \in Touches(l) : \A j \in Touches(l) : j <= t
  BY <1>1, RowsAreNumbered, HasLast
<1>3. QED
  BY <1>2 DEF LastTouch, Row

(* The first step of a channel is a number.                                *)
LEMMA InferredIsNat ==
  ASSUME NEW c
  PROVE  Inferred(c) \in Nat
<1> DEFINE S == {n \in Steps : seqs[n] = c}
<1>1. Len(Channel) \in Nat
  BY ConstantsAssumption
<1>2. S \in SUBSET Nat /\ IsFiniteSet(S)
  <2>1. IsFiniteSet(Steps) /\ Steps \subseteq Nat
    BY <1>1, FS_Interval DEF Steps
  <2>2. S \in SUBSET Steps
    OBVIOUS
  <2>3. QED
    BY <2>1, <2>2, FS_Subset
<1>3. CASE S = {}
  BY <1>3 DEF Inferred, Min0
<1>4. CASE S # {}
  <2>1. \E m \in S : \A k \in S : m <= k
    BY <1>2, <1>4, HasFirst
  <2>2. QED
    BY <1>2, <1>4, <2>1 DEF Inferred, Min0
<1>5. QED
  BY <1>3, <1>4

-----------------------------------------------------------------------------
(* What the search for a next step finds.                                  *)

(* The number of the next step, and that it is behind the last touch, if   *)
(* that was sent.                                                          *)
LEMMA NextNumberFits ==
  ASSUME ColumnsOK, LinksOK, NEW l \in Leads, NEW sent \in Nat
  PROVE  /\ NextNumber(l, sent) \in Nat \ {0}
         /\ ~ MustWait(l) => FitsBehind(l, NextNumber(l, sent))
<1>1. CASE Touches(l) = {}
  BY <1>1 DEF NextNumber, FitsBehind
<1>2. CASE Touches(l) # {}
  <2>1. PICK t \in Touches(l) : /\ LastTouch(l) = Row(l, t)
                               /\ \A j \in Touches(l) : j <= t
    BY <1>2, LastTouchIsLast
  <2>2. t \in DOMAIN msgs[l] /\ Row(l, t) \in Message /\ Touches(l) \subseteq Nat
    BY <2>1, RowsAreNumbered DEF Touches
  <2> DEFINE Sent == {i \in Touches(l) : msgs[l][i].status = "SENT"}
  <2>3. IsFiniteSet(Sent) /\ Cardinality(Sent) \in Nat
    BY RowsAreNumbered DEF Touches
  <2>4. Row(l, t).status = "SENT" => Cardinality(Sent) # 0
    <3>1. Row(l, t).status = "SENT" => t \in Sent
      BY <2>1 DEF Row
    <3>2. QED
      BY <2>3, <3>1, FS_EmptySet
  <2>5. /\ Row(l, t).step \in Nat /\ Row(l, t).step > 0
        /\ Whole /\ ~ Row(l, t).linked => Row(l, t).step = 1
    BY <2>2, ConstantsAssumption DEF Message, Steps, LinksOK
  <2>6. Inferred(Row(l, t).channel) \in Nat
    BY InferredIsNat
  <2> DEFINE n == NextNumber(l, sent)
  <2>7. n = 1 + (IF Row(l, t).linked THEN Row(l, t).step
                 ELSE IF sent > 0 THEN sent
                 ELSE IF Inferred(Row(l, t).channel) > 0 THEN Inferred(Row(l, t).channel)
                 ELSE Cardinality(Sent))
    BY <1>2, <2>1 DEF NextNumber
  <2>8. n \in Nat \ {0} /\ (Row(l, t).status = "SENT" => Earlier(Row(l, t).step, n))
    BY <2>3, <2>4, <2>5, <2>6, <2>7 DEF Earlier
  <2>9. \A u \in Touches(l) : (\A j \in Touches(l) : j <= u) => u = t
    BY <2>1, <2>2
  <2>10. ~ MustWait(l) => Row(l, t).status = "SENT"
    BY <1>2, <2>1 DEF MustWait
  <2>11. QED
    BY <2>8, <2>9, <2>10 DEF FitsBehind
<1>3. QED
  BY <1>1, <1>2

(* A step that is found.                                                   *)
Good(l, f) ==
  f.code = "step" => /\ f.step \in Steps
                     /\ Whole /\ ~ f.linked => f.step = 1
                     /\ ~ Halted(l) /\ FitsBehind(l, f.step)

(* What a search of one round answers is a finding, of a step when it says so.*)
LEMMA FindNextFits ==
  ASSUME ColumnsOK, LinksOK, NEW l \in Leads, NEW sent \in Nat, NEW due \in BOOLEAN
  PROVE  /\ FindNext(l, sent, due) \in Finding
         /\ Good(l, FindNext(l, sent, due))
         /\ FindNext(l, sent, due).code = "skip" => FindNext(l, sent, due).step \in Steps
<1> DEFINE n == NextNumber(l, sent)
           defined == n \in Steps /\ seqs[n] # "none"
           channel == IF defined THEN seqs[n] ELSE "email"
           linked == defined /\ steps[n] # "none"
<1>1. n \in Nat \ {0} /\ (~ MustWait(l) => FitsBehind(l, n))
  BY NextNumberFits
<1>2. channel \in Channels /\ linked \in BOOLEAN
  BY DEF ColumnsOK, Channels
<1>3. 1 \in Steps
  <2>1. Len(Channel) \in Nat /\ Len(Channel) # 0
    BY ConstantsAssumption
  <2>2. QED
    BY <2>1 DEF Steps
<1>4. (defined \/ n = 1) => n \in Steps
  BY <1>3
<1>5. Whole /\ ~ linked => ~ defined
  BY DEF LinksOK
<1>6. Halt \in Finding /\ Halt.code = "halt"
  BY DEF Halt, Answer, Finding, Channels
<1>7. /\ Answer("skip", n, channel, linked) \in Finding
      /\ Answer("skip", n, channel, linked).code = "skip"
      /\ Answer("skip", n, channel, linked).step = n
  BY <1>1, <1>2 DEF Answer, Finding
<1>8. /\ Answer("step", n, channel, linked) \in Finding
      /\ Answer("step", n, channel, linked).code = "step"
      /\ Answer("step", n, channel, linked).step = n
      /\ Answer("step", n, channel, linked).linked = linked
  BY <1>1, <1>2 DEF Answer, Finding
<1>9. \/ FindNext(l, sent, due) = Halt
      \/ /\ ~ Halted(l) /\ ~ MustWait(l) /\ (defined \/ n = 1)
         /\ \/ FindNext(l, sent, due) = Answer("skip", n, channel, linked)
            \/ FindNext(l, sent, due) = Answer("step", n, channel, linked)
            \/ FindNext(l, sent, due) = Halt
  BY DEF FindNext
<1>10. QED
  BY <1>1, <1>4, <1>5, <1>6, <1>7, <1>8, <1>9 DEF Good

(* A round takes a claim to a claim.                                       *)
LEMMA RoundFits ==
  ASSUME ColumnsOK, LinksOK, NEW l \in Leads, NEW due \in BOOLEAN,
         NEW before \in Claim, before.code = "step" => before.next.code = "step",
         Good(l, before.next)
  PROVE  /\ Round(l, due, before) \in Claim
         /\ Round(l, due, before).code = "step" => Round(l, due, before).next.code = "step"
         /\ Good(l, Round(l, due, before).next)
<1> DEFINE found == FindNext(l, before.sent, due)
<1>1. before.sent \in Nat
  BY DEF Claim
<1>2. /\ found \in Finding /\ Good(l, found)
      /\ found.code = "skip" => found.step \in Steps
  BY <1>1, FindNextFits
<1> HIDE DEF found
<1>3. CASE before.code # "skip"
  BY <1>3 DEF Round
<1>4. CASE before.code = "skip" /\ found.code # "skip"
  <2>1. Round(l, due, before) = [before EXCEPT !.code = found.code, !.next = found]
    BY <1>4 DEF Round, found
  <2>2. /\ Round(l, due, before) \in Claim
        /\ Round(l, due, before).code = found.code /\ Round(l, due, before).next = found
    BY <1>2, <2>1 DEF Claim, Finding
  <2>3. QED
    BY <1>2, <2>2
<1>5. CASE before.code = "skip" /\ found.code = "skip"
  <2>1. Round(l, due, before) = PassOver(l, before, found)
    BY <1>5 DEF Round, found
  <2>2. found.step \in Nat /\ found.step \in Steps
    BY <1>2, <1>5 DEF Finding
  <2>3. MaxOf(before.sent, found.step) \in Nat
    BY <1>1, <2>2 DEF MaxOf
  <2> DEFINE sent == IF cl[l].member THEN MaxOf(before.sent, found.step) ELSE before.sent
  <2>4. Round(l, due, before) =
          [before EXCEPT !.sent = sent, !.skipped = before.skipped \cup {[step |-> found.step, linked |-> found.linked]}]
    BY <2>1 DEF PassOver
  <2>5. sent \in Nat
    BY <1>1, <2>3
  <2> HIDE DEF sent
  <2> DEFINE skipped == before.skipped \cup {[step |-> found.step, linked |-> found.linked]}
  <2>9. [step |-> found.step, linked |-> found.linked] \in SkipRow
    BY <1>2, <2>2 DEF SkipRow, Finding
  <2>6. skipped \in SUBSET SkipRow
    BY <2>9 DEF Claim
  <2> HIDE DEF skipped
  <2>7. /\ Round(l, due, before) \in Claim
        /\ Round(l, due, before).code = before.code
        /\ Round(l, due, before).next = before.next
    BY <2>4, <2>5, <2>6 DEF Claim, skipped
  <2>8. QED
    BY <1>5, <2>7
<1>6. QED
  BY <1>3, <1>4, <1>5

(* What a claim finds.                                                     *)
LEMMA SearchFits ==
  ASSUME ColumnsOK, LinksOK, NEW l \in Leads, NEW due \in BOOLEAN
  PROVE  /\ Search(l, due) \in Claim
         /\ Search(l, due).code = "step" => Search(l, due).next.code = "step"
         /\ Good(l, Search(l, due).next)
<1> DEFINE r0 == [code |-> "skip", sent |-> cl[l].sent, skipped |-> {}, next |-> Halt]
           r1 == Round(l, due, r0)
           r2 == Round(l, due, r1)
           r3 == Round(l, due, r2)
           r4 == Round(l, due, r3)
           r5 == Round(l, due, r4)
           OK(r) == r \in Claim /\ (r.code = "step" => r.next.code = "step") /\ Good(l, r.next)
<1>1. OK(r0)
  BY DEF ColumnsOK, Claim, Finding, Halt, Answer, Good, Channels
<1>2. OK(r1)
  BY <1>1, RoundFits
<1>3. OK(r2)
  BY <1>2, RoundFits
<1>4. OK(r3)
  BY <1>3, RoundFits
<1>5. OK(r4)
  BY <1>4, RoundFits
<1>6. OK(r5)
  BY <1>5, RoundFits
<1>7. Search(l, due) = r5
  BY DEF Search
<1>8. QED
  BY <1>6, <1>7

-----------------------------------------------------------------------------
(* What the steps do to rows and runs.                                     *)

MsgStatuses == {"GENERATING", "DRAFT", "SENT", "FAILED", "REJECTED", "DELETED"}

\* One row has another status, and all else of the rows is as it was.
Rewritten(l, i, status) ==
  /\ \A k \in Leads : Len(msgs'[k]) = Len(msgs[k]) /\ DOMAIN msgs'[k] = DOMAIN msgs[k]
  /\ \A k \in Leads : \A j \in DOMAIN msgs[k] :
       /\ msgs'[k][j].step = msgs[k][j].step
       /\ msgs'[k][j].linked = msgs[k][j].linked
       /\ msgs'[k][j].followup = msgs[k][j].followup
       /\ msgs'[k][j].channel = msgs[k][j].channel
       /\ k # l \/ j # i => msgs'[k][j].status = msgs[k][j].status
  /\ msgs'[l][i].status = status

\* Some leads have one more row.
Grown(S, row) ==
  /\ \A k \in Leads \ S : msgs'[k] = msgs[k]
  /\ \A k \in Leads : DOMAIN msgs[k] \subseteq DOMAIN msgs'[k]
  /\ \A k \in Leads : \A j \in DOMAIN msgs[k] : msgs'[k][j] = msgs[k][j]
  /\ \A k \in S : /\ Len(msgs'[k]) = Len(msgs[k]) + 1
                  /\ Len(msgs[k]) + 1 \in DOMAIN msgs'[k]
                  /\ Len(msgs[k]) + 1 \notin DOMAIN msgs[k]
                  /\ msgs'[k][Len(msgs[k]) + 1] = row[k]
                  /\ \A j \in DOMAIN msgs'[k] : j \in DOMAIN msgs[k] \/ j = Len(msgs[k]) + 1

(* A write to a row.                                                       *)
LEMMA SetRowRewrites ==
  ASSUME ColumnsOK, NEW l \in Leads, NEW i \in DOMAIN msgs[l], NEW status \in MsgStatuses,
         SetRow(l, i, status)
  PROVE  /\ msgs' \in [Leads -> Seq(Message)]
         /\ Rewritten(l, i, status)
<1>1. /\ msgs \in [Leads -> Seq(Message)] /\ msgs[l] \in Seq(Message)
      /\ msgs[l][i] \in Message /\ i \in 1 .. Len(msgs[l])
  BY RowsAreNumbered DEF ColumnsOK, Row
<1> DEFINE m == [msgs[l][i] EXCEPT !.status = status]
           new == [msgs[l] EXCEPT ![i] = m]
<1>2. /\ m \in Message /\ m.status = status
      /\ m.step = msgs[l][i].step /\ m.linked = msgs[l][i].linked
      /\ m.followup = msgs[l][i].followup /\ m.channel = msgs[l][i].channel
  BY <1>1 DEF Message, MsgStatuses
<1>3. msgs' = [msgs EXCEPT ![l] = new]
  BY DEF SetRow
<1> HIDE DEF m
<1>4. /\ new \in Seq(Message) /\ Len(new) = Len(msgs[l]) /\ DOMAIN new = DOMAIN msgs[l]
      /\ new[i] = m /\ \A j \in DOMAIN msgs[l] : j # i => new[j] = msgs[l][j]
  BY <1>1, <1>2
<1> HIDE DEF new
<1>5. /\ msgs' \in [Leads -> Seq(Message)] /\ msgs'[l] = new
      /\ \A k \in Leads : k # l => msgs'[k] = msgs[k]
  BY <1>1, <1>3, <1>4
<1>6. /\ \A k \in Leads : Len(msgs'[k]) = Len(msgs[k]) /\ DOMAIN msgs'[k] = DOMAIN msgs[k]
      /\ msgs'[l][i].status = status
  BY <1>2, <1>4, <1>5
<1>7. ASSUME NEW k \in Leads, NEW j \in DOMAIN msgs[k]
      PROVE  /\ msgs'[k][j].step = msgs[k][j].step
             /\ msgs'[k][j].linked = msgs[k][j].linked
             /\ msgs'[k][j].followup = msgs[k][j].followup
             /\ msgs'[k][j].channel = msgs[k][j].channel
             /\ k # l \/ j # i => msgs'[k][j].status = msgs[k][j].status
  <2>1. CASE k # l
    BY <2>1, <1>5
  <2>2. CASE k = l /\ j # i
    BY <2>2, <1>4, <1>5
  <2>3. CASE k = l /\ j = i
    BY <2>3, <1>2, <1>4, <1>5
  <2>4. QED
    BY <2>1, <2>2, <2>3
<1>8. QED
  BY <1>5, <1>6, <1>7 DEF Rewritten

(* New rows.                                                               *)
LEMMA AppendGrows ==
  ASSUME ColumnsOK, NEW S \in SUBSET Leads, NEW row \in [S -> Message],
         msgs' = [l \in Leads |-> IF l \in S THEN Append(msgs[l], row[l]) ELSE msgs[l]]
  PROVE  msgs' \in [Leads -> Seq(Message)] /\ Grown(S, row)
<1>1. \A k \in Leads : msgs[k] \in Seq(Message)
  BY DEF ColumnsOK
<1>2. \A k \in Leads \ S : msgs'[k] = msgs[k]
  OBVIOUS
<1>3. ASSUME NEW k \in S
      PROVE  /\ msgs'[k] \in Seq(Message) /\ Len(msgs'[k]) = Len(msgs[k]) + 1
             /\ Len(msgs[k]) + 1 \in DOMAIN msgs'[k] /\ Len(msgs[k]) + 1 \notin DOMAIN msgs[k]
             /\ msgs'[k][Len(msgs[k]) + 1] = row[k]
             /\ DOMAIN msgs[k] \subseteq DOMAIN msgs'[k]
             /\ \A j \in DOMAIN msgs[k] : msgs'[k][j] = msgs[k][j]
             /\ \A j \in DOMAIN msgs'[k] : j \in DOMAIN msgs[k] \/ j = Len(msgs[k]) + 1
  <2>1. row[k] \in Message /\ msgs'[k] = Append(msgs[k], row[k])
    OBVIOUS
  <2>2. QED
    BY <1>1, <2>1
<1>4. msgs' \in [Leads -> Seq(Message)]
  BY <1>1, <1>3
<1>5. QED
  BY <1>2, <1>3, <1>4 DEF Grown

(* What the place of a run says of the rest of it.                         *)
LEMMA RunShapes ==
  ASSUME RunsOK, NEW r \in Runs
  PROVE  /\ run[r].pc \in {"idle", "next"} => run[r] \in Waiting
         /\ run[r].pc = "reserve" => run[r] \in Reserving
         /\ run[r].pc \in {"generate", "record", "touch"} => run[r] \in Working
         /\ run[r].pc \in {"idle", "next", "reserve", "generate", "record", "touch"}
         /\ run[r].todo \in SUBSET Leads /\ run[r].left \in Nat
         /\ run[r].auto \in BOOLEAN /\ run[r].seen \in [Leads -> LeadStatuses]
BY DEF RunsOK, Waiting, Reserving, Working

(* A run goes on, and the others stay where they are.                      *)
LEMMA RunReplaced ==
  ASSUME RunsOK, NEW r \in Runs, NEW x \in Waiting \cup Reserving \cup Working,
         run' = [run EXCEPT ![r] = x],
         \A l \in Leads : DOMAIN msgs[l] \subseteq DOMAIN msgs'[l],
         x.pc = "idle" => x.todo = {},
         x.pc = "reserve" => x.left > 0 /\ x.lead \notin x.todo,
         x.pc \in {"generate", "record", "touch"} =>
           x.row \in DOMAIN msgs'[x.lead] /\ x.lead \notin x.todo
  PROVE  /\ RunsOK' /\ run'[r] = x
         /\ \A q \in Runs : q # r => run'[q] = run[q]
<1>1. run' \in [Runs -> Waiting \cup Reserving \cup Working]
  BY DEF RunsOK
<1>2. run'[r] = x /\ \A q \in Runs : q # r => run'[q] = run[q]
  BY DEF RunsOK
<1>3. ASSUME NEW q \in Runs, q # r, run[q].pc \in {"generate", "record", "touch"}
      PROVE  run[q].row \in DOMAIN msgs'[run[q].lead]
  <2>1. run[q].lead \in Leads
    BY <1>3, RunShapes DEF Working
  <2>2. QED
    BY <1>3, <2>1 DEF RunsOK
<1>4. ASSUME NEW q \in Runs
      PROVE  /\ run'[q].pc = "idle" => run'[q].todo = {}
             /\ run'[q].pc = "reserve" => run'[q].left > 0 /\ run'[q].lead \notin run'[q].todo
             /\ run'[q].pc \in {"generate", "record", "touch"} =>
                  /\ run'[q].row \in DOMAIN msgs'[run'[q].lead]
                  /\ run'[q].lead \notin run'[q].todo
  BY <1>2, <1>3 DEF RunsOK
<1>5. QED
  BY <1>1, <1>2, <1>4 DEF RunsOK

(* A run that turns to its next lead.                                      *)
LEMMA Next1Waits ==
  ASSUME RunsOK, NEW r \in Runs, Next1(r)
  PROVE  \E x \in Waiting : /\ run' = [run EXCEPT ![r] = x]
                            /\ x.todo = run[r].todo
                            /\ x.pc = "idle" => x.todo = {}
<1> DEFINE x == IF run[r].todo = {} THEN Idle
                ELSE [pc |-> "next", todo |-> run[r].todo, auto |-> run[r].auto,
                      seen |-> run[r].seen, left |-> run[r].left]
<1>1. run' = [run EXCEPT ![r] = x]
  BY DEF Next1
<1>2. Idle \in Waiting /\ Idle.todo = {}
  BY DEF Idle, Waiting, LeadStatuses
<1>3. x \in Waiting /\ x.todo = run[r].todo /\ (x.pc = "idle" => x.todo = {})
  BY <1>2, RunShapes DEF Waiting
<1>4. QED
  BY <1>1, <1>3

(* A run that goes on with its row.                                        *)
LEMMA GotoWorks ==
  ASSUME RunsOK, NEW r \in Runs, run[r].pc \in {"generate", "record", "touch"},
         NEW pc \in {"generate", "record", "touch"}, Goto(r, pc)
  PROVE  \E x \in Working : /\ run' = [run EXCEPT ![r] = x] /\ x.pc = pc
                            /\ x.lead = run[r].lead /\ x.row = run[r].row
                            /\ x.todo = run[r].todo /\ x.auto = run[r].auto
                            /\ x.seen = run[r].seen /\ x.left = run[r].left
<1> DEFINE x == [run[r] EXCEPT !.pc = pc]
<1>1. run[r] \in Working
  BY RunShapes
<1>2. /\ x \in Working /\ x.pc = pc /\ x.lead = run[r].lead /\ x.row = run[r].row
      /\ x.todo = run[r].todo /\ x.auto = run[r].auto
      /\ x.seen = run[r].seen /\ x.left = run[r].left
  BY <1>1 DEF Working
<1>3. run' = [run EXCEPT ![r] = x]
  BY DEF Goto
<1>4. QED
  BY <1>2, <1>3

(* One run goes on: reserved rows keep their owners.                       *)
LEMMA OwnersStep ==
  ASSUME RunsOK, OwnersOK, NEW r \in Runs,
         \A q \in Runs : q # r => run'[q] = run[q],
         \A q \in Runs : q # r /\ run[q].pc \in {"generate", "record"} =>
           /\ msgs'[run[q].lead][run[q].row].status = MyRow(q).status
           /\ msgs'[run[q].lead][run[q].row].followup = MyRow(q).followup
           /\ msgs'[run[q].lead][run[q].row].channel = MyRow(q).channel,
         run'[r].pc \in {"generate", "record"} =>
           /\ msgs'[run'[r].lead][run'[r].row].status = "GENERATING"
           /\ ~ msgs'[run'[r].lead][run'[r].row].followup
           /\ \A q \in Runs : q # r => ~ Owns(q, run'[r].lead, run'[r].row),
         run'[r].pc = "record" =>
           run'[r].auto /\ msgs'[run'[r].lead][run'[r].row].channel = "email"
  PROVE  OwnersOK'
<1>1. ASSUME NEW q \in Runs, run'[q].pc \in {"generate", "record"}
      PROVE  MyRow(q)'.status = "GENERATING" /\ ~ MyRow(q)'.followup
  BY <1>1 DEF OwnersOK, MyRow
<1>2. ASSUME NEW q \in Runs, run'[q].pc = "record"
      PROVE  Sends(q)'
  BY <1>2 DEF OwnersOK, MyRow, Sends
<1>3. ASSUME NEW q \in Runs, NEW p \in Runs, run'[q].pc \in {"generate", "record"},
             run'[p].pc \in {"generate", "record"},
             run'[p].lead = run'[q].lead, run'[p].row = run'[q].row
      PROVE  q = p
  <2>1. CASE q = r \/ p = r
    BY <1>3, <2>1 DEF Owns
  <2>2. CASE q # r /\ p # r
    BY <1>3, <2>2 DEF OwnersOK, Owns
  <2>3. QED
    BY <2>1, <2>2
<1>4. QED
  BY <1>1, <1>2, <1>3 DEF OwnersOK, Owns

(* A sequence that is whole has been so all along.                         *)
LEMMA FaultsStay ==
  ASSUME TypeInv, faults' = faults \/ faults' = faults + 1
  PROVE  Whole' => Whole
BY DEF Whole, TypeInv, ColumnsOK

(* One run goes on: what the others have found is what it was.             *)
LEMMA FoundStep ==
  ASSUME RunsOK, FoundOK, Whole' => Whole, NEW r \in Runs, run'[r].pc # "reserve",
         \A q \in Runs : q # r => run'[q] = run[q]
  PROVE  FoundOK'
BY DEF FoundOK

(* One run goes on, and no row changes.                                    *)
LEMMA RowsStay ==
  ASSUME TypeInv, Whole' => Whole,
         NEW r \in Runs, NEW x \in Waiting \cup Reserving \cup Working,
         run' = [run EXCEPT ![r] = x], UNCHANGED msgs,
         x.pc = "idle" => x.todo = {},
         x.pc = "reserve" => x.left > 0 /\ x.lead \notin x.todo,
         x.pc \in {"generate", "record", "touch"} =>
           /\ run[r].pc \in {"generate", "record", "touch"}
           /\ x.row = run[r].row /\ x.lead = run[r].lead
           /\ x.todo = run[r].todo /\ x.auto = run[r].auto,
         x.pc \in {"generate", "record"} => run[r].pc \in {"generate", "record"},
         x.pc = "record" => Sends(r)
  PROVE  /\ RunsOK' /\ OwnersOK' /\ (x.pc # "reserve" => FoundOK') /\ run'[r] = x
         /\ \A q \in Runs : q # r => run'[q] = run[q]
<1>1. RunsOK' /\ run'[r] = x /\ \A q \in Runs : q # r => run'[q] = run[q]
  BY RunReplaced DEF TypeInv, RunsOK
<1>2. OwnersOK'
  <2>1. ASSUME NEW q \in Runs, q # r, run[r].pc \in {"generate", "record"}
        PROVE  ~ Owns(q, run[r].lead, run[r].row)
    BY <2>1 DEF TypeInv, OwnersOK
  <2>2. QED
    BY <1>1, <2>1, OwnersStep DEF TypeInv, OwnersOK, MyRow, Sends
<1>3. QED
  BY <1>1, <1>2, FoundStep DEF TypeInv

(* One run goes on, and the row it works on changes.                       *)
LEMMA OwnRowChanges ==
  ASSUME TypeInv, Whole' => Whole, NEW r \in Runs, run[r].pc \in {"generate", "record"},
         NEW status \in MsgStatuses, SetRow(run[r].lead, run[r].row, status),
         NEW x \in Waiting \cup Working, run' = [run EXCEPT ![r] = x],
         x.pc = "idle" => x.todo = {},
         x.pc \in {"generate", "record", "touch"} =>
           /\ x.pc = "touch" /\ x.todo = run[r].todo
           /\ x.row = run[r].row /\ x.lead = run[r].lead
  PROVE  /\ RunsOK' /\ OwnersOK' /\ FoundOK' /\ run'[r] = x
         /\ \A q \in Runs : q # r => run'[q] = run[q]
         /\ msgs' \in [Leads -> Seq(Message)]
         /\ Rewritten(run[r].lead, run[r].row, status)
<1>1. run[r] \in Working /\ run[r].lead \in Leads /\ run[r].row \in DOMAIN msgs[run[r].lead]
  BY RunShapes DEF TypeInv, RunsOK, Working
<1>2. /\ msgs' \in [Leads -> Seq(Message)]
      /\ Rewritten(run[r].lead, run[r].row, status)
  BY <1>1, SetRowRewrites DEF TypeInv
<1>3. \A l \in Leads : DOMAIN msgs'[l] = DOMAIN msgs[l]
  BY <1>2 DEF Rewritten
<1>4. x.pc # "reserve"
  BY DEF Waiting, Working
<1>5. x.pc \in {"generate", "record", "touch"} =>
        x.row \in DOMAIN msgs'[x.lead] /\ x.lead \notin x.todo
  BY <1>1, <1>3 DEF TypeInv, RunsOK
<1>6. RunsOK' /\ run'[r] = x /\ \A q \in Runs : q # r => run'[q] = run[q]
  BY <1>3, <1>4, <1>5, RunReplaced DEF TypeInv
<1>7. ASSUME NEW q \in Runs, q # r, run[q].pc \in {"generate", "record"}
      PROVE  /\ msgs'[run[q].lead][run[q].row].status = MyRow(q).status
             /\ msgs'[run[q].lead][run[q].row].followup = MyRow(q).followup
             /\ msgs'[run[q].lead][run[q].row].channel = MyRow(q).channel
  <2>1. run[q].lead \in Leads /\ run[q].row \in DOMAIN msgs[run[q].lead]
    BY <1>7, RunShapes DEF TypeInv, RunsOK, Working
  <2>2. run[q].lead # run[r].lead \/ run[q].row # run[r].row
    BY <1>7 DEF TypeInv, OwnersOK, Owns
  <2>3. QED
    BY <1>2, <2>1, <2>2 DEF Rewritten, MyRow
<1>8. run'[r].pc \notin {"generate", "record"}
  BY <1>6
<1>9. OwnersOK'
  BY <1>6, <1>7, <1>8, OwnersStep DEF TypeInv
<1>10. QED
  BY <1>2, <1>4, <1>6, <1>9, FoundStep DEF TypeInv

(* A row that nobody works on changes.                                     *)
LEMMA OtherRowChanges ==
  ASSUME TypeInv, Whole' => Whole, NEW l \in Leads, NEW i \in DOMAIN msgs[l],
         Row(l, i).status # "GENERATING",
         NEW status \in MsgStatuses, SetRow(l, i, status), UNCHANGED run
  PROVE  /\ RunsOK' /\ OwnersOK' /\ FoundOK'
         /\ msgs' \in [Leads -> Seq(Message)] /\ Rewritten(l, i, status)
<1>1. msgs' \in [Leads -> Seq(Message)] /\ Rewritten(l, i, status)
  BY SetRowRewrites DEF TypeInv
<1>2. ASSUME NEW q \in Runs, run[q].pc \in {"generate", "record", "touch"}
      PROVE  run[q].lead \in Leads /\ run[q].row \in DOMAIN msgs[run[q].lead]
  BY <1>2, RunShapes DEF TypeInv, RunsOK, Working
<1>3. RunsOK'
  BY <1>1, <1>2 DEF TypeInv, RunsOK, Rewritten
<1>4. ASSUME NEW q \in Runs, run[q].pc \in {"generate", "record"}
      PROVE  /\ MyRow(q)'.status = "GENERATING"
             /\ MyRow(q)'.followup = MyRow(q).followup
             /\ MyRow(q)'.channel = MyRow(q).channel
  <2>1. MyRow(q).status = "GENERATING"
    BY <1>4 DEF TypeInv, OwnersOK
  <2>2. run[q].lead # l \/ run[q].row # i
    BY <2>1 DEF MyRow, Row
  <2>3. QED
    BY <1>1, <1>2, <1>4, <2>1, <2>2 DEF Rewritten, MyRow
<1>5. OwnersOK'
  BY <1>4 DEF TypeInv, OwnersOK, Owns, Sends
<1>6. QED
  BY <1>1, <1>3, <1>5 DEF TypeInv, FoundOK

(* Mails are counted.                                                      *)
LEMMA ReachedCounts ==
  ASSUME ColumnsOK, NEW l \in Leads, NEW n \in Steps, Reached(l, n)
  PROVE  /\ mails' \in [Leads -> [Steps -> Nat]] /\ late' \in [Leads -> Nat]
         /\ mails'[l][n] = mails[l][n] + 1
         /\ \A k \in Leads, m \in Steps : k # l \/ m # n => mails'[k][m] = mails[k][m]
         /\ late'[l] = IF Halted(l) THEN late[l] + 1 ELSE late[l]
         /\ \A k \in Leads : k # l => late'[k] = late[k]
<1>1. mails \in [Leads -> [Steps -> Nat]] /\ late \in [Leads -> Nat]
  BY DEF ColumnsOK
<1> DEFINE new == [mails[l] EXCEPT ![n] = mails[l][n] + 1]
<1>2. mails' = [mails EXCEPT ![l] = new]
  BY DEF Reached
<1>3. /\ new \in [Steps -> Nat] /\ new[n] = mails[l][n] + 1
      /\ \A m \in Steps : m # n => new[m] = mails[l][m]
  BY <1>1
<1> HIDE DEF new
<1>4. /\ mails' \in [Leads -> [Steps -> Nat]] /\ mails'[l] = new
      /\ \A k \in Leads : k # l => mails'[k] = mails[k]
  BY <1>1, <1>2, <1>3
<1>5. /\ late' \in [Leads -> Nat] /\ late'[l] = IF Halted(l) THEN late[l] + 1 ELSE late[l]
      /\ \A k \in Leads : k # l => late'[k] = late[k]
  BY <1>1 DEF Reached, Halted
<1>6. QED
  BY <1>3, <1>4, <1>5

CampaignLead == [member: BOOLEAN, sent: Nat, responded: BOOLEAN, meeting: BOOLEAN]

(* The row of a campaign lead after a touch, after skips and when it is    *)
(* set up.                                                                 *)
LEMMA CampaignLeadFits ==
  ASSUME ColumnsOK, NEW l \in Leads
  PROVE  /\ Touch(l) \in CampaignLead /\ Touch(l).member
         /\ Touch(l).sent = IF cl[l].member THEN cl[l].sent + 1 ELSE 1
         /\ cl[l].member => /\ Touch(l).responded = cl[l].responded
                            /\ Touch(l).meeting = cl[l].meeting
         /\ NewMember \in CampaignLead /\ NewMember.member
         /\ NewMember.sent = 0 /\ ~ NewMember.responded /\ ~ NewMember.meeting
         /\ NoMember \in CampaignLead /\ ~ NoMember.member
         /\ NoMember.sent = 0 /\ ~ NoMember.responded /\ ~ NoMember.meeting
         /\ \A found \in Claim : /\ Skipped(l, found) \in CampaignLead
                                 /\ Skipped(l, found).sent >= cl[l].sent
                                 /\ Skipped(l, found).responded = cl[l].responded
                                 /\ Skipped(l, found).meeting = cl[l].meeting
                                 /\ Skipped(l, found).member = cl[l].member
                                 /\ ~ cl[l].member => Skipped(l, found) = cl[l]
<1>1. cl[l] \in CampaignLead
  BY DEF ColumnsOK, CampaignLead
<1>2. /\ NoMember \in CampaignLead /\ ~ NoMember.member
      /\ NoMember.sent = 0 /\ ~ NoMember.responded /\ ~ NoMember.meeting
  BY DEF NoMember, CampaignLead
<1>3. /\ NewMember \in CampaignLead /\ NewMember.member
      /\ NewMember.sent = 0 /\ ~ NewMember.responded /\ ~ NewMember.meeting
  BY <1>2 DEF NewMember, CampaignLead
<1>4. /\ Touch(l) \in CampaignLead /\ Touch(l).member
      /\ Touch(l).sent = IF cl[l].member THEN cl[l].sent + 1 ELSE 1
      /\ cl[l].member => /\ Touch(l).responded = cl[l].responded
                         /\ Touch(l).meeting = cl[l].meeting
  <2>1. CASE cl[l].member
    BY <2>1, <1>1 DEF Touch, CampaignLead
  <2>2. CASE ~ cl[l].member
    BY <2>2, <1>3 DEF Touch, CampaignLead
  <2>3. QED
    BY <2>1, <2>2
<1>5. ASSUME NEW found \in Claim
      PROVE  /\ Skipped(l, found) \in CampaignLead
             /\ Skipped(l, found).sent >= cl[l].sent
             /\ Skipped(l, found).responded = cl[l].responded
             /\ Skipped(l, found).meeting = cl[l].meeting
             /\ Skipped(l, found).member = cl[l].member
             /\ ~ cl[l].member => Skipped(l, found) = cl[l]
  <2> DEFINE sent == MaxOf(cl[l].sent, found.sent)
  <2>1. sent \in Nat /\ sent >= cl[l].sent
    BY <1>1 DEF MaxOf, CampaignLead, Claim
  <2>2. Skipped(l, found) = IF cl[l].member THEN [cl[l] EXCEPT !.sent = sent] ELSE cl[l]
    BY DEF Skipped
  <2> HIDE DEF sent
  <2>3. QED
    BY <1>1, <2>1, <2>2 DEF CampaignLead
<1>6. QED
  BY <1>2, <1>3, <1>4, <1>5

-----------------------------------------------------------------------------
(* Types are kept.                                                         *)

(* The types hold at first.                                                *)
LEMMA TypeInvInit ==
  ASSUME Init
  PROVE  TypeInv
<1>1. /\ 1 \in Steps /\ Steps \subseteq Nat /\ Reach \in [Leads -> SUBSET Channels]
      /\ Channel \in [Steps -> Channels] /\ MaxRows \in Nat
  BY ConstantsAssumption DEF Steps
<1>2. ColumnsOK
  <2>1. /\ lead \in [Leads -> [status: LeadStatuses, out: BOOLEAN, reach: SUBSET Channels]]
        /\ skips \in [Leads -> SUBSET SkipRow] /\ base \in [Leads -> Nat]
        /\ late \in [Leads -> Nat] /\ mails \in [Leads -> [Steps -> Nat]]
        /\ starts \in Nat /\ ops \in Nat /\ faults \in Nat
    BY <1>1 DEF Init, LeadStatuses
  <2>2. cl \in [Leads -> [member: BOOLEAN, sent: Nat, responded: BOOLEAN, meeting: BOOLEAN]]
    BY DEF Init, NewMember, NoMember
  <2>3. msgs \in [Leads -> Seq(Message)] /\ \A l \in Leads : Len(msgs[l]) <= MaxRows
    BY <1>1 DEF Init
  <2>4. /\ seqs \in [Steps -> Channels \cup {"none"}]
        /\ steps \in [Steps -> {"active", "inactive", "none"}]
    BY <1>1 DEF Init
  <2>5. QED
    BY <2>1, <2>2, <2>3, <2>4 DEF ColumnsOK
<1>3. \A r \in Runs : run[r].pc = "idle" /\ run[r].todo = {}
  BY DEF Init, Idle
<1>4. run \in [Runs -> Waiting \cup Reserving \cup Working]
  BY DEF Init, Idle, Waiting, LeadStatuses
<1>5. RunsOK /\ OwnersOK /\ FoundOK
  BY <1>3, <1>4 DEF RunsOK, OwnersOK, FoundOK, Owns
<1>6. LinksOK
  <2>1. \A n \in Steps : seqs[n] # "none" => steps[n] # "none"
    BY DEF Init
  <2>2. /\ \A l \in Leads : cl[l].member /\ DOMAIN msgs[l] = {}
        /\ \A l \in Leads : base[l] = 0 /\ Len(msgs[l]) = 0
    BY DEF Init, NewMember, NoMember
  <2>3. QED
    BY <2>1, <2>2 DEF LinksOK
<1>7. QED
  BY <1>2, <1>5, <1>6 DEF TypeInv

\* Rows keep what links them to their steps, and none is added.
SameRows ==
  \A k \in Leads :
    /\ Len(msgs'[k]) = Len(msgs[k]) /\ DOMAIN msgs'[k] = DOMAIN msgs[k]
    /\ \A j \in DOMAIN msgs[k] : /\ msgs'[k][j].step = msgs[k][j].step
                                 /\ msgs'[k][j].linked = msgs[k][j].linked
                                 /\ msgs'[k][j].followup = msgs[k][j].followup

(* A change of status leaves the links of rows alone.                      *)
LEMMA RewrittenSame ==
  ASSUME NEW l \in Leads, NEW i, NEW status, Rewritten(l, i, status)
  PROVE  SameRows
BY DEF Rewritten, SameRows

(* Links stay when the sequence does.                                      *)
LEMMA LinksStay ==
  ASSUME LinksOK, Whole' => Whole, SameRows, UNCHANGED <<seqs, steps, base>>,
         \A k \in Leads : ~ cl'[k].member => cl'[k] = NoMember
  PROVE  LinksOK'
<1>1. ASSUME NEW k \in Leads, NEW j \in DOMAIN msgs'[k], ~ Row(k, j)'.linked
      PROVE  (Whole' => Row(k, j)'.step = 1) /\ ~ Row(k, j)'.followup
  BY <1>1 DEF LinksOK, SameRows, Row
<1>2. \A k \in Leads : base'[k] <= Len(msgs'[k])
  BY DEF LinksOK, SameRows
<1>3. QED
  BY <1>1, <1>2 DEF LinksOK

(* Steps that change no row and no run.                                    *)
LEMMA OthersStay ==
  ASSUME TypeInv, Whole' => Whole, UNCHANGED <<msgs, run>>
  PROVE  RunsOK' /\ OwnersOK' /\ FoundOK'
BY DEF TypeInv, RunsOK, OwnersOK, FoundOK, Owns, Sends, MyRow

-----------------------------------------------------------------------------
(* The steps of a run.                                                     *)

(* A run starts with the leads that are candidates.                        *)
LEMMA StartDoes ==
  ASSUME TypeInv, NEW r \in Runs, Start(r)
  PROVE  /\ RunsOK' /\ OwnersOK' /\ FoundOK'
         /\ \A q \in Runs : q # r => run'[q] = run[q]
         /\ run[r].pc = "idle" /\ run'[r] \in Waiting /\ run'[r].pc = "next"
         /\ run'[r].todo = {l \in Leads : Candidate(l)}
<1>0. Whole' => Whole
  BY FaultsStay DEF Start
<1>1. PICK s \in Settings :
        run' = [run EXCEPT ![r] =
                  [pc |-> "next", todo |-> {l \in Leads : Candidate(l)}, auto |-> s.auto,
                   seen |-> [l \in Leads |-> lead[l].status], left |-> s.batch]]
  BY DEF Start
<1> DEFINE x == [pc |-> "next", todo |-> {l \in Leads : Candidate(l)}, auto |-> s.auto,
                 seen |-> [l \in Leads |-> lead[l].status], left |-> s.batch]
<1>2. x \in Waiting
  BY ConstantsAssumption DEF Waiting, TypeInv, ColumnsOK
<1> DEFINE y == x
<1>3. /\ y \in Waiting /\ y.pc = "next" /\ run' = [run EXCEPT ![r] = y]
      /\ y.todo = {l \in Leads : Candidate(l)}
  BY <1>1, <1>2
<1> HIDE DEF y
<1>4. /\ RunsOK' /\ OwnersOK' /\ FoundOK' /\ run'[r] = y
      /\ \A q \in Runs : q # r => run'[q] = run[q]
  BY <1>0, <1>3, RowsStay DEF Start
<1>5. QED
  BY <1>3, <1>4 DEF Start, At

(* Candidates are leads.                                                   *)
LEMMA TypeStart ==
  ASSUME TypeInv, NEW r \in Runs, Start(r)
  PROVE  TypeInv'
<1>1. ColumnsOK' /\ LinksOK'
  BY DEF Start, TypeInv, ColumnsOK, LinksOK, Row, Whole
<1>2. QED
  BY <1>1, StartDoes DEF TypeInv

(* A run finds the next step of a lead.                                    *)
LEMMA FindDoes ==
  ASSUME TypeInv, NEW r \in Runs, Find(r)
  PROVE  /\ RunsOK' /\ OwnersOK' /\ FoundOK'
         /\ \A q \in Runs : q # r => run'[q] = run[q]
         /\ run[r].pc = "next" /\ run'[r] \in Reserving /\ run'[r].pc = "reserve"
         /\ run'[r].lead \in run[r].todo
         /\ run'[r].todo = run[r].todo \ {run'[r].lead}
         /\ run'[r].found.code = "step" => run'[r].found.next.code = "step"
         /\ Good(run'[r].lead, run'[r].found.next)
<1>0. Whole' => Whole
  BY FaultsStay DEF Find
<1>1. PICK l \in run[r].todo, due \in BOOLEAN :
       run' = [run EXCEPT ![r] =
                 [pc |-> "reserve", todo |-> @.todo \ {l}, auto |-> @.auto, seen |-> @.seen,
                  left |-> @.left, lead |-> l, found |-> Search(l, due)]]
  BY DEF Find
<1> DEFINE x == [pc |-> "reserve", todo |-> run[r].todo \ {l}, auto |-> run[r].auto,
                 seen |-> run[r].seen, left |-> run[r].left, lead |-> l,
                 found |-> Search(l, due)]
<1>2. l \in Leads /\ due \in BOOLEAN
  BY <1>1, RunShapes DEF TypeInv
<1>3. /\ Search(l, due) \in Claim
      /\ Search(l, due).code = "step" => Search(l, due).next.code = "step"
      /\ Good(l, Search(l, due).next)
  BY <1>2, SearchFits DEF TypeInv
<1>4. /\ x \in Reserving /\ x.left > 0 /\ x.lead \notin x.todo /\ x.pc = "reserve"
      /\ x.found = Search(l, due) /\ x.lead = l /\ x.todo = run[r].todo \ {l}
  BY <1>2, <1>3, RunShapes DEF Reserving, TypeInv, Find
<1>5. run' = [run EXCEPT ![r] = x]
  BY <1>1
<1> HIDE DEF x
<1>6. /\ RunsOK' /\ OwnersOK' /\ run'[r] = x
      /\ \A q \in Runs : q # r => run'[q] = run[q]
  BY <1>0, <1>4, <1>5, RowsStay DEF Find
<1>7. FoundOK'
  BY <1>0, <1>3, <1>4, <1>6 DEF FoundOK, TypeInv, Good
<1>8. QED
  BY <1>1, <1>3, <1>4, <1>6, <1>7 DEF Find, At

(* A search ends with a claim.                                             *)
LEMMA TypeFind ==
  ASSUME TypeInv, NEW r \in Runs, Find(r)
  PROVE  TypeInv'
<1>1. ColumnsOK' /\ LinksOK'
  BY DEF Find, TypeInv, ColumnsOK, LinksOK, Row, Whole
<1>2. QED
  BY <1>1, FindDoes DEF TypeInv

(* A run whose batch is full ends.                                         *)
LEMMA EnoughDoes ==
  ASSUME TypeInv, NEW r \in Runs, Enough(r)
  PROVE  /\ RunsOK' /\ OwnersOK' /\ FoundOK'
         /\ \A q \in Runs : q # r => run'[q] = run[q]
         /\ run[r].pc = "next" /\ run'[r] = Idle /\ Idle.pc = "idle" /\ Idle.todo = {}
<1>0. Whole' => Whole
  BY FaultsStay DEF Enough
<1>1. Idle \in Waiting /\ Idle.todo = {} /\ Idle.pc = "idle"
  BY DEF Idle, Waiting, LeadStatuses
<1>2. run' = [run EXCEPT ![r] = Idle]
  BY DEF Enough
<1>3. QED
  BY <1>0, <1>1, <1>2, RowsStay DEF Enough, At

(* A run that ends is idle.                                                *)
LEMMA TypeEnough ==
  ASSUME TypeInv, NEW r \in Runs, Enough(r)
  PROVE  TypeInv'
<1>1. ColumnsOK' /\ LinksOK'
  BY DEF Enough, TypeInv, ColumnsOK, LinksOK, Row, Whole
<1>2. QED
  BY <1>1, EnoughDoes DEF TypeInv

\* A campaign lead may have moved on by some steps, and is halted as before.
SameFlags ==
  /\ cl' \in [Leads -> CampaignLead]
  /\ \A k \in Leads : /\ cl'[k].sent >= cl[k].sent
                      /\ cl'[k].responded = cl[k].responded
                      /\ cl'[k].meeting = cl[k].meeting
                      /\ ~ cl'[k].member => cl'[k] = NoMember

(* A claim leaves a new reserved row, or none.                             *)
LEMMA ReserveDoes ==
  ASSUME TypeInv, NEW r \in Runs, Reserve(r)
  PROVE  /\ run[r] \in Reserving /\ run[r].pc = "reserve"
         /\ SameFlags /\ skips' \in [Leads -> SUBSET SkipRow]
         /\ \/ /\ UNCHANGED msgs
               /\ \E x \in Waiting : /\ run' = [run EXCEPT ![r] = x]
                                     /\ x.todo = run[r].todo
                                     /\ x.pc = "idle" => x.todo = {}
            \/ /\ run[r].found.code = "step" /\ Len(msgs[run[r].lead]) < MaxRows
               /\ msgs' \in [Leads -> Seq(Message)]
               /\ Grown({run[r].lead}, [k \in {run[r].lead} |-> Reserved(run[r].found.next)])
               /\ \E x \in Working : /\ run' = [run EXCEPT ![r] = x] /\ x.pc = "generate"
                                     /\ x.todo = run[r].todo /\ x.lead = run[r].lead
                                     /\ x.row = Len(msgs[run[r].lead]) + 1
<1> DEFINE l == run[r].lead
           found == run[r].found
           claims == found.code = "step"
           nothing == claims /\ ~ found.next.linked /\ FirstTouchTaken(l)
<1>1. /\ run[r] \in Reserving /\ run[r].pc = "reserve" /\ l \in Leads /\ found \in Claim
      /\ run[r].left > 0 /\ run[r].left \in Nat
  BY RunShapes DEF Reserve, At, TypeInv, RunsOK, Reserving
<1>2. /\ cl \in [Leads -> CampaignLead] /\ skips \in [Leads -> SUBSET SkipRow]
      /\ \A k \in Leads : cl[k].sent \in Nat /\ (~ cl[k].member => cl[k] = NoMember)
  BY DEF TypeInv, ColumnsOK, LinksOK, CampaignLead
<1>3. CASE nothing
  <2>1. Next1(r) /\ UNCHANGED <<cl, skips, msgs>>
    BY <1>3 DEF Reserve
  <2>2. SameFlags /\ skips' \in [Leads -> SUBSET SkipRow]
    BY <1>2, <2>1 DEF SameFlags
  <2>3. QED
    BY <1>1, <2>1, <2>2, Next1Waits DEF TypeInv
<1>4. CASE ~ nothing
  <2>1. /\ cl' = [cl EXCEPT ![l] = Skipped(l, found)]
        /\ skips' = [skips EXCEPT ![l] = skips[l] \cup found.skipped]
    BY <1>4 DEF Reserve
  <2>2. /\ Skipped(l, found) \in CampaignLead
        /\ Skipped(l, found).sent >= cl[l].sent
        /\ Skipped(l, found).responded = cl[l].responded
        /\ Skipped(l, found).meeting = cl[l].meeting
        /\ Skipped(l, found).member = cl[l].member
        /\ ~ cl[l].member => Skipped(l, found) = cl[l]
    BY <1>1, CampaignLeadFits DEF TypeInv
  <2>3. found.skipped \in SUBSET SkipRow
    BY <1>1 DEF Claim
  <2> DEFINE c == Skipped(l, found)
             skipped == skips[l] \cup found.skipped
  <2>4. c = Skipped(l, found) /\ skipped \in SUBSET SkipRow
    BY <1>1, <1>2, <2>3
  <2>5. cl' = [cl EXCEPT ![l] = c] /\ skips' = [skips EXCEPT ![l] = skipped]
    BY <2>1
  <2> HIDE DEF c, skipped
  <2>6. SameFlags /\ skips' \in [Leads -> SUBSET SkipRow]
    <3>1. ASSUME NEW k \in Leads, k # l
          PROVE  cl'[k] = cl[k]
      BY <1>2, <2>5, <3>1
    <3>2. cl'[l] = c
      BY <1>1, <1>2, <2>5
    <3>3. \A k \in Leads : cl[k].sent >= cl[k].sent
      BY <1>2
    <3>4. cl' \in [Leads -> CampaignLead] /\ skips' \in [Leads -> SUBSET SkipRow]
      BY <1>1, <1>2, <2>2, <2>4, <2>5
    <3>5. QED
      BY <1>1, <1>2, <2>2, <2>4, <3>1, <3>2, <3>3, <3>4 DEF SameFlags
  <2>7. CASE ~ claims
    <3>1. Next1(r) /\ UNCHANGED msgs
      BY <1>4, <2>7 DEF Reserve
    <3>2. QED
      BY <1>1, <2>6, <3>1, Next1Waits DEF TypeInv
  <2>8. CASE claims
    <3> DEFINE x == [pc |-> "generate", todo |-> run[r].todo, auto |-> run[r].auto,
                     seen |-> run[r].seen, left |-> run[r].left - 1, lead |-> l,
                     row |-> Len(msgs[l]) + 1]
               new == Reserved(found.next)
    <3>1. /\ msgs' = [msgs EXCEPT ![l] = Append(msgs[l], new)]
          /\ run' = [run EXCEPT ![r] = x] /\ Len(msgs[l]) < MaxRows
      BY <1>4, <2>8 DEF Reserve
    <3>2. Len(msgs[l]) \in Nat
      BY <1>1, RowsAreNumbered DEF TypeInv
    <3>3. /\ x \in Working /\ x.pc = "generate" /\ x.todo = run[r].todo /\ x.lead = l
          /\ x.row = Len(msgs[l]) + 1
      BY <1>1, <3>2 DEF Reserving, Working
    <3>4. new \in Message
      BY <1>1, <2>8 DEF Reserved, Message, Claim, Finding, TypeInv, FoundOK
    <3> HIDE DEF x, new
    <3> DEFINE row == [k \in {l} |-> new]
    <3>5. row \in [{l} -> Message] /\ row[l] = new /\ {l} \in SUBSET Leads
      BY <1>1, <3>4
    <3>6. msgs' = [k \in Leads |-> IF k \in {l} THEN Append(msgs[k], row[k]) ELSE msgs[k]]
      BY <3>1, <3>5 DEF TypeInv, ColumnsOK
    <3>7. msgs' \in [Leads -> Seq(Message)] /\ Grown({l}, row)
      BY <3>5, <3>6, AppendGrows DEF TypeInv
    <3>8. row = [k \in {l} |-> Reserved(found.next)]
      BY DEF new
    <3>9. QED
      BY <1>1, <2>6, <2>8, <3>1, <3>3, <3>7, <3>8
  <2>9. QED
    BY <2>7, <2>8
<1>5. QED
  BY <1>3, <1>4

(* The row of a claim has its channel, its step and an owner.              *)
LEMMA TypeReserve ==
  ASSUME TypeInv, NEW r \in Runs, Reserve(r)
  PROVE  TypeInv'
<1> DEFINE l == run[r].lead
           next == run[r].found.next
<1>0. Whole' => Whole
  BY FaultsStay DEF Reserve
<1>1. /\ run[r] \in Reserving /\ run[r].pc = "reserve"
      /\ SameFlags /\ skips' \in [Leads -> SUBSET SkipRow]
  BY ReserveDoes
<1>2. l \in Leads
  BY <1>1 DEF Reserving
<1>3. UNCHANGED <<lead, seqs, steps, mails, base, late, starts, ops, faults>>
  BY DEF Reserve
<1>4. /\ cl' \in [Leads -> CampaignLead]
      /\ \A k \in Leads : ~ cl'[k].member => cl'[k] = NoMember
  BY <1>1 DEF SameFlags
<1>5. ASSUME UNCHANGED msgs,
             NEW x \in Waiting, run' = [run EXCEPT ![r] = x], x.pc = "idle" => x.todo = {}
      PROVE  TypeInv'
  <2>1. x.pc \in {"idle", "next"}
    BY DEF Waiting
  <2>2. RunsOK' /\ OwnersOK' /\ FoundOK'
    BY <1>0, <1>5, <2>1, RowsStay
  <2>3. SameRows
    BY <1>5 DEF SameRows
  <2>4. LinksOK'
    BY <1>0, <1>3, <1>4, <2>3, LinksStay DEF TypeInv
  <2>5. ColumnsOK'
    BY <1>1, <1>3, <1>4, <1>5 DEF TypeInv, ColumnsOK, CampaignLead
  <2>6. QED
    BY <2>2, <2>4, <2>5 DEF TypeInv
<1>6. ASSUME run[r].found.code = "step", Len(msgs[l]) < MaxRows,
             msgs' \in [Leads -> Seq(Message)],
             Grown({l}, [k \in {l} |-> Reserved(next)]),
             NEW x \in Working, run' = [run EXCEPT ![r] = x], x.pc = "generate",
             x.todo = run[r].todo, x.lead = l, x.row = Len(msgs[l]) + 1
      PROVE  TypeInv'
  <2>1. /\ \A k \in Leads : k # l => msgs'[k] = msgs[k]
        /\ \A k \in Leads : DOMAIN msgs[k] \subseteq DOMAIN msgs'[k]
        /\ \A k \in Leads : \A j \in DOMAIN msgs[k] : msgs'[k][j] = msgs[k][j]
        /\ Len(msgs'[l]) = Len(msgs[l]) + 1
        /\ Len(msgs[l]) + 1 \in DOMAIN msgs'[l] /\ Len(msgs[l]) + 1 \notin DOMAIN msgs[l]
        /\ msgs'[l][Len(msgs[l]) + 1] = Reserved(next)
        /\ \A j \in DOMAIN msgs'[l] : j \in DOMAIN msgs[l] \/ j = Len(msgs[l]) + 1
    BY <1>6 DEF Grown
  <2>2. \A k \in Leads : Len(msgs[k]) \in Nat /\ DOMAIN msgs[k] = 1 .. Len(msgs[k])
    BY RowsAreNumbered DEF TypeInv
  <2>3. /\ Reserved(next).status = "GENERATING" /\ ~ Reserved(next).followup
        /\ Whole /\ ~ Reserved(next).linked => Reserved(next).step = 1
    BY <1>1, <1>6 DEF Reserved, TypeInv, FoundOK
  <2>4. l \notin run[r].todo
    BY <1>1 DEF TypeInv, RunsOK
  <2> DEFINE new == Reserved(next)
  <2>11. msgs'[l][Len(msgs[l]) + 1] = new /\ new = Reserved(next)
    BY <2>1
  <2> HIDE DEF l, next, new
  <2>5. RunsOK' /\ run'[r] = x /\ \A q \in Runs : q # r => run'[q] = run[q]
    <3>1. x.row \in DOMAIN msgs'[x.lead] /\ x.lead \notin x.todo
      BY <1>2, <1>6, <2>1, <2>4
    <3>2. QED
      BY <1>6, <2>1, <3>1, RunReplaced DEF TypeInv
  <2>6. OwnersOK'
    <3>1. ASSUME NEW q \in Runs, q # r, run[q].pc \in {"generate", "record"}
          PROVE  /\ msgs'[run[q].lead][run[q].row] = MyRow(q)
                 /\ ~ Owns(q, l, Len(msgs[l]) + 1)
      <4>1. run[q].lead \in Leads /\ run[q].row \in DOMAIN msgs[run[q].lead]
        BY <3>1, RunShapes DEF TypeInv, RunsOK, Working
      <4>2. QED
        BY <1>2, <2>1, <2>2, <4>1 DEF MyRow, Owns
    <3>2. \A q \in Runs : q # r => ~ Owns(q, l, Len(msgs[l]) + 1)
      BY <3>1 DEF Owns
    <3>3. QED
      <4>1. run'[r].lead = l /\ run'[r].row = Len(msgs[l]) + 1 /\ run'[r].pc = "generate"
        BY <1>6, <2>5
      <4>2. new.status = "GENERATING" /\ ~ new.followup
        BY <2>3, <2>11
      <4>3. QED
        BY <2>5, <2>11, <3>1, <3>2, <4>1, <4>2, OwnersStep DEF TypeInv
  <2>7. FoundOK'
    BY <1>0, <1>6, <2>5, FoundStep DEF TypeInv
  <2>8. LinksOK'
    <3>1. ASSUME NEW k \in Leads, NEW j \in DOMAIN msgs'[k], ~ Row(k, j)'.linked
          PROVE  (Whole' => Row(k, j)'.step = 1) /\ ~ Row(k, j)'.followup
      <4>1. CASE j \in DOMAIN msgs[k]
        BY <1>0, <2>1, <3>1, <4>1 DEF TypeInv, LinksOK, Row
      <4>2. CASE j \notin DOMAIN msgs[k]
        BY <1>0, <2>1, <2>3, <3>1, <4>2 DEF Row
      <4>3. QED
        BY <4>1, <4>2
    <3>2. \A k \in Leads : base'[k] <= Len(msgs'[k])
      <4>1. base' = base /\ \A k \in Leads : base[k] \in Nat /\ base[k] <= Len(msgs[k])
        BY <1>3 DEF TypeInv, LinksOK, ColumnsOK
      <4>2. \A k \in Leads : Len(msgs'[k]) >= Len(msgs[k])
        BY <1>2, <2>1, <2>2
      <4>3. \A k \in Leads : Len(msgs'[k]) \in Nat
        BY <1>2, <2>1, <2>2
      <4>4. QED
        BY <2>2, <4>1, <4>2, <4>3
    <3>3. QED
      BY <1>0, <1>3, <1>4, <3>1, <3>2 DEF TypeInv, LinksOK
  <2>9. ColumnsOK'
    <3>1. \A k \in Leads : Len(msgs'[k]) <= MaxRows
      <4>1. MaxRows \in Nat /\ \A k \in Leads : Len(msgs[k]) <= MaxRows
        BY ConstantsAssumption DEF TypeInv, ColumnsOK
      <4>2. \A k \in Leads : k # l => Len(msgs'[k]) <= MaxRows
        BY <2>1, <4>1
      <4>3. Len(msgs'[l]) <= MaxRows
        BY <1>2, <1>6, <2>1, <2>2, <4>1
      <4>4. QED
        BY <4>2, <4>3
    <3>2. QED
      BY <1>1, <1>3, <1>4, <1>6, <3>1 DEF TypeInv, ColumnsOK, CampaignLead
  <2>10. QED
    BY <2>5, <2>6, <2>7, <2>8, <2>9 DEF TypeInv
<1>7. QED
  BY <1>5, <1>6, ReserveDoes

(* The text of a run replaces the reservation of its row.                  *)
LEMMA DraftDoes ==
  ASSUME TypeInv, NEW r \in Runs, Draft(r)
  PROVE  /\ run[r] \in Working /\ run[r].pc = "generate"
         /\ msgs' \in [Leads -> Seq(Message)]
         /\ Rewritten(run[r].lead, run[r].row, "DRAFT")
         /\ RunsOK' /\ OwnersOK' /\ FoundOK'
         /\ \A q \in Runs : q # r => run'[q] = run[q]
         /\ run'[r].pc = "touch" /\ run'[r].lead = run[r].lead /\ run'[r].row = run[r].row
         /\ run'[r].todo = run[r].todo /\ run'[r] \in Working
<1>0. Whole' => Whole
  BY FaultsStay DEF Draft
<1>1. run[r] \in Working /\ run[r].pc = "generate"
  BY RunShapes DEF Draft, At, TypeInv
<1>2. PICK x \in Working : /\ run' = [run EXCEPT ![r] = x] /\ x.pc = "touch"
                           /\ x.lead = run[r].lead /\ x.row = run[r].row
                           /\ x.todo = run[r].todo
  BY <1>1, GotoWorks DEF Draft, TypeInv
<1>3. "DRAFT" \in MsgStatuses /\ SetRow(run[r].lead, run[r].row, "DRAFT")
  BY DEF Draft, MsgStatuses
<1>4. QED
  BY <1>0, <1>1, <1>2, <1>3, OwnRowChanges

(* A draft is no longer reserved, and its run no longer writes to it.      *)
LEMMA TypeDraft ==
  ASSUME TypeInv, NEW r \in Runs, Draft(r)
  PROVE  TypeInv'
<1>0. Whole' => Whole
  BY FaultsStay DEF Draft
<1>1. /\ msgs' \in [Leads -> Seq(Message)]
      /\ Rewritten(run[r].lead, run[r].row, "DRAFT")
      /\ RunsOK' /\ OwnersOK' /\ FoundOK'
  BY DraftDoes
<1>2. UNCHANGED <<lead, cl, skips, seqs, steps, mails, base, late, starts, ops, faults>>
  BY DEF Draft
<1>3. SameRows
  BY <1>1 DEF Rewritten, SameRows
<1>4. LinksOK'
  BY <1>0, <1>2, <1>3, LinksStay DEF TypeInv, LinksOK
<1>5. ColumnsOK'
  BY <1>1, <1>2, <1>3 DEF TypeInv, ColumnsOK, SameRows
<1>6. QED
  BY <1>1, <1>4, <1>5 DEF TypeInv

\* One more mail of a step has reached a lead.
OneMore(l, n) ==
  /\ mails' \in [Leads -> [Steps -> Nat]] /\ late' \in [Leads -> Nat]
  /\ mails'[l][n] = mails[l][n] + 1
  /\ \A k \in Leads, m \in Steps : k # l \/ m # n => mails'[k][m] = mails[k][m]
  /\ late'[l] = IF Halted(l) THEN late[l] + 1 ELSE late[l]
  /\ \A k \in Leads : k # l => late'[k] = late[k]

(* A row that is worked on is reserved, and belongs to one run.            *)
LEMMA OwnRow ==
  ASSUME TypeInv, NEW r \in Runs, run[r].pc \in {"generate", "record", "touch"}
  PROVE  /\ run[r] \in Working /\ run[r].lead \in Leads
         /\ run[r].row \in DOMAIN msgs[run[r].lead] /\ MyRow(r) = Row(run[r].lead, run[r].row)
         /\ MyRow(r) \in Message /\ MyRow(r).step \in Steps
         /\ run[r].pc \in {"generate", "record"} => MyRow(r).status = "GENERATING"
<1>1. run[r] \in Working /\ run[r].lead \in Leads /\ run[r].row \in DOMAIN msgs[run[r].lead]
  BY RunShapes DEF TypeInv, RunsOK, Working
<1>2. MyRow(r) = Row(run[r].lead, run[r].row)
  BY DEF MyRow, Row
<1>3. MyRow(r) \in Message /\ MyRow(r).step \in Steps
  BY <1>1, <1>2, RowsAreNumbered DEF TypeInv, Message
<1>4. QED
  BY <1>1, <1>2, <1>3 DEF TypeInv, OwnersOK

(* A run that fails gives its reservation up.                              *)
LEMMA FailDoes ==
  ASSUME TypeInv, NEW r \in Runs, Fail(r)
  PROVE  /\ run[r] \in Working /\ run[r].pc = "generate"
         /\ msgs' \in [Leads -> Seq(Message)]
         /\ Rewritten(run[r].lead, run[r].row, "FAILED")
         /\ RunsOK' /\ OwnersOK' /\ FoundOK'
         /\ \A q \in Runs : q # r => run'[q] = run[q]
         /\ run'[r] \in Waiting /\ run'[r].todo = run[r].todo
         /\ \/ UNCHANGED <<mails, late, faults>>
            \/ /\ faults \in Nat /\ faults' = faults + 1
               /\ OneMore(run[r].lead, MyRow(r).step)
<1>0. Whole' => Whole
  BY FaultsStay DEF Fail
<1>1. /\ run[r] \in Working /\ run[r].pc = "generate" /\ run[r].lead \in Leads
      /\ MyRow(r).step \in Steps /\ MyRow(r).status = "GENERATING"
  BY OwnRow DEF Fail, At
<1>2. PICK x \in Waiting : /\ run' = [run EXCEPT ![r] = x]
                           /\ x.todo = run[r].todo
                           /\ x.pc = "idle" => x.todo = {}
  BY Next1Waits DEF Fail, TypeInv
<1>3. "FAILED" \in MsgStatuses /\ SetRow(run[r].lead, run[r].row, "FAILED")
  BY <1>1 DEF Fail, MsgStatuses, Failed
<1>4. x.pc \in {"idle", "next"}
  BY DEF Waiting
<1>5. /\ RunsOK' /\ OwnersOK' /\ FoundOK' /\ run'[r] = x
      /\ \A q \in Runs : q # r => run'[q] = run[q]
      /\ msgs' \in [Leads -> Seq(Message)]
      /\ Rewritten(run[r].lead, run[r].row, "FAILED")
  BY <1>0, <1>1, <1>2, <1>3, <1>4, OwnRowChanges
<1>6. \/ UNCHANGED <<mails, late, faults>>
      \/ /\ faults \in Nat /\ faults' = faults + 1
         /\ OneMore(run[r].lead, MyRow(r).step)
  <2>1. CASE UNCHANGED <<mails, late, faults>>
    BY <2>1
  <2>2. CASE faults' = faults + 1 /\ Reached(run[r].lead, MyRow(r).step)
    BY <1>1, <2>2, ReachedCounts DEF OneMore, TypeInv, ColumnsOK
  <2>3. QED
    BY <2>1, <2>2 DEF Fail
<1>7. QED
  BY <1>1, <1>2, <1>5, <1>6

(* A failed row has no owner.                                              *)
LEMMA TypeFail ==
  ASSUME TypeInv, NEW r \in Runs, Fail(r)
  PROVE  TypeInv'
<1>0. Whole' => Whole
  BY FaultsStay DEF Fail
<1>1. /\ msgs' \in [Leads -> Seq(Message)]
      /\ Rewritten(run[r].lead, run[r].row, "FAILED")
      /\ RunsOK' /\ OwnersOK' /\ FoundOK'
  BY FailDoes
<1>2. UNCHANGED <<lead, cl, skips, seqs, steps, base, starts, ops>>
  BY DEF Fail
<1>3. SameRows
  BY <1>1 DEF Rewritten, SameRows
<1>4. LinksOK'
  BY <1>0, <1>2, <1>3, LinksStay DEF TypeInv, LinksOK
<1>5. mails' \in [Leads -> [Steps -> Nat]] /\ late' \in [Leads -> Nat] /\ faults' \in Nat
  <2>1. \/ UNCHANGED <<mails, late, faults>>
        \/ /\ faults \in Nat /\ faults' = faults + 1
           /\ OneMore(run[r].lead, MyRow(r).step)
    BY FailDoes
  <2>2. mails \in [Leads -> [Steps -> Nat]] /\ late \in [Leads -> Nat] /\ faults \in Nat
    BY DEF TypeInv, ColumnsOK
  <2>3. QED
    BY <2>1, <2>2 DEF OneMore
<1>6. ColumnsOK'
  BY <1>1, <1>2, <1>3, <1>5 DEF TypeInv, ColumnsOK, SameRows
<1>7. QED
  BY <1>1, <1>4, <1>6 DEF TypeInv

(* A mail that the provider has taken is yet to be recorded.               *)
LEMMA MailDoes ==
  ASSUME TypeInv, NEW r \in Runs, Mail(r)
  PROVE  /\ run[r] \in Working /\ run[r].pc = "generate"
         /\ OneMore(run[r].lead, MyRow(r).step)
         /\ RunsOK' /\ OwnersOK' /\ FoundOK'
         /\ \A q \in Runs : q # r => run'[q] = run[q]
         /\ run'[r].pc = "record" /\ run'[r].lead = run[r].lead /\ run'[r].row = run[r].row
         /\ run'[r].todo = run[r].todo /\ run'[r] \in Working
<1>0. Whole' => Whole
  BY FaultsStay DEF Mail
<1>1. /\ run[r] \in Working /\ run[r].pc = "generate" /\ run[r].lead \in Leads
      /\ MyRow(r).step \in Steps
  BY OwnRow DEF Mail, At
<1>2. PICK x \in Working : /\ run' = [run EXCEPT ![r] = x] /\ x.pc = "record"
                           /\ x.lead = run[r].lead /\ x.row = run[r].row
                           /\ x.todo = run[r].todo /\ x.auto = run[r].auto
  BY <1>1, GotoWorks DEF Mail, TypeInv
<1>3. /\ RunsOK' /\ OwnersOK' /\ FoundOK' /\ run'[r] = x
      /\ \A q \in Runs : q # r => run'[q] = run[q]
  <2>1. UNCHANGED msgs /\ Sends(r) /\ x \in Waiting \cup Reserving \cup Working
    BY DEF Mail
  <2>2. QED
    BY <1>0, <1>1, <1>2, <2>1, RowsStay
<1>4. OneMore(run[r].lead, MyRow(r).step)
  BY <1>1, ReachedCounts DEF Mail, OneMore, TypeInv
<1>5. QED
  BY <1>1, <1>2, <1>3, <1>4

(* A mail that is under way keeps its row reserved.                        *)
LEMMA TypeMail ==
  ASSUME TypeInv, NEW r \in Runs, Mail(r)
  PROVE  TypeInv'
<1>0. Whole' => Whole
  BY FaultsStay DEF Mail
<1>1. RunsOK' /\ OwnersOK' /\ FoundOK'
  BY MailDoes
<1>2. UNCHANGED <<lead, cl, msgs, skips, seqs, steps, base, starts, ops, faults>>
  BY DEF Mail
<1>3. SameRows
  BY <1>2 DEF SameRows
<1>4. LinksOK'
  BY <1>0, <1>2, <1>3, LinksStay DEF TypeInv, LinksOK
<1>5. mails' \in [Leads -> [Steps -> Nat]] /\ late' \in [Leads -> Nat]
  BY MailDoes DEF OneMore
<1>6. ColumnsOK'
  BY <1>2, <1>5 DEF TypeInv, ColumnsOK
<1>7. QED
  BY <1>1, <1>4, <1>6 DEF TypeInv

(* A sent mail is recorded, or the write fails.                            *)
LEMMA RecordDoes ==
  ASSUME TypeInv, NEW r \in Runs, Record(r)
  PROVE  /\ run[r] \in Working /\ run[r].pc = "record"
         /\ RunsOK' /\ OwnersOK' /\ FoundOK'
         /\ \A q \in Runs : q # r => run'[q] = run[q]
         /\ run'[r].pc = "touch" /\ run'[r].lead = run[r].lead /\ run'[r].row = run[r].row
         /\ run'[r].todo = run[r].todo /\ run'[r] \in Working
         /\ \/ /\ msgs' \in [Leads -> Seq(Message)] /\ UNCHANGED faults
               /\ Rewritten(run[r].lead, run[r].row, "SENT")
            \/ /\ UNCHANGED msgs /\ faults' = faults + 1 /\ faults \in Nat
<1>0. Whole' => Whole
  BY FaultsStay DEF Record
<1>1. run[r] \in Working /\ run[r].pc = "record"
  BY OwnRow DEF Record, At
<1>2. PICK x \in Working : /\ run' = [run EXCEPT ![r] = x] /\ x.pc = "touch"
                           /\ x.lead = run[r].lead /\ x.row = run[r].row
                           /\ x.todo = run[r].todo /\ x.auto = run[r].auto
  BY <1>1, GotoWorks DEF Record, TypeInv
<1>3. x \in Waiting \cup Reserving \cup Working /\ x \in Waiting \cup Working
  OBVIOUS
<1>4. CASE SetRow(run[r].lead, run[r].row, "SENT") /\ UNCHANGED faults
  <2>1. "SENT" \in MsgStatuses
    BY DEF MsgStatuses
  <2>2. /\ RunsOK' /\ OwnersOK' /\ FoundOK' /\ run'[r] = x
        /\ \A q \in Runs : q # r => run'[q] = run[q]
        /\ msgs' \in [Leads -> Seq(Message)]
        /\ Rewritten(run[r].lead, run[r].row, "SENT")
    BY <1>0, <1>1, <1>2, <1>3, <1>4, <2>1, OwnRowChanges
  <2>3. QED
    BY <1>1, <1>2, <1>4, <2>2
<1>5. CASE UNCHANGED msgs /\ faults' = faults + 1
  <2>1. /\ RunsOK' /\ OwnersOK' /\ FoundOK' /\ run'[r] = x
        /\ \A q \in Runs : q # r => run'[q] = run[q]
    BY <1>0, <1>1, <1>2, <1>3, <1>5, RowsStay
  <2>2. faults \in Nat
    BY DEF TypeInv, ColumnsOK
  <2>3. QED
    BY <1>1, <1>2, <1>5, <2>1, <2>2
<1>6. QED
  BY <1>4, <1>5 DEF Record

(* A recorded row has no owner.                                            *)
LEMMA TypeRecord ==
  ASSUME TypeInv, NEW r \in Runs, Record(r)
  PROVE  TypeInv'
<1>0. Whole' => Whole
  BY FaultsStay DEF Record
<1>1. RunsOK' /\ OwnersOK' /\ FoundOK'
  BY RecordDoes
<1>2. UNCHANGED <<lead, cl, skips, seqs, steps, mails, base, late, starts, ops>>
  BY DEF Record
<1>3. SameRows /\ msgs' \in [Leads -> Seq(Message)] /\ faults' \in Nat
  BY RecordDoes DEF Rewritten, SameRows, TypeInv, ColumnsOK
<1>4. LinksOK'
  BY <1>0, <1>2, <1>3, LinksStay DEF TypeInv, LinksOK
<1>5. ColumnsOK'
  BY <1>2, <1>3 DEF TypeInv, ColumnsOK, SameRows
<1>6. QED
  BY <1>1, <1>4, <1>5 DEF TypeInv

\* A touch of a lead is counted.
Touched(l) ==
  /\ cl' \in [Leads -> CampaignLead] /\ cl'[l] = Touch(l)
  /\ \A k \in Leads : k # l => cl'[k] = cl[k]
  /\ \A k \in Leads : ~ cl'[k].member => cl'[k] = NoMember

(* A counted touch leaves the other campaign leads alone.                  *)
LEMMA TouchCounts ==
  ASSUME TypeInv, NEW l \in Leads, cl' = [cl EXCEPT ![l] = Touch(l)]
  PROVE  Touched(l)
<1> DEFINE c == Touch(l)
<1>1. cl \in [Leads -> CampaignLead] /\ \A k \in Leads : ~ cl[k].member => cl[k] = NoMember
  BY DEF TypeInv, ColumnsOK, LinksOK, CampaignLead
<1>2. c \in CampaignLead /\ c.member
  BY CampaignLeadFits DEF TypeInv
<1> HIDE DEF c
<1>3. cl' = [cl EXCEPT ![l] = c]
  BY DEF c
<1>4. QED
  BY <1>1, <1>2, <1>3 DEF Touched, c

(* A run that has counted its touch turns to its next lead.                *)
LEMMA CountTouchDoes ==
  ASSUME TypeInv, NEW r \in Runs, CountTouch(r)
  PROVE  /\ run[r] \in Working /\ run[r].pc = "touch" /\ Touched(run[r].lead)
         /\ RunsOK' /\ OwnersOK' /\ FoundOK'
         /\ \A q \in Runs : q # r => run'[q] = run[q]
         /\ run'[r] \in Waiting /\ run'[r].todo = run[r].todo
<1>0. Whole' => Whole
  BY FaultsStay DEF CountTouch
<1>1. run[r] \in Working /\ run[r].pc = "touch" /\ run[r].lead \in Leads
  BY OwnRow DEF CountTouch, At
<1>2. PICK x \in Waiting : /\ run' = [run EXCEPT ![r] = x]
                           /\ x.todo = run[r].todo
                           /\ x.pc = "idle" => x.todo = {}
  BY Next1Waits DEF CountTouch, TypeInv
<1>3. x.pc \in {"idle", "next"} /\ x \in Waiting \cup Reserving \cup Working
  BY DEF Waiting
<1>4. UNCHANGED msgs /\ Touched(run[r].lead)
  BY <1>1, TouchCounts DEF CountTouch
<1>5. /\ RunsOK' /\ OwnersOK' /\ FoundOK' /\ run'[r] = x
      /\ \A q \in Runs : q # r => run'[q] = run[q]
  BY <1>0, <1>2, <1>3, <1>4, RowsStay
<1>6. QED
  BY <1>1, <1>2, <1>4, <1>5

(* A touch is counted on a campaign lead.                                  *)
LEMMA TypeCountTouch ==
  ASSUME TypeInv, NEW r \in Runs, CountTouch(r)
  PROVE  TypeInv'
<1>0. Whole' => Whole
  BY FaultsStay DEF CountTouch
<1>1. RunsOK' /\ OwnersOK' /\ FoundOK' /\ Touched(run[r].lead)
  BY CountTouchDoes
<1>2. UNCHANGED <<msgs, skips, seqs, steps, mails, base, late, starts, ops, faults>>
  BY DEF CountTouch
<1>3. lead' \in [Leads -> [status: LeadStatuses, out: BOOLEAN, reach: SUBSET Channels]]
  <2>1. run[r].lead \in Leads
    BY CountTouchDoes DEF Working
  <2>2. lead' = lead \/ lead' = [lead EXCEPT ![run[r].lead].status = "CONTACTED"]
    BY DEF CountTouch
  <2>3. lead \in [Leads -> [status: LeadStatuses, out: BOOLEAN, reach: SUBSET Channels]]
    BY DEF TypeInv, ColumnsOK
  <2>4. "CONTACTED" \in LeadStatuses
    BY DEF LeadStatuses
  <2>5. QED
    BY <2>1, <2>2, <2>3, <2>4
<1>4. LinksOK'
  BY <1>0, <1>1, <1>2, LinksStay DEF TypeInv, Touched, SameRows
<1>5. ColumnsOK'
  BY <1>1, <1>2, <1>3 DEF TypeInv, ColumnsOK, Touched, CampaignLead
<1>6. QED
  BY <1>1, <1>4, <1>5 DEF TypeInv

(* A crash leaves rows as they are, and some runs idle.                    *)
LEMMA CrashDoes ==
  ASSUME TypeInv, Crash
  PROVE  /\ UNCHANGED <<lead, cl, msgs, skips, seqs, steps, mails, base, late, starts, ops>>
         /\ faults' = faults + 1 /\ faults \in Nat
         /\ run' \in [Runs -> Waiting \cup Reserving \cup Working]
         /\ \A r \in Runs : run'[r] = run[r] \/ run'[r] = Idle
         /\ OneLoop => \A r \in Runs : run'[r] = Idle
         /\ Idle.pc = "idle" /\ Idle.todo = {}
<1>1. Idle \in Waiting /\ Idle.pc = "idle" /\ Idle.todo = {}
  BY DEF Idle, Waiting, LeadStatuses
<1>2. PICK dead \in IF OneLoop THEN {Runs} ELSE {{r} : r \in Runs} :
        run' = [r \in Runs |-> IF r \in dead THEN Idle ELSE run[r]]
  BY DEF Crash
<1>3. OneLoop => dead = Runs
  BY <1>2
<1>4. run \in [Runs -> Waiting \cup Reserving \cup Working] /\ faults \in Nat
  BY DEF TypeInv, RunsOK, ColumnsOK
<1>5. QED
  BY <1>1, <1>2, <1>3, <1>4 DEF Crash

(* Rows of runs that are gone have no owner.                               *)
LEMMA TypeCrash ==
  ASSUME TypeInv, Crash
  PROVE  TypeInv'
<1>1. /\ UNCHANGED <<lead, cl, msgs, skips, seqs, steps, mails, base, late, starts, ops>>
      /\ faults' = faults + 1 /\ faults \in Nat
      /\ run' \in [Runs -> Waiting \cup Reserving \cup Working]
      /\ \A r \in Runs : run'[r] = run[r] \/ run'[r] = Idle
      /\ Idle.pc = "idle" /\ Idle.todo = {}
  BY CrashDoes
<1>0. Whole' => Whole
  BY <1>1, FaultsStay
<1>2. RunsOK' /\ FoundOK'
  BY <1>0, <1>1 DEF TypeInv, RunsOK, FoundOK
<1>3. OwnersOK'
  BY <1>1 DEF TypeInv, OwnersOK, Owns, MyRow, Sends
<1>4. ColumnsOK' /\ LinksOK'
  BY <1>0, <1>1 DEF TypeInv, ColumnsOK, LinksOK, Row
<1>5. QED
  BY <1>2, <1>3, <1>4 DEF TypeInv

-----------------------------------------------------------------------------
(* The steps of staff and leads.                                           *)

(* An operation is counted, and none falls between two awaits of a run.    *)
LEMMA OpCounts ==
  ASSUME TypeInv, NEW o, Op(o)
  PROVE  ops' \in Nat /\ (OneLoop => \A r \in Runs : run[r].pc \in {"idle", "generate"})
BY DEF TypeInv, ColumnsOK, Op, Turn, Holds

\* Staff sends a draft.
StaffSends(l, i) ==
  /\ Row(l, i).status = "DRAFT" /\ msgs' \in [Leads -> Seq(Message)]
  /\ Rewritten(l, i, "SENT") /\ OneMore(l, Row(l, i).step)
  /\ UNCHANGED <<skips, seqs, steps, run, base, starts, faults>>
  /\ (\/ ~ Row(l, i).linked /\ UNCHANGED cl
      \/ Touched(l))

(* Approvals and drafts that a person has sent.                            *)
LEMMA SendDoes ==
  ASSUME TypeInv, NEW l \in Leads, NEW i \in DOMAIN msgs[l],
         Approve(l, i) \/ MarkSent(l, i)
  PROVE  StaffSends(l, i) /\ RunsOK' /\ OwnersOK' /\ FoundOK'
<1>1. /\ Row(l, i) \in Message /\ Row(l, i).status = "DRAFT" /\ Row(l, i).step \in Steps
      /\ Row(l, i) = msgs[l][i]
  BY RowsAreNumbered DEF Approve, MarkSent, Draftable, Row, TypeInv, Message
<1>2. /\ SetRow(l, i, "SENT") /\ "SENT" \in MsgStatuses /\ Reached(l, Row(l, i).step)
      /\ UNCHANGED <<skips, seqs, steps, run, base, starts, faults>>
  BY <1>1 DEF Approve, MarkSent, MsgStatuses
<1>0. Whole' => Whole
  BY <1>2, FaultsStay
<1>3. RunsOK' /\ OwnersOK' /\ FoundOK'
  BY <1>0, <1>1, <1>2, OtherRowChanges
<1>4. msgs' \in [Leads -> Seq(Message)] /\ Rewritten(l, i, "SENT")
  BY <1>0, <1>1, <1>2, OtherRowChanges
<1>5. OneMore(l, Row(l, i).step)
  BY <1>1, <1>2, ReachedCounts DEF OneMore, TypeInv
<1>6. (~ Row(l, i).linked /\ UNCHANGED cl) \/ Touched(l)
  <2>1. (~ Row(l, i).linked /\ UNCHANGED cl) \/ cl' = [cl EXCEPT ![l] = Touch(l)]
    BY <1>1 DEF Approve, MarkSent
  <2>2. QED
    BY <2>1, TouchCounts
<1>7. QED
  BY <1>1, <1>2, <1>3, <1>4, <1>5, <1>6 DEF StaffSends

(* Staff sends rows that no run owns.                                      *)
LEMMA TypeSend ==
  ASSUME TypeInv, NEW l \in Leads, NEW i \in DOMAIN msgs[l],
         Approve(l, i) \/ MarkSent(l, i)
  PROVE  TypeInv'
<1>0. Whole' => Whole
  BY FaultsStay DEF Approve, MarkSent
<1>1. StaffSends(l, i) /\ RunsOK' /\ OwnersOK' /\ FoundOK'
  BY SendDoes
<1>2. ops' \in Nat
  BY OpCounts DEF Approve, MarkSent
<1>3. lead' \in [Leads -> [status: LeadStatuses, out: BOOLEAN, reach: SUBSET Channels]]
  <2>1. lead' = lead \/ lead' = [lead EXCEPT ![l].status = "CONTACTED"]
    BY DEF Approve, MarkSent
  <2>2. "CONTACTED" \in LeadStatuses
    BY DEF LeadStatuses
  <2>3. lead \in [Leads -> [status: LeadStatuses, out: BOOLEAN, reach: SUBSET Channels]]
    BY DEF TypeInv, ColumnsOK
  <2>4. QED
    BY <2>1, <2>2, <2>3
<1>4. SameRows
  BY <1>1, RewrittenSame DEF StaffSends
<1>5. /\ cl' \in [Leads -> CampaignLead]
      /\ \A k \in Leads : ~ cl'[k].member => cl'[k] = NoMember
  BY <1>1 DEF StaffSends, Touched, TypeInv, ColumnsOK, LinksOK, CampaignLead
<1>6. LinksOK'
  BY <1>0, <1>1, <1>4, <1>5, LinksStay DEF StaffSends, TypeInv
<1>7. ColumnsOK'
  BY <1>1, <1>2, <1>3, <1>4, <1>5
     DEF StaffSends, OneMore, SameRows, TypeInv, ColumnsOK, CampaignLead
<1>8. QED
  BY <1>1, <1>6, <1>7 DEF TypeInv

\* Staff drops a draft, or the row of one that failed.
StaffDrops(l, i) ==
  /\ Row(l, i).status \in {"DRAFT", "FAILED"} /\ msgs' \in [Leads -> Seq(Message)]
  /\ \E status \in {"REJECTED", "FAILED", "DELETED"} : Rewritten(l, i, status)

\* The count of a lead may have been set to the limit.
Stopped(l) ==
  /\ cl' \in [Leads -> CampaignLead]
  /\ \A k \in Leads : k # l => cl'[k] = cl[k]
  /\ cl'[l].responded = cl[l].responded /\ cl'[l].meeting = cl[l].meeting
  /\ cl'[l].sent = cl[l].sent \/ cl'[l].sent = MaxEmails
  /\ \A k \in Leads : ~ cl'[k].member => cl'[k] = NoMember

(* Rejections, failing approvals and deletions.                            *)
LEMMA DropDoes ==
  ASSUME TypeInv, NEW l \in Leads,
         \/ \E i \in DOMAIN msgs[l] : Discard(l, i)
         \/ \E stop \in BOOLEAN : Delete(l, stop)
  PROVE  /\ RunsOK' /\ OwnersOK' /\ FoundOK' /\ Stopped(l)
         /\ skips' \in [Leads -> SUBSET SkipRow]
         /\ UNCHANGED <<lead, seqs, steps, run, mails, base, late, starts, faults>>
         /\ UNCHANGED msgs \/ \E i \in DOMAIN msgs[l] : StaffDrops(l, i)
<1>0. Whole' => Whole
  BY FaultsStay DEF Discard, Delete
<1>1. UNCHANGED <<lead, seqs, steps, run, mails, base, late, starts, faults>>
  BY DEF Discard, Delete
<1>2. /\ cl \in [Leads -> CampaignLead] /\ MaxEmails \in Nat
      /\ skips \in [Leads -> SUBSET SkipRow]
      /\ \A k \in Leads : ~ cl[k].member => cl[k] = NoMember
  BY ConstantsAssumption DEF TypeInv, ColumnsOK, LinksOK, CampaignLead
<1>3. skips' \in [Leads -> SUBSET SkipRow]
  <2>1. ASSUME NEW n \in skips[l], skips' = [skips EXCEPT ![l] = skips[l] \ {n}]
        PROVE  skips' \in [Leads -> SUBSET SkipRow]
    BY <1>2, <2>1
  <2>2. QED
    BY <1>2, <2>1 DEF Discard, Delete
<1>4. Stopped(l)
  <2>1. UNCHANGED cl \/ (cl[l].member /\ cl' = [cl EXCEPT ![l].sent = MaxEmails])
    BY DEF Discard, Delete, StopFuture
  <2>2. CASE UNCHANGED cl
    BY <1>2, <2>2 DEF Stopped
  <2>3. CASE cl[l].member /\ cl' = [cl EXCEPT ![l].sent = MaxEmails]
    <3> DEFINE c == [cl[l] EXCEPT !.sent = MaxEmails]
    <3>1. /\ c \in CampaignLead /\ c.member /\ c.sent = MaxEmails
          /\ c.responded = cl[l].responded /\ c.meeting = cl[l].meeting
      BY <1>2, <2>3 DEF CampaignLead
    <3>2. cl' = [cl EXCEPT ![l] = c]
      BY <2>3
    <3> HIDE DEF c
    <3>3. QED
      BY <1>2, <3>1, <3>2 DEF Stopped
  <2>4. QED
    BY <2>1, <2>2, <2>3
<1>5. CASE \E i \in DOMAIN msgs[l], status \in {"REJECTED", "FAILED", "DELETED"} :
             Row(l, i).status \in {"DRAFT", "FAILED"} /\ SetRow(l, i, status)
  <2>1. PICK i \in DOMAIN msgs[l], status \in {"REJECTED", "FAILED", "DELETED"} :
          Row(l, i).status \in {"DRAFT", "FAILED"} /\ SetRow(l, i, status)
    BY <1>5
  <2>2. status \in MsgStatuses /\ UNCHANGED run
    BY <1>1 DEF MsgStatuses
  <2>3. /\ RunsOK' /\ OwnersOK' /\ FoundOK'
        /\ msgs' \in [Leads -> Seq(Message)] /\ Rewritten(l, i, status)
    BY <1>0, <2>1, <2>2, OtherRowChanges
  <2>4. StaffDrops(l, i)
    BY <2>1, <2>3 DEF StaffDrops
  <2>5. QED
    BY <1>1, <1>3, <1>4, <2>3, <2>4
<1>6. CASE UNCHANGED msgs
  BY <1>0, <1>1, <1>3, <1>4, <1>6, OthersStay
<1>7. QED
  BY <1>5, <1>6 DEF Discard, Delete, Draftable, Row

(* Staff drops rows that no run owns.                                      *)
LEMMA TypeDrop ==
  ASSUME TypeInv, NEW l \in Leads,
         \/ \E i \in DOMAIN msgs[l] : Discard(l, i)
         \/ \E stop \in BOOLEAN : Delete(l, stop)
  PROVE  TypeInv'
<1>0. Whole' => Whole
  BY FaultsStay DEF Discard, Delete
<1>1. /\ RunsOK' /\ OwnersOK' /\ FoundOK' /\ Stopped(l)
      /\ skips' \in [Leads -> SUBSET SkipRow]
      /\ UNCHANGED <<lead, seqs, steps, run, mails, base, late, starts, faults>>
      /\ UNCHANGED msgs \/ \E i \in DOMAIN msgs[l] : StaffDrops(l, i)
  BY DropDoes
<1>2. ops' \in Nat
  BY OpCounts DEF Discard, Delete
<1>3. SameRows /\ msgs' \in [Leads -> Seq(Message)]
  <2>1. CASE UNCHANGED msgs
    BY <2>1 DEF SameRows, TypeInv, ColumnsOK
  <2>2. CASE \E i \in DOMAIN msgs[l] : StaffDrops(l, i)
    BY <2>2, RewrittenSame DEF StaffDrops
  <2>3. QED
    BY <1>1, <2>1, <2>2
<1>4. LinksOK'
  BY <1>0, <1>1, <1>3, LinksStay DEF TypeInv, Stopped
<1>5. ColumnsOK'
  BY <1>1, <1>2, <1>3 DEF Stopped, SameRows, TypeInv, ColumnsOK, CampaignLead
<1>6. QED
  BY <1>1, <1>4, <1>5 DEF TypeInv

LeadRow == [status: LeadStatuses, out: BOOLEAN, reach: SUBSET Channels]

(* Operations that change leads and campaign leads only.                   *)
LEMMA TypeOther ==
  ASSUME TypeInv, UNCHANGED <<msgs, skips, seqs, steps, run, mails, starts, faults>>,
         lead' \in [Leads -> LeadRow], cl' \in [Leads -> CampaignLead],
         \A k \in Leads : ~ cl'[k].member => cl'[k] = NoMember,
         late' \in [Leads -> Nat], base' \in [Leads -> Nat],
         \A k \in Leads : base'[k] <= Len(msgs[k]), ops' \in Nat
  PROVE  TypeInv'
<1>0. Whole' => Whole
  BY FaultsStay
<1>1. RunsOK' /\ OwnersOK' /\ FoundOK'
  BY <1>0, OthersStay
<1>2. ColumnsOK'
  BY DEF TypeInv, ColumnsOK, LeadRow, CampaignLead
<1>3. LinksOK'
  BY <1>0 DEF TypeInv, LinksOK, Row
<1>4. QED
  BY <1>1, <1>2, <1>3 DEF TypeInv

\* An operation on one lead: what it may write.
OneLead(l) ==
  /\ lead' \in [Leads -> LeadRow] /\ cl' \in [Leads -> CampaignLead]
  /\ \A k \in Leads : k # l => lead'[k] = lead[k] /\ cl'[k] = cl[k]
  /\ \A k \in Leads : ~ cl'[k].member => cl'[k] = NoMember

(* A write to one lead and its campaign lead.                              *)
LEMMA OneLeadWritten ==
  ASSUME TypeInv, NEW l \in Leads, NEW x \in LeadRow, NEW c \in CampaignLead,
         ~ c.member => c = NoMember,
         lead' = [lead EXCEPT ![l] = x], cl' = [cl EXCEPT ![l] = c]
  PROVE  OneLead(l) /\ lead'[l] = x /\ cl'[l] = c
<1>1. /\ lead \in [Leads -> LeadRow] /\ cl \in [Leads -> CampaignLead]
      /\ \A k \in Leads : ~ cl[k].member => cl[k] = NoMember
  BY DEF TypeInv, ColumnsOK, LinksOK, LeadRow, CampaignLead
<1>2. QED
  BY <1>1 DEF OneLead

(* An answer.                                                              *)
LEMMA AnsweredDoes ==
  ASSUME TypeInv, NEW l \in Leads, NEW intent, Answered(l, intent)
  PROVE  /\ OneLead(l)
         /\ cl[l].sent = cl'[l].sent
         /\ lead[l].out => lead'[l].out
         /\ cl[l].responded => cl'[l].responded
         /\ cl[l].meeting => cl'[l].meeting
<1> DEFINE x == [lead[l] EXCEPT !.out = lead[l].out \/ intent = "opt_out",
                                !.status = IF intent = "interest" THEN "WARM"
                                           ELSE lead[l].status]
           c == IF cl[l].member
                THEN [cl[l] EXCEPT !.responded = TRUE,
                                   !.meeting = cl[l].meeting \/ intent = "meeting_confirmation"]
                ELSE cl[l]
<1>1. /\ lead \in [Leads -> LeadRow] /\ cl \in [Leads -> CampaignLead]
      /\ \A k \in Leads : ~ cl[k].member => cl[k] = NoMember
  BY DEF TypeInv, ColumnsOK, LinksOK, LeadRow, CampaignLead
<1>2. x \in LeadRow /\ (lead[l].out => x.out)
  BY <1>1 DEF LeadRow, LeadStatuses
<1>3. /\ c \in CampaignLead /\ (~ c.member => c = NoMember) /\ cl[l].sent = c.sent
      /\ cl[l].responded => c.responded
      /\ cl[l].meeting => c.meeting
  BY <1>1 DEF CampaignLead
<1>4. lead' = [lead EXCEPT ![l] = x]
  BY DEF Answered
<1>5. cl' = [cl EXCEPT ![l] = c]
  <2>1. CASE cl[l].member
    BY <2>1 DEF Answered
  <2>2. CASE ~ cl[l].member
    BY <2>2, <1>1 DEF Answered
  <2>3. QED
    BY <2>1, <2>2
<1> HIDE DEF x, c
<1>6. QED
  BY <1>2, <1>3, <1>4, <1>5, OneLeadWritten

(* Staff's own changes to one lead: each but the import keeps the lead     *)
(* halted if it was, or starts a new count of mails after a halt.          *)
LEMMA StaffDoes ==
  ASSUME TypeInv, NEW l \in Leads, Staff(l)
  PROVE  /\ OneLead(l) /\ UNCHANGED <<msgs, skips, seqs, steps, run, mails, starts, faults>>
         /\ \/ UNCHANGED <<late, base>> /\ (Halted(l) => Halted(l)') /\ cl'[l].sent = cl[l].sent
            \/ /\ late' = [late EXCEPT ![l] = 0]
               /\ \/ UNCHANGED base /\ (cl'[l].sent = cl[l].sent \/ ~ cl[l].member)
                  \/ base' = [base EXCEPT ![l] = Len(msgs[l])]
<1>1. /\ lead \in [Leads -> LeadRow] /\ cl \in [Leads -> CampaignLead]
      /\ \A k \in Leads : ~ cl[k].member => cl[k] = NoMember
      /\ late \in [Leads -> Nat] /\ base \in [Leads -> Nat]
  BY DEF TypeInv, ColumnsOK, LinksOK, LeadRow, CampaignLead
<1>2. /\ NewMember \in CampaignLead /\ NewMember.member
      /\ NoMember \in CampaignLead /\ ~ NoMember.member
  BY CampaignLeadFits DEF TypeInv
<1>4. lead = [lead EXCEPT ![l] = lead[l]] /\ cl = [cl EXCEPT ![l] = cl[l]]
  BY <1>1
<1>5. ASSUME NEW responded \in BOOLEAN, SetResponded(l, responded)
      PROVE  /\ OneLead(l) /\ UNCHANGED <<msgs, skips, seqs, steps, run, mails, starts, faults>>
             /\ \/ UNCHANGED <<late, base>> /\ (Halted(l) => Halted(l)')
                   /\ cl'[l].sent = cl[l].sent
                \/ /\ late' = [late EXCEPT ![l] = 0]
                   /\ UNCHANGED base /\ cl'[l].sent = cl[l].sent
  <2> DEFINE c == [cl[l] EXCEPT !.responded = responded]
  <2>1. /\ c \in CampaignLead /\ c.member /\ c.sent = cl[l].sent
        /\ c.responded = responded /\ c.meeting = cl[l].meeting
    BY <1>1, <1>5 DEF SetResponded, CampaignLead
  <2>2. cl' = [cl EXCEPT ![l] = c]
    BY <1>5 DEF SetResponded
  <2>3. lead' = lead /\ lead' = [lead EXCEPT ![l] = lead[l]] /\ lead[l] \in LeadRow
    BY <1>1, <1>4, <1>5 DEF SetResponded
  <2> HIDE DEF c
  <2>4. OneLead(l) /\ cl'[l] = c
    BY <2>1, <2>2, <2>3, OneLeadWritten
  <2>5. CASE responded
    <3>1. late' = [late EXCEPT ![l] = late[l]]
      BY <1>5, <2>5 DEF SetResponded
    <3>2. late' = late
      BY <1>1, <3>1
    <3>3. Halted(l) => Halted(l)'
      BY <2>1, <2>3, <2>4, <2>5 DEF Halted
    <3>4. QED
      BY <1>5, <2>1, <2>4, <3>2, <3>3 DEF SetResponded
  <2>6. CASE ~ responded
    BY <1>5, <2>1, <2>4, <2>6 DEF SetResponded
  <2>7. QED
    BY <2>5, <2>6
<1>6. ASSUME NEW assigned \in BOOLEAN, AssignCampaigns(l, assigned)
      PROVE  /\ OneLead(l) /\ UNCHANGED <<msgs, skips, seqs, steps, run, mails, starts, faults>>
             /\ late' = [late EXCEPT ![l] = 0]
             /\ base' = [base EXCEPT ![l] = Len(msgs[l])]
  <2>1. PICK c \in {NewMember, NoMember} : cl' = [cl EXCEPT ![l] = c]
    BY <1>6 DEF AssignCampaigns
  <2>2. lead' = [lead EXCEPT ![l] = lead[l]] /\ lead[l] \in LeadRow
    BY <1>1, <1>4, <1>6 DEF AssignCampaigns
  <2>3. OneLead(l)
    BY <1>2, <2>1, <2>2, OneLeadWritten
  <2>4. QED
    BY <1>6, <2>3 DEF AssignCampaigns
<1>7. ASSUME NEW reach \in {Channels, {"email"}}, UpdateData(l, reach)
      PROVE  /\ OneLead(l) /\ UNCHANGED <<msgs, skips, seqs, steps, run, mails, starts, faults>>
             /\ UNCHANGED <<late, base, cl>> /\ (Halted(l) => Halted(l)')
  <2> DEFINE x == [lead[l] EXCEPT !.reach = reach]
  <2>1. x \in LeadRow /\ x.out = lead[l].out
    BY <1>1 DEF LeadRow, Channels
  <2>2. lead' = [lead EXCEPT ![l] = x]
    BY <1>7 DEF UpdateData
  <2> HIDE DEF x
  <2>3. cl' = cl /\ cl' = [cl EXCEPT ![l] = cl[l]] /\ cl[l] \in CampaignLead
        /\ (~ cl[l].member => cl[l] = NoMember)
    BY <1>1, <1>4, <1>7 DEF UpdateData
  <2>4. OneLead(l) /\ lead'[l] = x
    BY <2>1, <2>2, <2>3, OneLeadWritten
  <2>5. QED
    BY <1>7, <2>1, <2>3, <2>4 DEF UpdateData, Halted
<1>8. ASSUME ScheduleMeeting(l)
      PROVE  /\ OneLead(l) /\ UNCHANGED <<msgs, skips, seqs, steps, run, mails, starts, faults>>
             /\ UNCHANGED <<late, base>> /\ (Halted(l) => Halted(l)') /\ cl'[l].sent = cl[l].sent
  <2> DEFINE x == [lead[l] EXCEPT !.status = "MEETING_BOOKED"]
             c == IF cl[l].member THEN [cl[l] EXCEPT !.meeting = TRUE] ELSE cl[l]
  <2>1. x \in LeadRow /\ x.out = lead[l].out
    BY <1>1 DEF LeadRow, LeadStatuses
  <2>2. lead' = [lead EXCEPT ![l] = x]
    BY <1>8 DEF ScheduleMeeting
  <2>3. /\ c \in CampaignLead /\ (~ c.member => c = NoMember) /\ c.sent = cl[l].sent
        /\ c.responded = cl[l].responded /\ (cl[l].meeting => c.meeting)
    BY <1>1 DEF CampaignLead
  <2>4. cl' = [cl EXCEPT ![l] = c]
    <3>1. CASE cl[l].member
      BY <1>8, <3>1 DEF ScheduleMeeting
    <3>2. CASE ~ cl[l].member
      BY <1>4, <1>8, <3>2 DEF ScheduleMeeting
    <3>3. QED
      BY <3>1, <3>2
  <2> HIDE DEF x, c
  <2>5. OneLead(l) /\ lead'[l] = x /\ cl'[l] = c
    BY <2>1, <2>2, <2>3, <2>4, OneLeadWritten
  <2>6. QED
    BY <1>8, <2>1, <2>3, <2>5 DEF ScheduleMeeting, Halted
<1>9. ASSUME Import(l)
      PROVE  /\ OneLead(l) /\ UNCHANGED <<msgs, skips, seqs, steps, run, mails, starts, faults>>
             /\ late' = [late EXCEPT ![l] = 0]
             /\ UNCHANGED base /\ (cl'[l].sent = cl[l].sent \/ ~ cl[l].member)
  <2> DEFINE x == [lead[l] EXCEPT !.status = "NEW", !.out = FALSE]
             c == IF cl[l].member THEN cl[l] ELSE NewMember
  <2>1. x \in LeadRow
    BY <1>1 DEF LeadRow, LeadStatuses
  <2>2. lead' = [lead EXCEPT ![l] = x]
    BY <1>9 DEF Import
  <2>3. c \in CampaignLead /\ c.member /\ (c.sent = cl[l].sent \/ ~ cl[l].member)
    BY <1>1, <1>2
  <2>4. cl' = [cl EXCEPT ![l] = c]
    <3>1. CASE cl[l].member
      BY <1>4, <1>9, <3>1 DEF Import
    <3>2. CASE ~ cl[l].member
      BY <1>9, <3>2 DEF Import
    <3>3. QED
      BY <3>1, <3>2
  <2> HIDE DEF x, c
  <2>5. OneLead(l) /\ cl'[l] = c
    BY <2>1, <2>2, <2>3, <2>4, OneLeadWritten
  <2>6. QED
    BY <1>9, <2>3, <2>5 DEF Import
<1>10. QED
  BY <1>5, <1>6, <1>7, <1>8, <1>9 DEF Staff

(* Answers and the operations of staff on one lead.                        *)
LEMMA TypeOneLead ==
  ASSUME TypeInv, NEW l \in Leads,
         Staff(l) \/ \E intent \in {"opt_out", "interest", "meeting_confirmation"} :
                       Answered(l, intent)
  PROVE  TypeInv'
<1>1. /\ late \in [Leads -> Nat] /\ base \in [Leads -> Nat]
      /\ \A k \in Leads : Len(msgs[k]) \in Nat /\ base[k] <= Len(msgs[k])
  BY RowsAreNumbered DEF TypeInv, ColumnsOK, LinksOK
<1>2. ops' \in Nat
  BY OpCounts DEF Staff, SetResponded, AssignCampaigns, UpdateData, ScheduleMeeting,
                  Import, Answered
<1>3. OneLead(l) /\ UNCHANGED <<msgs, skips, seqs, steps, run, mails, starts, faults>>
  BY StaffDoes, AnsweredDoes DEF Answered
<1>4. /\ late' = late \/ late' = [late EXCEPT ![l] = 0]
      /\ base' = base \/ base' = [base EXCEPT ![l] = Len(msgs[l])]
  BY StaffDoes DEF Answered
<1>5. /\ late' \in [Leads -> Nat] /\ base' \in [Leads -> Nat]
      /\ \A k \in Leads : base'[k] <= Len(msgs[k])
  <2>1. late' \in [Leads -> Nat]
    BY <1>1, <1>4
  <2>2. CASE base' = base
    BY <1>1, <2>1, <2>2
  <2>3. CASE base' = [base EXCEPT ![l] = Len(msgs[l])]
    <3>1. base'[l] = Len(msgs[l]) /\ \A k \in Leads : k # l => base'[k] = base[k]
      BY <1>1, <2>3
    <3>2. base' \in [Leads -> Nat]
      BY <1>1, <2>3
    <3>3. ASSUME NEW k \in Leads
          PROVE  base'[k] <= Len(msgs[k])
      <4>1. CASE k = l
        BY <1>1, <3>1, <4>1
      <4>2. CASE k # l
        BY <1>1, <3>1, <4>2
      <4>3. QED
        BY <4>1, <4>2
    <3>4. QED
      BY <2>1, <3>2, <3>3
  <2>4. QED
    BY <1>4, <2>2, <2>3
<1>6. QED
  BY <1>2, <1>3, <1>5, TypeOther DEF OneLead

(* New assignments start at zero.                                          *)
LEMMA TypeReplaceLeads ==
  ASSUME TypeInv, NEW kept \in SUBSET Leads, ReplaceLeads(kept)
  PROVE  TypeInv'
<1>1. /\ NewMember \in CampaignLead /\ NewMember.member
      /\ NoMember \in CampaignLead /\ ~ NoMember.member
  BY CampaignLeadFits DEF TypeInv, NewMember, NoMember, CampaignLead
<1>2. cl' = [l \in Leads |-> IF l \in kept THEN NewMember ELSE NoMember]
  BY DEF ReplaceLeads
<1>3. /\ cl' \in [Leads -> CampaignLead]
      /\ \A k \in Leads : ~ cl'[k].member => cl'[k] = NoMember
  BY <1>1, <1>2
<1>4. \A k \in Leads : Len(msgs[k]) \in Nat
  BY RowsAreNumbered DEF TypeInv
<1>5. /\ late' \in [Leads -> Nat] /\ base' \in [Leads -> Nat]
      /\ \A k \in Leads : base'[k] <= Len(msgs[k])
  BY <1>4 DEF ReplaceLeads
<1>6. ops' \in Nat
  BY OpCounts DEF ReplaceLeads
<1>7. lead' \in [Leads -> LeadRow]
  BY DEF ReplaceLeads, TypeInv, ColumnsOK, LeadRow
<1>8. QED
  BY <1>3, <1>5, <1>6, <1>7, TypeOther DEF ReplaceLeads

(* Follow-ups are drafts with a step, one for each of some leads.          *)
LEMMA FollowupsDo ==
  ASSUME TypeInv, Followups
  PROVE  \E due \in SUBSET Leads :
           /\ \A l \in due : /\ FollowupDue(l) /\ FollowupRow(l) \in Message
                             /\ Len(msgs[l]) < MaxRows /\ FollowupRow(l).status = "DRAFT"
                             /\ FollowupRow(l).linked /\ FollowupRow(l).followup
           /\ msgs' \in [Leads -> Seq(Message)]
           /\ Grown(due, [l \in due |-> FollowupRow(l)])
<1>1. PICK due \in SUBSET {l \in Leads : FollowupDue(l)} :
        /\ \A l \in due : Len(msgs[l]) < MaxRows
        /\ msgs' = [l \in Leads |-> IF l \in due THEN Append(msgs[l], FollowupRow(l))
                                    ELSE msgs[l]]
  BY DEF Followups
<1>2. ASSUME NEW l \in due
      PROVE  /\ FollowupDue(l) /\ FollowupRow(l) \in Message
             /\ FollowupRow(l).status = "DRAFT"
             /\ FollowupRow(l).linked /\ FollowupRow(l).followup
  <2> DEFINE n == cl[l].sent + 1
             channel == IF seqs[n] = "none" THEN "email" ELSE seqs[n]
  <2>1. FollowupDue(l) /\ n \in Steps
    BY <1>1 DEF FollowupDue
  <2>2. channel \in Channels
    BY <2>1 DEF TypeInv, ColumnsOK, Channels
  <2>3. FollowupRow(l) = [status |-> "DRAFT", step |-> n, linked |-> TRUE,
                          followup |-> TRUE, channel |-> channel]
    BY DEF FollowupRow
  <2> HIDE DEF n, channel
  <2>4. QED
    BY <2>1, <2>2, <2>3 DEF Message
<1> DEFINE row == [l \in due |-> FollowupRow(l)]
<1>3. row \in [due -> Message] /\ due \in SUBSET Leads
  BY <1>2
<1>4. msgs' = [l \in Leads |-> IF l \in due THEN Append(msgs[l], row[l]) ELSE msgs[l]]
  BY <1>1
<1>5. msgs' \in [Leads -> Seq(Message)] /\ Grown(due, row)
  <2> HIDE DEF row
  <2>1. QED
    BY <1>3, <1>4, AppendGrows DEF TypeInv
<1>6. QED
  BY <1>1, <1>2, <1>3, <1>5

(* A follow-up has a channel also when its step has no row.                *)
LEMMA TypeFollowups ==
  ASSUME TypeInv, Followups
  PROVE  TypeInv'
<1>1. PICK due \in SUBSET Leads :
        /\ \A l \in due : /\ FollowupDue(l) /\ FollowupRow(l) \in Message
                          /\ Len(msgs[l]) < MaxRows /\ FollowupRow(l).status = "DRAFT"
                          /\ FollowupRow(l).linked /\ FollowupRow(l).followup
        /\ msgs' \in [Leads -> Seq(Message)]
        /\ Grown(due, [l \in due |-> FollowupRow(l)])
  BY FollowupsDo
<1>2. UNCHANGED <<lead, cl, skips, seqs, run, mails, base, late, starts, faults>>
  BY DEF Followups
<1>3. /\ \A k \in Leads : k \notin due => msgs'[k] = msgs[k]
      /\ \A k \in Leads : DOMAIN msgs[k] \subseteq DOMAIN msgs'[k]
      /\ \A k \in Leads : \A j \in DOMAIN msgs[k] : msgs'[k][j] = msgs[k][j]
  BY <1>1 DEF Grown
<1>4. \A k \in due : /\ Len(msgs'[k]) = Len(msgs[k]) + 1
                     /\ msgs'[k][Len(msgs[k]) + 1] = FollowupRow(k)
                     /\ \A j \in DOMAIN msgs'[k] :
                          j \in DOMAIN msgs[k] \/ j = Len(msgs[k]) + 1
  BY <1>1 DEF Grown
<1>5. \A k \in Leads : Len(msgs[k]) \in Nat /\ base[k] <= Len(msgs[k]) /\ base[k] \in Nat
  BY RowsAreNumbered DEF TypeInv, LinksOK, ColumnsOK
<1>6. ASSUME NEW q \in Runs, run[q].pc \in {"generate", "record", "touch"}
      PROVE  /\ run[q].row \in DOMAIN msgs'[run[q].lead]
             /\ msgs'[run[q].lead][run[q].row] = MyRow(q)
  <2>1. run[q].lead \in Leads /\ run[q].row \in DOMAIN msgs[run[q].lead]
    BY <1>6, OwnRow
  <2>2. QED
    BY <1>3, <2>1 DEF MyRow
<1>0. Whole' => Whole
  BY <1>2, FaultsStay
<1>7. RunsOK' /\ FoundOK'
  BY <1>0, <1>2, <1>6 DEF TypeInv, RunsOK, FoundOK
<1>8. OwnersOK'
  BY <1>2, <1>6 DEF TypeInv, OwnersOK, Owns, MyRow, Sends
<1>9. steps' = WithDefaults
  BY DEF Followups
<1>10. /\ steps' \in [Steps -> {"active", "inactive", "none"}]
       /\ Whole => \A n \in Steps : seqs[n] # "none" => steps'[n] # "none"
  BY <1>9 DEF TypeInv, ColumnsOK, LinksOK, WithDefaults
<1>11. LinksOK'
  <2>1. ASSUME NEW k \in Leads, NEW j \in DOMAIN msgs'[k], ~ Row(k, j)'.linked
        PROVE  (Whole' => Row(k, j)'.step = 1) /\ ~ Row(k, j)'.followup
    <3>1. j \in DOMAIN msgs[k]
      BY <1>1, <1>3, <1>4, <2>1 DEF Row
    <3>2. Row(k, j)' = Row(k, j)
      BY <1>3, <3>1 DEF Row
    <3>3. QED
      BY <1>0, <2>1, <3>1, <3>2 DEF TypeInv, LinksOK
  <2>2. ASSUME NEW k \in Leads
        PROVE  base'[k] <= Len(msgs'[k])
    <3>1. Len(msgs'[k]) = Len(msgs[k]) \/ Len(msgs'[k]) = Len(msgs[k]) + 1
      BY <1>3, <1>4
    <3>2. QED
      BY <1>2, <1>5, <3>1
  <2>3. QED
    BY <1>0, <1>2, <1>10, <2>1, <2>2 DEF TypeInv, LinksOK
<1>12. ColumnsOK'
  <2>1. MaxRows \in Nat /\ \A k \in Leads : Len(msgs[k]) <= MaxRows
    BY ConstantsAssumption DEF TypeInv, ColumnsOK
  <2>2. ASSUME NEW k \in Leads
        PROVE  Len(msgs'[k]) <= MaxRows
    <3>1. Len(msgs'[k]) = Len(msgs[k]) \/ (k \in due /\ Len(msgs'[k]) = Len(msgs[k]) + 1)
      BY <1>3, <1>4
    <3>2. QED
      BY <1>1, <1>5, <2>1, <3>1
  <2>3. ops' \in Nat
    BY OpCounts DEF Followups
  <2>4. QED
    BY <1>1, <1>2, <1>10, <2>2, <2>3 DEF TypeInv, ColumnsOK
<1>13. QED
  BY <1>7, <1>8, <1>11, <1>12 DEF TypeInv

(* A step in a sequence has a row of its own, unless only half of a change is *)
(* written.                                                                *)
LEMMA TypeReplaceSequence ==
  ASSUME TypeInv, NEW wanted \in Sequences, ReplaceSequence(wanted)
  PROVE  TypeInv'
<1>1. UNCHANGED <<lead, cl, msgs, skips, run, mails, base, late, starts>>
  BY DEF ReplaceSequence
<1>2. faults \in Nat /\ (faults' = faults \/ faults' = faults + 1)
  BY DEF ReplaceSequence, TypeInv, ColumnsOK
<1>3. Whole' => Whole
  BY <1>2, FaultsStay
<1>4. RunsOK' /\ OwnersOK' /\ FoundOK'
  BY <1>1, <1>3, OthersStay
<1>5. \A n \in Steps : /\ Kept(n, wanted) \in {"active", "inactive", "none"}
                       /\ n \in DOMAIN wanted => Kept(n, wanted) # "none"
  BY DEF Kept
<1>6. \A n \in DOMAIN wanted : wanted[n].channel \in Channels
  BY ConstantsAssumption
<1> DEFINE channels == [n \in Steps |-> IF n \in DOMAIN wanted THEN wanted[n].channel
                                       ELSE "none"]
<1>7. /\ steps' = [n \in Steps |-> Kept(n, wanted)]
      /\ seqs' = channels \/ seqs' = seqs
      /\ Whole' => seqs' = channels
  BY <1>2 DEF ReplaceSequence, Whole
<1>8. /\ steps' \in [Steps -> {"active", "inactive", "none"}]
      /\ channels \in [Steps -> Channels \cup {"none"}]
  BY <1>5, <1>6, <1>7
<1>9. seqs' \in [Steps -> Channels \cup {"none"}]
  BY <1>7, <1>8 DEF TypeInv, ColumnsOK
<1>10. Whole' => \A n \in Steps : seqs'[n] # "none" => steps'[n] # "none"
  BY <1>5, <1>7
<1>11. ops' \in Nat
  BY OpCounts DEF ReplaceSequence
<1>12. ColumnsOK'
  BY <1>1, <1>2, <1>8, <1>9, <1>11 DEF TypeInv, ColumnsOK
<1>13. LinksOK'
  BY <1>1, <1>3, <1>10 DEF TypeInv, LinksOK, Row
<1>14. QED
  BY <1>4, <1>12, <1>13 DEF TypeInv

(* Every step keeps the types.                                             *)
LEMMA TypeInvNext ==
  ASSUME TypeInv, [Next]_vars
  PROVE  TypeInv'
<1>1. ASSUME NEW r \in Runs, Runner(r)
      PROVE  TypeInv'
  BY <1>1, TypeStart, TypeFind, TypeEnough, TypeReserve, TypeDraft, TypeFail, TypeMail,
     TypeRecord, TypeCountTouch DEF Runner
<1>2. ASSUME NEW l \in Leads, Review(l)
      PROVE  TypeInv'
  BY <1>2, TypeSend, TypeDrop DEF Review
<1>3. CASE UNCHANGED vars
  BY <1>3 DEF vars, TypeInv, ColumnsOK, RunsOK, OwnersOK, LinksOK, FoundOK, Owns, Sends,
              MyRow, Row, Whole
<1>4. QED
  BY <1>1, <1>2, <1>3, TypeOneLead, TypeReplaceLeads, TypeReplaceSequence, TypeFollowups,
     TypeCrash DEF Next

(* Each variable has the type of the state it models, whatever the order   *)
(* of runs, reviews, answers and crashes.                                  *)
THEOREM TypeCorrect == Spec => []TypeOK
<1>1. Init => TypeInv
  BY TypeInvInit
<1>2. TypeInv /\ [Next]_vars => TypeInv'
  BY TypeInvNext
<1>3. TypeInv => TypeOK
  <2>1. ASSUME TypeInv, NEW r \in Runs
        PROVE  run[r].pc \in {"idle", "next", "reserve", "generate", "record", "touch"}
    BY <2>1, RunShapes DEF TypeInv
  <2>2. QED
    BY <2>1 DEF TypeInv, ColumnsOK, TypeOK
<1>4. QED
  BY <1>1, <1>2, <1>3, PTL DEF Spec

-----------------------------------------------------------------------------
(* One event loop: what a claim has found stays true until it reserves.    *)

(* What has been whole at the end of a step was so before it.              *)
LEMMA WholeBefore ==
  ASSUME TypeInv, [Next]_vars
  PROVE  Whole' => Whole
<1>1. ASSUME NEW r \in Runs, Runner(r)
      PROVE  faults' = faults \/ faults' = faults + 1
  BY <1>1 DEF Runner, Start, Find, Enough, Reserve, Draft, Fail, Mail, Record, CountTouch
<1>2. ASSUME NEW l \in Leads, Review(l) \/ Staff(l)
      PROVE  UNCHANGED faults
  BY <1>2 DEF Review, Staff, Approve, Discard, MarkSent, Delete, SetResponded,
     AssignCampaigns, UpdateData, ScheduleMeeting, Import
<1>3. ASSUME NEW wanted \in Sequences, ReplaceSequence(wanted)
      PROVE  faults' = faults \/ faults' = faults + 1
  BY <1>3 DEF ReplaceSequence
<1>4. CASE Crash \/ Followups \/ UNCHANGED vars
  BY <1>4, FaultsStay DEF Crash, Followups, vars
<1>5. CASE \/ \E l \in Leads, intent \in {"opt_out", "interest", "meeting_confirmation"} :
                Answered(l, intent)
           \/ \E kept \in SUBSET Leads : ReplaceLeads(kept)
  BY <1>5, FaultsStay DEF Answered, ReplaceLeads
<1>6. QED
  BY <1>1, <1>2, <1>3, <1>4, <1>5, FaultsStay DEF Next

(* While a run takes a step the others wait, and only a search comes to a  *)
(* reservation.                                                            *)
LEMMA OthersWait ==
  ASSUME TypeInv, OneLoop, NEW r \in Runs, Runner(r)
  PROVE  /\ \A q \in Runs : q # r => run'[q] = run[q] /\ run[q].pc \in {"idle", "generate"}
         /\ run'[r].pc = "reserve" => Find(r)
<1>1. \A q \in Runs : q # r => run[q].pc \in {"idle", "generate"}
  BY DEF Runner, Start, Find, Enough, Reserve, Draft, Fail, Mail, Record, CountTouch,
         At, TurnOf, Holds
<1>2. CASE Start(r) \/ Find(r) \/ Enough(r)
  BY <1>1, <1>2, StartDoes, FindDoes, EnoughDoes
<1>3. CASE Reserve(r)
  <2>1. RunsOK /\ run \in [Runs -> Waiting \cup Reserving \cup Working]
    BY DEF TypeInv, RunsOK
  <2>2. \A x \in Waiting : x.pc # "reserve"
    BY DEF Waiting
  <2>3. \E x : run' = [run EXCEPT ![r] = x] /\ x.pc # "reserve"
    <3>1. CASE \E x \in Waiting : run' = [run EXCEPT ![r] = x]
      BY <2>2, <3>1
    <3>2. CASE \E x \in Working : run' = [run EXCEPT ![r] = x] /\ x.pc = "generate"
      BY <3>2
    <3>3. QED
      BY <1>3, <3>1, <3>2, ReserveDoes
  <2>4. QED
    BY <1>1, <2>1, <2>3
<1>4. CASE Draft(r) \/ Fail(r) \/ Mail(r) \/ Record(r) \/ CountTouch(r)
  <2>1. \A x \in Waiting : x.pc # "reserve"
    BY DEF Waiting
  <2>2. CASE Draft(r) \/ Fail(r)
    BY <1>1, <2>1, <2>2, DraftDoes, FailDoes
  <2>3. CASE Mail(r)
    BY <1>1, <2>3, MailDoes
  <2>4. CASE Record(r)
    BY <1>1, <2>4, RecordDoes
  <2>5. CASE CountTouch(r)
    BY <1>1, <2>1, <2>5, CountTouchDoes
  <2>6. QED
    BY <1>4, <2>2, <2>3, <2>4, <2>5
<1>5. QED
  BY <1>2, <1>3, <1>4 DEF Runner

(* The steps that leave runs where they are fall while none reserves.      *)
LEMMA NoneReserves ==
  ASSUME TypeInv, OneLoop, Next, ~ \E r \in Runs : Runner(r)
  PROVE  \A r \in Runs : run'[r].pc \in {"idle", "generate"}
<1>1. CASE Crash
  BY <1>1, CrashDoes
<1>2. CASE ~ Crash
  <2>1. UNCHANGED run /\ \E o : Op(o)
    BY <1>2 DEF Next, Review, Staff, Approve, Discard, MarkSent, Delete, SetResponded,
       AssignCampaigns, UpdateData, ScheduleMeeting, Import, Answered, ReplaceLeads,
       ReplaceSequence, Followups
  <2>2. QED
    BY <2>1, OpCounts
<1>3. QED
  BY <1>1, <1>2

(* On one event loop nothing falls between a search and its reservation.   *)
LEMMA ClaimsFitNext ==
  ASSUME TypeInv, OneLoop, ClaimsFit, [Next]_vars
  PROVE  ClaimsFit'
<1>1. ASSUME NEW r \in Runs, Runner(r)
      PROVE  ClaimsFit'
  <2>1. SUFFICES ASSUME NEW q \in Runs, run'[q].pc = "reserve",
                        run'[q].found.code = "step"
                 PROVE  (/\ ~ Halted(run[q].lead)
                         /\ FitsBehind(run[q].lead, run[q].found.next.step))'
    BY DEF ClaimsFit
  <2>2. q = r /\ Find(r)
    BY <1>1, <2>1, OthersWait
  <2>3. ~ Halted(run'[r].lead) /\ FitsBehind(run'[r].lead, run'[r].found.next.step)
    BY <2>1, <2>2, FindDoes DEF Good
  <2>4. UNCHANGED <<lead, cl, msgs, faults>>
    BY <2>2 DEF Find
  <2>5. QED
    BY <2>2, <2>3, <2>4 DEF Halted, FitsBehind, Touches, Row, Earlier, Whole
<1>2. ASSUME Next, ~ \E r \in Runs : Runner(r)
      PROVE  ClaimsFit'
  BY <1>2, NoneReserves DEF ClaimsFit
<1>3. CASE UNCHANGED vars
  BY <1>3 DEF vars, ClaimsFit, Halted, FitsBehind, Touches, Row, Earlier, Whole
<1>4. QED
  BY <1>1, <1>2, <1>3

-----------------------------------------------------------------------------
(* The order of touches is kept.                                           *)

\* A row that was not sent has another status, and what was no touch is none.
Moves(l, i, status) ==
  /\ Rewritten(l, i, status) /\ Row(l, i).status # "SENT"
  /\ Row(l, i).status \in Live \/ status \notin Live

(* What a step may do to rows.                                             *)
LEMMA RowsChange ==
  ASSUME TypeInv, [Next]_vars
  PROVE  \/ UNCHANGED msgs
         \/ \E l \in Leads : \E i \in DOMAIN msgs[l], status \in MsgStatuses :
              Moves(l, i, status)
         \/ \E r \in Runs : Reserve(r)
         \/ Followups
<1>1. ASSUME NEW r \in Runs, Runner(r), ~ Reserve(r)
      PROVE  \/ UNCHANGED msgs
             \/ \E l \in Leads : \E i \in DOMAIN msgs[l], status \in MsgStatuses :
                  Moves(l, i, status)
  <2>1. CASE Start(r) \/ Find(r) \/ Enough(r) \/ Mail(r) \/ CountTouch(r)
    BY <2>1 DEF Start, Find, Enough, Mail, CountTouch
  <2>2. ASSUME run[r].pc \in {"generate", "record"}, NEW status \in MsgStatuses,
               Rewritten(run[r].lead, run[r].row, status)
        PROVE  \E l \in Leads : \E i \in DOMAIN msgs[l] : Moves(l, i, status)
    <3>1. /\ run[r].lead \in Leads /\ run[r].row \in DOMAIN msgs[run[r].lead]
          /\ Row(run[r].lead, run[r].row).status = "GENERATING"
      BY <2>2, OwnRow
    <3>2. Moves(run[r].lead, run[r].row, status)
      BY <2>2, <3>1 DEF Moves, Live
    <3>3. QED
      BY <3>1, <3>2
  <2>3. {"DRAFT", "FAILED", "SENT"} \subseteq MsgStatuses
    BY DEF MsgStatuses
  <2>4. CASE Draft(r)
    BY <2>2, <2>3, <2>4, DraftDoes
  <2>5. CASE Fail(r)
    BY <2>2, <2>3, <2>5, FailDoes
  <2>6. CASE Record(r)
    BY <2>2, <2>3, <2>6, RecordDoes
  <2>7. QED
    BY <1>1, <2>1, <2>4, <2>5, <2>6 DEF Runner
<1>2. ASSUME NEW l \in Leads, Review(l)
      PROVE  \/ UNCHANGED msgs
             \/ \E i \in DOMAIN msgs[l], status \in MsgStatuses : Moves(l, i, status)
  <2>1. ASSUME NEW i \in DOMAIN msgs[l], StaffSends(l, i)
        PROVE  Moves(l, i, "SENT") /\ "SENT" \in MsgStatuses
    BY <2>1 DEF StaffSends, Moves, Live, MsgStatuses
  <2>2. ASSUME NEW i \in DOMAIN msgs[l], StaffDrops(l, i)
        PROVE  \E status \in MsgStatuses : Moves(l, i, status)
    <3>1. PICK status \in {"REJECTED", "FAILED", "DELETED"} : Rewritten(l, i, status)
      BY <2>2 DEF StaffDrops
    <3>2. Moves(l, i, status) /\ status \in MsgStatuses
      BY <2>2, <3>1 DEF StaffDrops, Moves, Live, MsgStatuses
    <3>3. QED
      BY <3>2
  <2>3. CASE \E i \in DOMAIN msgs[l] : Approve(l, i) \/ MarkSent(l, i)
    BY <2>1, <2>3, SendDoes
  <2>4. CASE (\E i \in DOMAIN msgs[l] : Discard(l, i)) \/ \E stop \in BOOLEAN : Delete(l, stop)
    BY <2>2, <2>4, DropDoes
  <2>5. QED
    BY <1>2, <2>3, <2>4 DEF Review
<1>3. ASSUME Next, ~ (\E r \in Runs : Runner(r)), ~ (\E l \in Leads : Review(l)),
             ~ Followups
      PROVE  UNCHANGED msgs
  BY <1>3 DEF Next, Staff, SetResponded, AssignCampaigns, UpdateData, ScheduleMeeting,
     Import, Answered, ReplaceLeads, ReplaceSequence, Crash
<1>4. CASE UNCHANGED vars
  BY <1>4 DEF vars
<1>5. QED
  BY <1>1, <1>2, <1>3, <1>4

(* A row that moves on keeps the order.                                    *)
LEMMA MovesOrdered ==
  ASSUME TypeInv, Sequenced, Whole' => Whole, NEW l \in Leads, NEW i \in DOMAIN msgs[l],
         NEW status \in MsgStatuses, Moves(l, i, status)
  PROVE  Sequenced'
<1>1. \A k \in Leads : DOMAIN msgs'[k] = DOMAIN msgs[k]
  BY DEF Moves, Rewritten
<1>2. ASSUME NEW k \in Leads, NEW j \in DOMAIN msgs[k]
      PROVE  /\ Row(k, j)'.step = Row(k, j).step
             /\ Row(k, j)'.followup = Row(k, j).followup
             /\ OwnTouch(k, j)' => OwnTouch(k, j)
             /\ Row(k, j).status = "SENT" => Row(k, j)'.status = "SENT"
  <2>1. /\ Row(k, j)'.step = Row(k, j).step
        /\ Row(k, j)'.followup = Row(k, j).followup
        /\ k # l \/ j # i => Row(k, j)'.status = Row(k, j).status
        /\ Row(l, i)'.status = status
    BY DEF Moves, Rewritten, Row
  <2>2. QED
    BY <2>1 DEF Moves, OwnTouch
<1>3. ASSUME NEW k \in Leads, NEW j \in DOMAIN msgs[k], NEW b, Behind(k, b, j)
      PROVE  Behind(k, b, j)'
  BY <1>1, <1>2, <1>3 DEF Behind, Earlier
<1>4. ASSUME NEW k \in Leads, NEW j \in DOMAIN msgs[k], NEW b \in DOMAIN msgs[k],
             Hides(k, b, j)
      PROVE  Hides(k, b, j)'
  BY <1>2, <1>3, <1>4 DEF Hides, SentFollowup, Earlier
<1>5. ASSUME NEW k \in Leads, NEW j \in DOMAIN msgs[k], OwnTouch(k, j)'
      PROVE  Ordered(k, j)'
  <2>1. Ordered(k, j)
    BY <1>2, <1>5 DEF Sequenced
  <2>2. CASE Behind(k, 0, j)
    BY <1>3, <2>2 DEF Ordered
  <2>3. CASE \E b \in DOMAIN msgs[k] : Hides(k, b, j)
    BY <1>1, <1>4, <2>3 DEF Ordered
  <2>4. QED
    BY <2>1, <2>2, <2>3 DEF Ordered
<1>6. QED
  BY <1>1, <1>5 DEF Sequenced

(* New rows keep the order of those before.                                *)
LEMMA GrownOrdered ==
  ASSUME TypeInv, Sequenced, Whole' => Whole, NEW S \in SUBSET Leads, NEW row, Grown(S, row),
         NEW k \in Leads, NEW j \in DOMAIN msgs[k], OwnTouch(k, j)'
  PROVE  Ordered(k, j)'
<1>1. /\ DOMAIN msgs[k] \subseteq DOMAIN msgs'[k]
      /\ \A i \in DOMAIN msgs[k] : Row(k, i)' = Row(k, i)
  BY DEF Grown, Row
<1>2. \A i \in DOMAIN msgs'[k] : i < j => i \in DOMAIN msgs[k]
  <2>1. Len(msgs[k]) \in Nat /\ DOMAIN msgs[k] = 1 .. Len(msgs[k])
    BY RowsAreNumbered DEF TypeInv
  <2>2. k \notin S => msgs'[k] = msgs[k]
    BY DEF Grown
  <2>3. k \in S => \A i \in DOMAIN msgs'[k] : i \in DOMAIN msgs[k] \/ i = Len(msgs[k]) + 1
    BY DEF Grown
  <2>4. QED
    BY <2>1, <2>2, <2>3
<1>3. OwnTouch(k, j)
  BY <1>1 DEF OwnTouch
<1>4. ASSUME NEW b, Behind(k, b, j)
      PROVE  Behind(k, b, j)'
  BY <1>1, <1>2, <1>4 DEF Behind, OwnTouch, Earlier
<1>5. ASSUME NEW b \in DOMAIN msgs[k], Hides(k, b, j)
      PROVE  Hides(k, b, j)'
  BY <1>1, <1>4, <1>5 DEF Hides, SentFollowup, Earlier
<1>6. QED
  BY <1>1, <1>3, <1>4, <1>5 DEF Ordered, Sequenced

(* A new touch keeps the order when its step fits behind the last touch.   *)
LEMMA NewTouchOrdered ==
  ASSUME TypeInv, Sequenced, Whole' => Whole, NEW l \in Leads, NEW n \in Nat, FitsBehind(l, n),
         NEW row, Grown({l}, row), NEW new \in Nat, new = Len(msgs[l]) + 1,
         Row(l, new)'.step = n
  PROVE  Sequenced'
<1>1. /\ {l} \in SUBSET Leads
      /\ \A k \in Leads : DOMAIN msgs[k] \subseteq DOMAIN msgs'[k]
      /\ \A k \in Leads : \A i \in DOMAIN msgs[k] : Row(k, i)' = Row(k, i)
      /\ \A k \in Leads : k # l => msgs'[k] = msgs[k]
      /\ \A i \in DOMAIN msgs'[l] : i \in DOMAIN msgs[l] \/ i = new
  BY DEF Grown, Row
<1>2. /\ DOMAIN msgs[l] \subseteq Nat /\ \A i \in DOMAIN msgs[l] : i < new
      /\ Touches(l) \in SUBSET Nat /\ IsFiniteSet(Touches(l))
  BY RowsAreNumbered DEF TypeInv, Touches
<1>3. \A i \in DOMAIN msgs[l] : Row(l, i).step \in Nat
  BY RowsAreNumbered, ConstantsAssumption DEF TypeInv, Message, Steps
<1>4. \A i \in DOMAIN msgs[l] : OwnTouch(l, i) => i \in Touches(l)
  BY DEF OwnTouch, Touches, Row
<1>5. ASSUME NEW b \in Nat,
             \A i \in DOMAIN msgs[l] : b < i /\ OwnTouch(l, i) =>
               Row(l, i).status = "SENT" /\ Earlier(Row(l, i).step, n)
      PROVE  Behind(l, b, new)'
  <2>1. ASSUME NEW i \in DOMAIN msgs'[l], b < i, i < new, OwnTouch(l, i)'
        PROVE  Row(l, i)'.status = "SENT" /\ Earlier(Row(l, i).step, Row(l, new).step)'
    <3>1. i \in DOMAIN msgs[l] /\ Row(l, i)' = Row(l, i)
      BY <1>1, <2>1
    <3>2. OwnTouch(l, i)
      BY <2>1, <3>1 DEF OwnTouch
    <3>3. QED
      BY <1>5, <2>1, <3>1, <3>2 DEF Earlier
  <2>2. QED
    BY <2>1 DEF Behind
<1>6. ASSUME NEW b \in DOMAIN msgs[l], SentFollowup(l, b), Earlier(Row(l, b).step, n),
             Behind(l, b, new)'
      PROVE  Ordered(l, new)'
  <2>1. SentFollowup(l, b)' /\ Earlier(Row(l, b).step, Row(l, new).step)'
    BY <1>1, <1>6 DEF SentFollowup, Earlier
  <2>2. Hides(l, b, new)'
    BY <1>2, <1>6, <2>1 DEF Hides
  <2>3. QED
    BY <1>1, <2>2 DEF Ordered
<1>7. Ordered(l, new)'
  <2>1. CASE Touches(l) = {}
    BY <1>4, <1>5, <2>1 DEF Ordered
  <2>2. CASE Touches(l) # {}
    <3>1. PICK t \in Touches(l) : \A i \in Touches(l) : i <= t
      BY <1>2, <2>2, HasLast
    <3>2. /\ t \in DOMAIN msgs[l] /\ t \in Nat
          /\ Row(l, t).status = "SENT" /\ Earlier(Row(l, t).step, n)
      BY <1>2, <3>1 DEF FitsBehind, Touches
    <3>3. CASE Row(l, t).followup
      <4>1. SentFollowup(l, t)
        BY <3>2, <3>3 DEF SentFollowup
      <4>2. \A i \in DOMAIN msgs[l] : ~ (t < i /\ OwnTouch(l, i))
        BY <1>2, <1>4, <3>1, <3>2
      <4>3. Behind(l, t, new)'
        BY <1>5, <3>2, <4>2
      <4>4. QED
        BY <1>6, <3>2, <4>1, <4>3
    <3>4. CASE ~ Row(l, t).followup
      <4>1. OwnTouch(l, t)
        BY <3>2, <3>4 DEF OwnTouch, Live
      <4>2. Ordered(l, t)
        BY <3>2, <4>1 DEF Sequenced
      <4>3. ASSUME NEW b \in Nat, Behind(l, b, t)
            PROVE  Behind(l, b, new)'
        <5>1. ASSUME NEW i \in DOMAIN msgs[l], b < i, OwnTouch(l, i)
              PROVE  Row(l, i).status = "SENT" /\ Earlier(Row(l, i).step, n)
          <6>1. i <= t /\ i \in Nat
            BY <1>2, <1>4, <3>1, <5>1
          <6>2. CASE i = t
            BY <3>2, <6>2
          <6>3. CASE i < t
            <7>1. Row(l, i).status = "SENT" /\ Earlier(Row(l, i).step, Row(l, t).step)
              BY <4>3, <5>1, <6>3 DEF Behind
            <7>2. QED
              BY <1>3, <3>2, <7>1 DEF Earlier
          <6>4. QED
            BY <3>2, <6>1, <6>2, <6>3
        <5>2. QED
          BY <1>5, <5>1
      <4>4. CASE Behind(l, 0, t)
        BY <4>3, <4>4 DEF Ordered
      <4>5. CASE \E b \in DOMAIN msgs[l] : Hides(l, b, t)
        <5>1. PICK b \in DOMAIN msgs[l] : Hides(l, b, t)
          BY <4>5
        <5>2. /\ SentFollowup(l, b) /\ Earlier(Row(l, b).step, Row(l, t).step)
              /\ Behind(l, b, t) /\ b \in Nat
          BY <1>2, <5>1 DEF Hides
        <5>3. Earlier(Row(l, b).step, n)
          BY <1>3, <3>2, <5>2 DEF Earlier
        <5>4. QED
          BY <1>6, <4>3, <5>2, <5>3
      <4>6. QED
        BY <4>2, <4>4, <4>5 DEF Ordered
    <3>5. QED
      BY <3>3, <3>4
  <2>3. QED
    BY <2>1, <2>2
<1>8. ASSUME NEW k \in Leads, NEW j \in DOMAIN msgs'[k], OwnTouch(k, j)'
      PROVE  Ordered(k, j)'
  <2>1. j \in DOMAIN msgs[k] \/ (k = l /\ j = new)
    BY <1>1
  <2>2. CASE j \in DOMAIN msgs[k]
    BY <1>1, <1>8, <2>2, GrownOrdered
  <2>3. QED
    BY <1>7, <2>1, <2>2
<1>9. QED
  BY <1>8 DEF Sequenced

(* So does a reservation.                                                  *)
LEMMA ReserveOrdered ==
  ASSUME TypeInv, Sequenced, ClaimsFit, NEW r \in Runs, Reserve(r)
  PROVE  Sequenced'
<1>0. UNCHANGED faults /\ (Whole' => Whole)
  BY FaultsStay DEF Reserve
<1>1. /\ run[r] \in Reserving /\ run[r].pc = "reserve" /\ run[r].lead \in Leads
      /\ run[r].found.next.step \in Nat
  BY ReserveDoes DEF Reserving, Claim, Finding
<1>2. CASE UNCHANGED msgs
  BY <1>0, <1>2 DEF Sequenced, OwnTouch, Ordered, Hides, SentFollowup, Behind, Row, Earlier, Whole
<1>3. CASE /\ run[r].found.code = "step"
           /\ Grown({run[r].lead}, [k \in {run[r].lead} |-> Reserved(run[r].found.next)])
  <2>1. PICK l \in Leads : l = run[r].lead
    BY <1>1
  <2>2. PICK n \in Nat : n = run[r].found.next.step
    BY <1>1
  <2>3. PICK new \in Nat : new = Len(msgs[l]) + 1
    BY RowsAreNumbered DEF TypeInv
  <2>4. PICK row : row = [k \in {l} |-> Reserved(run[r].found.next)]
    OBVIOUS
  <2>5. FitsBehind(l, n)
    BY <1>1, <1>3, <2>1, <2>2 DEF ClaimsFit
  <2>6. Grown({l}, row) /\ row[l].step = n
    BY <1>3, <2>1, <2>2, <2>4 DEF Reserved
  <2>7. Row(l, new)'.step = n
    BY <2>3, <2>6 DEF Grown, Row
  <2>8. QED
    BY <1>0, <2>3, <2>5, <2>6, <2>7, NewTouchOrdered
<1>4. QED
  BY <1>2, <1>3, ReserveDoes

(* Every step keeps the order of touches.                                  *)
LEMMA SequencedNext ==
  ASSUME TypeInv, Sequenced, ClaimsFit, [Next]_vars
  PROVE  Sequenced'
<1>0. Whole' => Whole
  BY WholeBefore
<1>1. CASE UNCHANGED msgs
  BY <1>0, <1>1 DEF Sequenced, OwnTouch, Ordered, Hides, SentFollowup, Behind, Row, Earlier
<1>2. CASE Followups
  <2>1. PICK due \in SUBSET Leads :
          /\ \A l \in due : FollowupRow(l).followup
          /\ Grown(due, [l \in due |-> FollowupRow(l)])
    BY <1>2, FollowupsDo
  <2>2. ASSUME NEW k \in Leads, NEW j \in DOMAIN msgs'[k], OwnTouch(k, j)'
        PROVE  j \in DOMAIN msgs[k]
    <3>1. CASE k \in due
      <4>1. msgs'[k][Len(msgs[k]) + 1].followup
        BY <2>1, <3>1 DEF Grown
      <4>2. j \in DOMAIN msgs[k] \/ j = Len(msgs[k]) + 1
        BY <2>1, <3>1 DEF Grown
      <4>3. QED
        BY <2>2, <4>1, <4>2 DEF OwnTouch, Row
    <3>2. CASE k \notin due
      BY <2>1, <3>2 DEF Grown
    <3>3. QED
      BY <3>1, <3>2
  <2>3. QED
    BY <1>0, <2>1, <2>2, GrownOrdered DEF Sequenced
<1>3. QED
  BY <1>0, <1>1, <1>2, RowsChange, MovesOrdered, ReserveOrdered

-----------------------------------------------------------------------------
(* What the order of touches says of their number.                         *)

(* Rows of which no touch of a run is behind another, one more at most     *)
(* than the follow-ups among them and those that hide them from others.    *)
LEMMA HidersCounted ==
  ASSUME ColumnsOK, Sequenced, NEW l \in Leads,
         NEW S \in SUBSET DOMAIN msgs[l], NEW T \in SUBSET DOMAIN msgs[l],
         \A j \in S : IF Row(l, j).followup THEN j \in T ELSE OwnTouch(l, j),
         \A i, j \in S : ~ Row(l, i).followup /\ ~ Row(l, j).followup =>
           ~ (Row(l, i).status = "SENT" /\ Earlier(Row(l, i).step, Row(l, j).step)),
         \A j \in S, k \in DOMAIN msgs[l] :
           ~ Row(l, j).followup /\ Hides(l, k, j) => k \in T \ S
  PROVE  Cardinality(S) <= 1 + Cardinality(T)
<1>1. /\ IsFiniteSet(S) /\ IsFiniteSet(T) /\ S \subseteq Nat /\ T \subseteq Nat
      /\ Cardinality(S) \in Nat /\ Cardinality(T) \in Nat /\ 0 \notin T /\ 0 \notin S
      /\ DOMAIN msgs[l] \subseteq Nat
  BY RowsAreNumbered
<1> DEFINE hider(j) == CHOOSE k \in DOMAIN msgs[l] : Hides(l, k, j)
           f == [j \in S |-> IF Row(l, j).followup THEN j
                             ELSE IF \E k \in DOMAIN msgs[l] : Hides(l, k, j) THEN hider(j)
                             ELSE 0]
<1>2. ASSUME NEW j \in S
      PROVE  \/ Row(l, j).followup /\ f[j] = j /\ f[j] \in T
             \/ /\ ~ Row(l, j).followup /\ f[j] \in DOMAIN msgs[l] /\ Hides(l, f[j], j)
                /\ f[j] \in T \ S
             \/ ~ Row(l, j).followup /\ f[j] = 0 /\ Behind(l, 0, j)
  <2>1. CASE Row(l, j).followup
    BY <2>1
  <2>2. CASE ~ Row(l, j).followup /\ \E k \in DOMAIN msgs[l] : Hides(l, k, j)
    <3>1. hider(j) \in DOMAIN msgs[l] /\ Hides(l, hider(j), j)
      BY <2>2
    <3>2. QED
      BY <2>2, <3>1
  <2>3. CASE ~ Row(l, j).followup /\ ~ \E k \in DOMAIN msgs[l] : Hides(l, k, j)
    BY <2>3 DEF Sequenced, Ordered
  <2>4. QED
    BY <2>1, <2>2, <2>3
<1>3. f \in [S -> T \cup {0}]
  <2>1. \A j \in S : f[j] \in T \cup {0}
    BY <1>2
  <2>2. QED
    BY <2>1
<1> HIDE DEF f
<1>4. ASSUME NEW i \in S, NEW j \in S, i < j, f[i] = f[j]
      PROVE  FALSE
  <2>1. CASE Row(l, i).followup
    <3>1. f[i] = i /\ i # 0
      BY <1>1, <1>2, <2>1
    <3>2. f[j] = j
      BY <1>2, <1>4, <3>1
    <3>3. i = j /\ i \in Nat
      BY <1>1, <1>4, <3>1, <3>2
    <3>4. QED
      BY <1>4, <3>3
  <2>2. CASE ~ Row(l, i).followup
    <3>1. f[i] < i /\ f[i] \in Nat
      BY <1>1, <1>2, <2>2 DEF Hides
    <3>2. CASE Row(l, j).followup
      BY <1>1, <1>2, <1>4, <3>1, <3>2
    <3>3. CASE ~ Row(l, j).followup
      <4>1. Behind(l, f[j], j)
        BY <1>2, <3>3 DEF Hides
      <4>2. i \in DOMAIN msgs[l] /\ OwnTouch(l, i)
        BY <2>2
      <4>3. Row(l, i).status = "SENT" /\ Earlier(Row(l, i).step, Row(l, j).step)
        BY <1>4, <3>1, <4>1, <4>2 DEF Behind
      <4>4. QED
        BY <2>2, <3>3, <4>3
    <3>4. QED
      BY <3>2, <3>3
  <2>3. QED
    BY <2>1, <2>2
<1>5. \A i, j \in S : f[i] = f[j] => i = j
  <2>1. ASSUME NEW i \in S, NEW j \in S, f[i] = f[j], i # j
        PROVE  FALSE
    <3>1. i < j \/ j < i
      BY <1>1, <2>1
    <3>2. QED
      BY <1>4, <2>1, <3>1
  <2>2. QED
    BY <2>1
<1>6. IsFiniteSet(T \cup {0}) /\ Cardinality(T \cup {0}) = Cardinality(T) + 1
  BY <1>1, FS_AddElement
<1>7. ASSUME Cardinality(T \cup {0}) < Cardinality(S)
      PROVE  FALSE
  <2>1. \E i, j \in S : i # j /\ f[i] = f[j]
    BY <1>1, <1>3, <1>6, <1>7, FS_PigeonHole
  <2>2. QED
    BY <1>5, <2>1
<1>8. QED
  BY <1>1, <1>6, <1>7

(* Of two touches of runs that wait, one would be behind the other.        *)
LEMMA PendingCounted ==
  ASSUME ColumnsOK, Sequenced
  PROVE  OnePendingTouch
<1>1. SUFFICES ASSUME NEW l \in Leads
               PROVE  Cardinality(Pending(l)) <= 1 + Cardinality(Followed(l))
  BY DEF OnePendingTouch
<1>2. Pending(l) \in SUBSET DOMAIN msgs[l] /\ Followed(l) \in SUBSET DOMAIN msgs[l]
  BY DEF Pending, Followed
<1>3. \A j \in Pending(l) : IF Row(l, j).followup THEN j \in Followed(l) ELSE OwnTouch(l, j)
  BY DEF Pending, Followed, OwnTouch, Live, Row
<1>4. \A j \in Pending(l) : Row(l, j).status # "SENT"
  BY DEF Pending, Row
<1>5. \A j \in Pending(l), k \in DOMAIN msgs[l] : Hides(l, k, j) => k \in Followed(l) \ Pending(l)
  BY <1>4 DEF Hides, SentFollowup, Followed, Row
<1>6. QED
  BY <1>2, <1>3, <1>4, <1>5, HidersCounted

(* The order of touches holds at first, and every step keeps it.           *)
LEMMA OrderKept ==
  ASSUME OneLoop
  PROVE  Spec => [](TypeInv /\ ClaimsFit /\ Sequenced)
<1>1. Init => TypeInv /\ ClaimsFit /\ Sequenced
  <2>1. ASSUME Init
        PROVE  ClaimsFit /\ Sequenced
    <3>1. \A r \in Runs : run[r].pc = "idle"
      BY <2>1 DEF Init, Idle
    <3>2. \A l \in Leads : DOMAIN msgs[l] = {}
      BY <2>1 DEF Init
    <3>3. QED
      BY <3>1, <3>2 DEF ClaimsFit, Sequenced
  <2>2. QED
    BY <2>1, TypeInvInit
<1>2. TypeInv /\ ClaimsFit /\ Sequenced /\ [Next]_vars
        => (TypeInv /\ ClaimsFit /\ Sequenced)'
  BY TypeInvNext, ClaimsFitNext, SequencedNext
<1>3. QED
  BY <1>1, <1>2, PTL DEF Spec

(* A lead has at most one row that waits for its models or its review, and *)
(* one more for each follow-up that was written beside it, as              *)
(* _find_next_sequence_step looks at the last touch only.                  *)
THEOREM TouchesWaitInTurn ==
  ASSUME OneLoop
  PROVE  Spec => []OnePendingTouch
<1>1. TypeInv /\ ClaimsFit /\ Sequenced => OnePendingTouch
  BY PendingCounted DEF TypeInv
<1>2. QED
  BY <1>1, OrderKept, PTL

-----------------------------------------------------------------------------
(* Mails and their records.                                                *)

\* The row was sent, or its mail is about to be recorded.
Away(l, i) ==
  \/ Row(l, i).status = "SENT"
  \/ \E r \in Runs : run[r].pc = "record" /\ Owns(r, l, i)

(* A row that a run writes for, and that no one has sent, is not away.     *)
LEMMA NotAway ==
  ASSUME TypeInv, NEW l \in Leads, NEW i \in DOMAIN msgs[l], Row(l, i).status # "SENT",
         \/ Row(l, i).status # "GENERATING"
         \/ \E r \in Runs : run[r].pc = "generate" /\ run[r].lead = l /\ run[r].row = i
  PROVE  ~ Away(l, i)
<1>1. SUFFICES ASSUME NEW q \in Runs, run[q].pc = "record", Owns(q, l, i)
               PROVE  FALSE
  BY DEF Away
<1>2. Row(l, i).status = "GENERATING"
  BY <1>1, OwnRow DEF Owns
<1>3. PICK r \in Runs : run[r].pc = "generate" /\ run[r].lead = l /\ run[r].row = i
  BY <1>2
<1>4. r = q
  BY <1>1, <1>3 DEF TypeInv, OwnersOK, Owns
<1>5. QED
  BY <1>1, <1>3, <1>4

(* Rows that are away stay so, and no other becomes so.                    *)
LEMMA MailsQuiet ==
  ASSUME TypeInv, MailsCounted, UNCHANGED <<mails, faults>>,
         \A l \in Leads : \A i \in DOMAIN msgs[l] :
           i \in DOMAIN msgs'[l] /\ Row(l, i)'.step = Row(l, i).step
           /\ (Away(l, i)' <=> Away(l, i)),
         \A l \in Leads : \A i \in DOMAIN msgs'[l] : i \notin DOMAIN msgs[l] => ~ Away(l, i)'
  PROVE  MailsCounted'
<1>1. ASSUME NEW l \in Leads, NEW n \in Steps
      PROVE  Gone(l, n)' = Gone(l, n)
  <2>1. \A i \in Gone(l, n) : i \in Gone(l, n)'
    BY DEF Gone, Away
  <2>2. \A i \in Gone(l, n)' : i \in Gone(l, n)
    <3>1. ASSUME NEW i \in Gone(l, n)'
          PROVE  i \in Gone(l, n)
      <4>1. i \in DOMAIN msgs'[l] /\ Row(l, i)'.step = n /\ Away(l, i)'
        BY <3>1 DEF Gone, Away
      <4>2. i \in DOMAIN msgs[l] /\ Row(l, i).step = n /\ Away(l, i)
        BY <4>1
      <4>3. QED
        BY <4>2 DEF Gone, Away
    <3>2. QED
      BY <3>1
  <2>3. QED
    BY <2>1, <2>2 DEF Gone
<1>2. QED
  BY <1>1 DEF MailsCounted

(* One mail more, and one row more that is away.                           *)
LEMMA MailsOneMore ==
  ASSUME TypeInv, MailsCounted, NEW l \in Leads, NEW i \in DOMAIN msgs[l], UNCHANGED faults,
         OneMore(l, Row(l, i).step), ~ Away(l, i), Away(l, i)',
         \A k \in Leads : DOMAIN msgs'[k] = DOMAIN msgs[k],
         \A k \in Leads : \A j \in DOMAIN msgs[k] :
           Row(k, j)'.step = Row(k, j).step
           /\ (k # l \/ j # i => (Away(k, j)' <=> Away(k, j)))
  PROVE  MailsCounted'
<1>1. SUFFICES ASSUME faults = 0, NEW k \in Leads, NEW n \in Steps
               PROVE  mails'[k][n] = Cardinality(Gone(k, n)')
  BY DEF MailsCounted
<1>2. mails[k][n] = Cardinality(Gone(k, n)) /\ IsFiniteSet(Gone(k, n))
  BY <1>1, RowsAreNumbered DEF MailsCounted, Gone, TypeInv
<1>3. \A j \in DOMAIN msgs[k] : j \in Gone(k, n) <=> Row(k, j).step = n /\ Away(k, j)
  BY DEF Gone, Away
<1>4. \A j \in DOMAIN msgs[k] : j \in Gone(k, n)' <=> Row(k, j).step = n /\ Away(k, j)'
  BY DEF Gone, Away
<1>5. CASE k = l /\ n = Row(l, i).step
  <2>1. i \notin Gone(k, n) /\ Gone(k, n)' = Gone(k, n) \cup {i}
    <3>1. i \notin Gone(k, n) /\ i \in Gone(k, n)'
      BY <1>3, <1>4, <1>5
    <3>2. \A j \in DOMAIN msgs[k] : j # i => (j \in Gone(k, n)' <=> j \in Gone(k, n))
      BY <1>3, <1>4, <1>5
    <3>3. Gone(k, n)' \subseteq DOMAIN msgs[k] /\ Gone(k, n) \subseteq DOMAIN msgs[k]
      BY DEF Gone
    <3>4. QED
      BY <3>1, <3>2, <3>3
  <2>2. Cardinality(Gone(k, n)') = Cardinality(Gone(k, n)) + 1
    BY <1>2, <2>1, FS_AddElement
  <2>3. QED
    BY <1>2, <1>5, <2>2 DEF OneMore
<1>6. CASE k # l \/ n # Row(l, i).step
  <2>1. \A j \in DOMAIN msgs[k] : j \in Gone(k, n)' <=> j \in Gone(k, n)
    BY <1>3, <1>4, <1>6
  <2>2. Gone(k, n)' \subseteq DOMAIN msgs[k] /\ Gone(k, n) \subseteq DOMAIN msgs[k]
    BY DEF Gone
  <2>3. Gone(k, n)' = Gone(k, n)
    BY <2>1, <2>2
  <2>4. QED
    BY <1>2, <1>6, <2>3 DEF OneMore
<1>7. QED
  BY <1>5, <1>6

(* A run goes on, and neither before nor after it is about to record.      *)
LEMMA AwayStays ==
  ASSUME TypeInv, NEW r \in Runs, \A q \in Runs : q # r => run'[q] = run[q],
         run[r].pc # "record", run'[r].pc # "record",
         NEW l \in Leads, NEW i, Row(l, i)'.status = "SENT" <=> Row(l, i).status = "SENT"
  PROVE  Away(l, i)' <=> Away(l, i)
BY DEF Away, Owns

(* A run mails and records one row.                                        *)
LEMMA MailsRunner ==
  ASSUME TypeInv, MailsCounted, NEW r \in Runs, Runner(r), faults' = 0
  PROVE  MailsCounted'
<1>1. faults \in Nat
  BY DEF TypeInv, ColumnsOK
<1>2. \A x \in Waiting : x.pc # "record"
  BY DEF Waiting
<1>3. ASSUME UNCHANGED <<mails, faults>>, \A q \in Runs : q # r => run'[q] = run[q],
             run[r].pc # "record", run'[r].pc # "record", SameRows,
             \A l \in Leads : \A i \in DOMAIN msgs[l] :
               Row(l, i)'.status = "SENT" <=> Row(l, i).status = "SENT"
      PROVE  MailsCounted'
  <2>1. \A l \in Leads : \A i \in DOMAIN msgs[l] : Away(l, i)' <=> Away(l, i)
    BY <1>3, AwayStays
  <2>2. QED
    BY <1>3, <2>1, MailsQuiet DEF SameRows, Row
<1>4. CASE UNCHANGED msgs /\ (Start(r) \/ Find(r) \/ Enough(r) \/ Reserve(r) \/ CountTouch(r))
  <2>1. SameRows /\ \A l \in Leads : \A i \in DOMAIN msgs[l] : Row(l, i)' = Row(l, i)
    BY <1>4 DEF SameRows, Row
  <2>2. UNCHANGED <<mails, faults>>
    BY <1>4 DEF Start, Find, Enough, Reserve, CountTouch
  <2>3. /\ \A q \in Runs : q # r => run'[q] = run[q]
        /\ run[r].pc # "record" /\ run'[r].pc # "record"
    <3>1. CASE Start(r)
      BY <3>1, StartDoes
    <3>2. CASE Find(r)
      BY <3>2, FindDoes
    <3>3. CASE Enough(r)
      BY <3>3, EnoughDoes
    <3>4. CASE CountTouch(r)
      BY <1>2, <3>4, CountTouchDoes
    <3>5. CASE Reserve(r)
      <4>1. PICK x : run' = [run EXCEPT ![r] = x] /\ x.pc # "record"
        <5>1. CASE \E x \in Waiting : run' = [run EXCEPT ![r] = x]
          BY <1>2, <5>1
        <5>2. CASE \E x \in Working : run' = [run EXCEPT ![r] = x] /\ x.pc = "generate"
          BY <5>2
        <5>3. QED
          BY <3>5, <5>1, <5>2, ReserveDoes
      <4>2. run[r].pc = "reserve"
        BY <3>5, ReserveDoes
      <4>3. run \in [Runs -> Waiting \cup Reserving \cup Working]
        BY DEF TypeInv, RunsOK
      <4>4. QED
        BY <4>1, <4>2, <4>3
    <3>6. QED
      BY <1>4, <3>1, <3>2, <3>3, <3>4, <3>5
  <2>4. QED
    BY <1>3, <2>1, <2>2, <2>3
<1>5. ASSUME Reserve(r), NEW x \in Working, run' = [run EXCEPT ![r] = x], x.pc = "generate",
             NEW row, Grown({run[r].lead}, row),
             row[run[r].lead].status = "GENERATING"
      PROVE  MailsCounted'
  <2>1. PICK l \in Leads : l = run[r].lead
    BY <1>5, ReserveDoes DEF Reserving
  <2>2. /\ \A q \in Runs : q # r => run'[q] = run[q]
        /\ run[r].pc # "record" /\ run'[r].pc # "record"
    BY <1>5, ReserveDoes DEF TypeInv, RunsOK
  <2>3. \A k \in Leads : \A i \in DOMAIN msgs[k] :
          i \in DOMAIN msgs'[k] /\ Row(k, i)' = Row(k, i)
    BY <1>5 DEF Grown, Row
  <2>4. \A k \in Leads : \A i \in DOMAIN msgs[k] : Away(k, i)' <=> Away(k, i)
    BY <2>2, <2>3, AwayStays
  <2>5. ASSUME NEW k \in Leads, NEW i \in DOMAIN msgs'[k], i \notin DOMAIN msgs[k]
        PROVE  ~ Away(k, i)'
    <3>1. k = l /\ i = Len(msgs[l]) + 1 /\ Row(k, i)'.status = "GENERATING"
      BY <1>5, <2>1, <2>5 DEF Grown, Row
    <3>2. ASSUME NEW q \in Runs, run'[q].pc = "record", run'[q].lead = k, run'[q].row = i
          PROVE  FALSE
      <4>1. run[q].pc = "record" /\ run[q].lead = k /\ run[q].row = i
        BY <2>2, <3>2
      <4>2. i \in DOMAIN msgs[k]
        BY <4>1, OwnRow
      <4>3. QED
        BY <2>5, <4>2
    <3>3. QED
      BY <3>1, <3>2 DEF Away, Owns
  <2>6. UNCHANGED <<mails, faults>>
    BY <1>5 DEF Reserve
  <2>7. QED
    BY <2>3, <2>4, <2>5, <2>6, MailsQuiet
<1>6. ASSUME NEW status, status # "SENT", run[r].pc = "generate",
             Rewritten(run[r].lead, run[r].row, status), UNCHANGED <<mails, faults>>,
             \A q \in Runs : q # r => run'[q] = run[q], run'[r].pc # "record"
      PROVE  MailsCounted'
  <2>1. /\ run[r].lead \in Leads /\ run[r].row \in DOMAIN msgs[run[r].lead]
        /\ Row(run[r].lead, run[r].row).status = "GENERATING"
    BY <1>6, OwnRow
  <2>2. SameRows /\ \A l \in Leads : \A i \in DOMAIN msgs[l] :
          Row(l, i)'.status = "SENT" <=> Row(l, i).status = "SENT"
    BY <1>6, <2>1 DEF Rewritten, SameRows, Row
  <2>3. QED
    BY <1>3, <1>6, <2>2
<1>7. CASE Mail(r)
  <2>1. /\ run[r].pc = "generate" /\ OneMore(run[r].lead, MyRow(r).step)
        /\ \A q \in Runs : q # r => run'[q] = run[q]
        /\ run'[r].pc = "record" /\ run'[r].lead = run[r].lead /\ run'[r].row = run[r].row
        /\ UNCHANGED <<msgs, faults>>
    BY <1>7, MailDoes DEF Mail
  <2>2. /\ run[r].lead \in Leads /\ run[r].row \in DOMAIN msgs[run[r].lead]
        /\ MyRow(r) = Row(run[r].lead, run[r].row) /\ MyRow(r).status = "GENERATING"
    BY <2>1, OwnRow
  <2>8. PICK l \in Leads : l = run[r].lead
    BY <2>2
  <2>9. PICK i \in DOMAIN msgs[l] : i = run[r].row
    BY <2>2, <2>8
  <2>3. \A k \in Leads : \A j \in DOMAIN msgs[k] : Row(k, j)' = Row(k, j)
    BY <2>1 DEF Row
  <2>4. ~ Away(l, i)
    BY <2>1, <2>2, <2>8, <2>9, NotAway
  <2>5. Away(l, i)'
    BY <2>1, <2>8, <2>9 DEF Away, Owns
  <2>6. ASSUME NEW k \in Leads, NEW j \in DOMAIN msgs[k], k # l \/ j # i
        PROVE  Away(k, j)' <=> Away(k, j)
    BY <2>1, <2>8, <2>9, <2>3, <2>6 DEF Away, Owns
  <2>7. QED
    BY <2>1, <2>2, <2>8, <2>9, <2>3, <2>4, <2>5, <2>6, MailsOneMore
<1>8. CASE Record(r)
  <2>1. /\ run[r].pc = "record" /\ run'[r].pc = "touch"
        /\ \A q \in Runs : q # r => run'[q] = run[q]
        /\ Rewritten(run[r].lead, run[r].row, "SENT") /\ UNCHANGED <<mails, faults>>
    BY <1>1, <1>8, RecordDoes DEF Record
  <2>7. run[r].lead \in Leads /\ run[r].row \in DOMAIN msgs[run[r].lead]
    BY <2>1, OwnRow
  <2>8. PICK l \in Leads : l = run[r].lead
    BY <2>7
  <2>2. PICK i \in DOMAIN msgs[l] : l = run[r].lead /\ i = run[r].row
    BY <2>7, <2>8
  <2>3. SameRows
    BY <2>1, <2>7 DEF Rewritten, SameRows
  <2>4. Row(l, i)'.status = "SENT" /\ Away(l, i) /\ Away(l, i)'
    <3>1. Row(l, i)'.status = "SENT"
      BY <2>1, <2>2 DEF Rewritten, Row
    <3>2. QED
      BY <2>1, <2>2, <3>1 DEF Away, Owns
  <2>5. ASSUME NEW k \in Leads, NEW j \in DOMAIN msgs[k], k # l \/ j # i
        PROVE  Away(k, j)' <=> Away(k, j)
    <3>1. Row(k, j)'.status = Row(k, j).status
      BY <2>1, <2>2, <2>5 DEF Rewritten, Row
    <3>2. QED
      BY <2>1, <2>2, <2>5, <3>1 DEF Away, Owns
  <2>6. QED
    BY <2>1, <2>3, <2>4, <2>5, MailsQuiet DEF SameRows, Row
<1>9. CASE Draft(r)
  BY <1>6, <1>9, DraftDoes DEF Draft
<1>10. CASE Fail(r)
  <2>1. UNCHANGED <<mails, faults>>
    BY <1>1, <1>10, FailDoes
  <2>2. QED
    BY <1>2, <1>6, <1>10, <2>1, FailDoes
<1>11. CASE Reserve(r)
  <2>1. CASE UNCHANGED msgs
    BY <1>4, <1>11, <2>1
  <2>2. CASE /\ Grown({run[r].lead}, [k \in {run[r].lead} |-> Reserved(run[r].found.next)])
             /\ \E x \in Working : run' = [run EXCEPT ![r] = x] /\ x.pc = "generate"
    <3>1. PICK row : row = [k \in {run[r].lead} |-> Reserved(run[r].found.next)]
      OBVIOUS
    <3>2. row[run[r].lead].status = "GENERATING" /\ Grown({run[r].lead}, row)
      BY <2>2, <3>1 DEF Reserved
    <3>3. QED
      BY <1>5, <1>11, <2>2, <3>2
  <2>3. QED
    BY <1>11, <2>1, <2>2, ReserveDoes
<1>12. CASE Start(r) \/ Find(r) \/ Enough(r) \/ CountTouch(r)
  BY <1>4, <1>12 DEF Start, Find, Enough, CountTouch
<1>13. QED
  BY <1>7, <1>8, <1>9, <1>10, <1>11, <1>12 DEF Runner

(* Every step keeps the count of mails.                                    *)
LEMMA MailsNext ==
  ASSUME TypeInv, MailsCounted, [Next]_vars
  PROVE  MailsCounted'
<1>1. SUFFICES ASSUME faults' = 0
               PROVE  MailsCounted'
  BY DEF MailsCounted
<1>2. faults \in Nat
  BY DEF TypeInv, ColumnsOK
<1>3. CASE \E r \in Runs : Runner(r)
  BY <1>1, <1>3, MailsRunner
<1>4. CASE UNCHANGED <<msgs, run, mails, faults>>
  BY <1>4, MailsQuiet DEF Away, Owns, Row
<1>5. ASSUME NEW l \in Leads, NEW i \in DOMAIN msgs[l], StaffSends(l, i)
      PROVE  MailsCounted'
  <2>1. /\ Row(l, i).status = "DRAFT" /\ Rewritten(l, i, "SENT")
        /\ OneMore(l, Row(l, i).step) /\ UNCHANGED <<run, faults>>
    BY <1>5 DEF StaffSends
  <2>2. \A k \in Leads : \A j \in DOMAIN msgs[k] : k # l \/ j # i =>
          Row(k, j)'.status = Row(k, j).status
    BY <2>1 DEF Rewritten, Row
  <2>3. Row(l, i)'.status = "SENT"
    BY <2>1 DEF Rewritten, Row
  <2>4. ~ Away(l, i)
    BY <2>1, NotAway
  <2>5. Away(l, i)'
    BY <2>3 DEF Away
  <2>6. ASSUME NEW k \in Leads, NEW j \in DOMAIN msgs[k], k # l \/ j # i
        PROVE  Away(k, j)' <=> Away(k, j)
    BY <2>1, <2>2, <2>6 DEF Away, Owns
  <2>7. /\ \A k \in Leads : DOMAIN msgs'[k] = DOMAIN msgs[k]
        /\ \A k \in Leads : \A j \in DOMAIN msgs[k] : Row(k, j)'.step = Row(k, j).step
    BY <2>1 DEF Rewritten, Row
  <2>8. QED
    BY <2>1, <2>4, <2>5, <2>6, <2>7, MailsOneMore
<1>6. ASSUME NEW l \in Leads, NEW i \in DOMAIN msgs[l], StaffDrops(l, i),
             UNCHANGED <<run, mails, faults>>
      PROVE  MailsCounted'
  <2>1. PICK status \in {"REJECTED", "FAILED", "DELETED"} : Rewritten(l, i, status)
    BY <1>6 DEF StaffDrops
  <2>2. \A k \in Leads : \A j \in DOMAIN msgs[k] : k # l \/ j # i =>
          Row(k, j)'.status = Row(k, j).status
    BY <2>1 DEF Rewritten, Row
  <2>3. Row(l, i)'.status # "SENT" /\ Row(l, i).status # "SENT"
    BY <1>6, <2>1 DEF Rewritten, Row, StaffDrops
  <2>4. ASSUME NEW k \in Leads, NEW j \in DOMAIN msgs[k]
        PROVE  Away(k, j)' <=> Away(k, j)
    BY <1>6, <2>2, <2>3, <2>4 DEF Away, Owns
  <2>5. /\ \A k \in Leads : DOMAIN msgs'[k] = DOMAIN msgs[k]
        /\ \A k \in Leads : \A j \in DOMAIN msgs[k] : Row(k, j)'.step = Row(k, j).step
    BY <2>1 DEF Rewritten, Row
  <2>6. QED
    BY <1>6, <2>4, <2>5, MailsQuiet
<1>7. CASE \E l \in Leads : Review(l)
  <2>1. PICK l \in Leads : Review(l)
    BY <1>7
  <2>2. CASE \E i \in DOMAIN msgs[l] : Approve(l, i) \/ MarkSent(l, i)
    BY <1>5, <2>2, SendDoes
  <2>3. CASE (\E i \in DOMAIN msgs[l] : Discard(l, i)) \/ \E stop \in BOOLEAN : Delete(l, stop)
    <3>1. /\ UNCHANGED <<run, mails, faults>>
          /\ UNCHANGED msgs \/ \E i \in DOMAIN msgs[l] : StaffDrops(l, i)
      BY <2>3, DropDoes
    <3>2. QED
      BY <1>4, <1>6, <3>1
  <2>4. QED
    BY <2>1, <2>2, <2>3 DEF Review
<1>8. CASE Followups
  <2>1. PICK due \in SUBSET Leads :
          /\ \A l \in due : FollowupRow(l).status = "DRAFT"
          /\ Grown(due, [l \in due |-> FollowupRow(l)])
    BY <1>8, FollowupsDo
  <2>2. UNCHANGED <<run, mails, faults>>
    BY <1>8 DEF Followups
  <2>3. \A k \in Leads : \A i \in DOMAIN msgs[k] :
          i \in DOMAIN msgs'[k] /\ Row(k, i)' = Row(k, i)
    BY <2>1 DEF Grown, Row
  <2>4. \A k \in Leads : \A i \in DOMAIN msgs[k] : Away(k, i)' <=> Away(k, i)
    BY <2>2, <2>3 DEF Away, Owns
  <2>5. ASSUME NEW k \in Leads, NEW i \in DOMAIN msgs'[k], i \notin DOMAIN msgs[k]
        PROVE  ~ Away(k, i)'
    <3>1. Row(k, i)'.status = "DRAFT"
      <4>1. CASE k \in due
        BY <2>1, <2>5, <4>1 DEF Grown, Row
      <4>2. CASE k \notin due
        BY <2>1, <2>5, <4>2 DEF Grown
      <4>3. QED
        BY <4>1, <4>2
    <3>2. ASSUME NEW q \in Runs, run[q].pc = "record", run[q].lead = k, run[q].row = i
          PROVE  FALSE
      BY <2>5, <3>2, OwnRow
    <3>3. QED
      BY <2>2, <3>1, <3>2 DEF Away, Owns
  <2>6. QED
    BY <2>2, <2>3, <2>4, <2>5, MailsQuiet
<1>9. CASE Crash
  BY <1>1, <1>2, <1>9, CrashDoes
<1>10. ASSUME Next, ~ (\E r \in Runs : Runner(r)), ~ (\E l \in Leads : Review(l)),
              ~ (\E wanted \in Sequences : ReplaceSequence(wanted)), ~ Followups, ~ Crash
       PROVE  UNCHANGED <<msgs, run, mails, faults>>
  BY <1>10 DEF Next, Staff, SetResponded, AssignCampaigns, UpdateData, ScheduleMeeting,
     Import, Answered, ReplaceLeads
<1>13. ASSUME NEW wanted \in Sequences, ReplaceSequence(wanted)
       PROVE  UNCHANGED <<msgs, run, mails, faults>>
  BY <1>1, <1>2, <1>13 DEF ReplaceSequence
<1>11. CASE UNCHANGED vars
  BY <1>4, <1>11 DEF vars
<1>12. QED
  BY <1>3, <1>4, <1>7, <1>8, <1>9, <1>10, <1>11, <1>13

(* As long as nothing fails, the mails of a step are those on record and   *)
(* those about to be recorded.                                             *)
LEMMA MailsAreCounted == Spec => []MailsCounted
<1>1. Init => TypeInv /\ MailsCounted
  <2>1. ASSUME Init
        PROVE  MailsCounted
    <3>1. \A l \in Leads, n \in Steps : mails[l][n] = 0 /\ Gone(l, n) = {}
      BY <2>1 DEF Init, Gone
    <3>2. QED
      BY <3>1, FS_EmptySet DEF MailsCounted
  <2>2. QED
    BY <2>1, TypeInvInit
<1>2. TypeInv /\ MailsCounted /\ [Next]_vars => TypeInv' /\ MailsCounted'
  BY TypeInvNext, MailsNext
<1>3. QED
  BY <1>1, <1>2, PTL DEF Spec

(* The rows of a step that are away: one, and one more for each follow-up  *)
(* of the step or of an earlier one.                                       *)
LEMMA GoneBounded ==
  ASSUME OneLoop, TypeInv, Sequenced, MailsCounted
  PROVE  StepReachesOnce
<1>1. SUFFICES ASSUME faults = 0, NEW l \in Leads, NEW n \in Steps
               PROVE  mails[l][n]
                        <= 1 + Cardinality({i \in Followed(l) : msgs[l][i].step <= n})
  BY DEF StepReachesOnce
<1> DEFINE T == {i \in Followed(l) : msgs[l][i].step <= n}
           S == Gone(l, n)
<1>2. S \in SUBSET DOMAIN msgs[l] /\ T \in SUBSET DOMAIN msgs[l]
  BY DEF Gone, Followed
<1>3. n \in Nat /\ \A i \in DOMAIN msgs[l] : Row(l, i).step \in Nat
  BY RowsAreNumbered, ConstantsAssumption DEF TypeInv, Message, Steps
<1>4. \A j \in S : Row(l, j).step = n
  BY DEF Gone
<1>5. ASSUME NEW j \in S
      PROVE  IF Row(l, j).followup THEN j \in T ELSE OwnTouch(l, j)
  <2>1. CASE Row(l, j).followup
    BY <1>2, <1>3, <1>4, <2>1 DEF Followed, Row
  <2>2. CASE ~ Row(l, j).followup
    <3>1. CASE Row(l, j).status = "SENT"
      BY <2>2, <3>1 DEF OwnTouch, Live
    <3>2. CASE \E r \in Runs : run[r].pc = "record" /\ Owns(r, l, j)
      <4>1. Row(l, j).status = "GENERATING"
        BY <3>2, OwnRow DEF Owns
      <4>2. QED
        BY <2>2, <4>1 DEF OwnTouch, Live
    <3>3. QED
      BY <3>1, <3>2 DEF Gone
  <2>3. QED
    BY <2>1, <2>2
<1>6. \A i, j \in S : ~ Earlier(Row(l, i).step, Row(l, j).step)
  BY <1>1, <1>2, <1>3, <1>4 DEF Earlier, Whole
<1>7. ASSUME NEW j \in S, NEW k \in DOMAIN msgs[l], Hides(l, k, j)
      PROVE  k \in T \ S
  <2>1. Earlier(Row(l, k).step, n) /\ Row(l, k).followup
    BY <1>4, <1>7 DEF Hides, SentFollowup
  <2>2. QED
    BY <1>1, <1>3, <1>4, <2>1 DEF Followed, Row, Earlier, Whole
<1>8. Cardinality(S) <= 1 + Cardinality(T)
  <2> HIDE DEF S, T
  <2>1. QED
    BY <1>2, <1>5, <1>6, <1>7, HidersCounted DEF TypeInv
<1>9. mails[l][n] = Cardinality(S)
  BY <1>1 DEF MailsCounted
<1>10. QED
  BY <1>8, <1>9

(* A step reaches a lead once, unless a mail went out that was not         *)
(* recorded; each follow-up of the step or of an earlier one may repeat it *)
(* once more.                                                              *)
THEOREM StepsReachOnce ==
  ASSUME OneLoop
  PROVE  Spec => []StepReachesOnce
<1>1. TypeInv /\ ClaimsFit /\ Sequenced /\ MailsCounted => StepReachesOnce
  BY GoneBounded
<1>2. QED
  BY <1>1, OrderKept, MailsAreCounted, PTL

-----------------------------------------------------------------------------
(* Answers and opt-outs.                                                   *)

\* The row may still reach its lead.
OpenRow(l, i) ==
  \/ Row(l, i).status = "DRAFT"
  \/ \E r \in Runs : run[r].pc = "generate" /\ Owns(r, l, i)

SameHalts == \A l \in Leads : Halted(l)' <=> Halted(l)

(* The count of a touch halts nobody, and nobody is halted no more.        *)
LEMMA TouchHalts ==
  ASSUME TypeInv, NEW l \in Leads, Touched(l),
         \A k \in Leads : lead'[k].out = lead[k].out
  PROVE  SameHalts
<1>1. ~ cl[l].member => ~ cl[l].responded /\ ~ cl[l].meeting
  BY DEF TypeInv, LinksOK, NoMember
<1>2. cl'[l].responded = cl[l].responded /\ cl'[l].meeting = cl[l].meeting
  <2>1. CASE cl[l].member
    BY <2>1, CampaignLeadFits DEF Touched, TypeInv
  <2>2. CASE ~ cl[l].member
    <3>1. /\ Touch(l) = [NewMember EXCEPT !.sent = 1] /\ ~ NewMember.responded
          /\ ~ NewMember.meeting /\ NewMember \in CampaignLead
      BY <2>2, CampaignLeadFits DEF Touch, TypeInv
    <3>2. ~ Touch(l).responded /\ ~ Touch(l).meeting
      BY <3>1 DEF CampaignLead
    <3>3. QED
      BY <1>1, <2>2, <3>2 DEF Touched, TypeInv, ColumnsOK, CampaignLead
  <2>3. QED
    BY <2>1, <2>2
<1>3. QED
  BY <1>2 DEF Touched, SameHalts, Halted

(* The sum of late mails and of rows that may still go out.                *)
LEMMA OpenLess ==
  ASSUME ColumnsOK, NEW l \in Leads,
         late[l] + Cardinality(Open(l)) <= 1 + Cardinality(Followed(l)),
         Followed(l)' = Followed(l),
         \/ late'[l] = late[l] /\ Open(l)' \subseteq Open(l)
         \/ /\ late'[l] \in {late[l], late[l] + 1}
            /\ \E i \in Open(l) : Open(l)' \subseteq Open(l) \ {i}
  PROVE  late'[l] + Cardinality(Open(l)') <= 1 + Cardinality(Followed(l)')
<1>1. /\ IsFiniteSet(Open(l)) /\ Cardinality(Open(l)) \in Nat
      /\ Cardinality(Followed(l)) \in Nat /\ late[l] \in Nat
  BY RowsAreNumbered DEF Open, Followed, ColumnsOK
<1>2. CASE late'[l] = late[l] /\ Open(l)' \subseteq Open(l)
  <2>1. Cardinality(Open(l)') \in Nat /\ Cardinality(Open(l)') <= Cardinality(Open(l))
    BY <1>1, <1>2, FS_Subset, FS_CardinalityType
  <2>2. QED
    BY <1>1, <1>2, <2>1
<1>3. CASE /\ late'[l] \in {late[l], late[l] + 1}
           /\ \E i \in Open(l) : Open(l)' \subseteq Open(l) \ {i}
  <2>1. PICK i \in Open(l) : Open(l)' \subseteq Open(l) \ {i}
    BY <1>3
  <2>2. IsFiniteSet(Open(l) \ {i}) /\ Cardinality(Open(l) \ {i}) = Cardinality(Open(l)) - 1
    BY <1>1, FS_RemoveElement
  <2>3. /\ Cardinality(Open(l)') \in Nat
        /\ Cardinality(Open(l)') <= Cardinality(Open(l) \ {i})
    BY <2>1, <2>2, FS_Subset, FS_CardinalityType
  <2>4. QED
    BY <1>1, <1>3, <2>2, <2>3
<1>4. QED
  BY <1>2, <1>3

(* Rows stay follow-ups or touches of runs.                                *)
LEMMA SameFollowed ==
  ASSUME SameRows, NEW l \in Leads
  PROVE  Followed(l)' = Followed(l)
<1>1. \A i \in DOMAIN msgs[l] : i \in Followed(l)' <=> i \in Followed(l)
  BY DEF Followed, SameRows
<1>2. Followed(l)' \subseteq DOMAIN msgs[l] /\ Followed(l) \subseteq DOMAIN msgs[l]
  BY DEF Followed, SameRows
<1>3. QED
  BY <1>1, <1>2

(* No row comes up that may still go out.                                  *)
LEMMA HaltsQuiet ==
  ASSUME TypeInv, HaltsCounted, UNCHANGED late, SameRows,
         \A l \in Leads : Halted(l) => Halted(l)',
         \A l \in Leads : \A i \in DOMAIN msgs[l] : OpenRow(l, i)' => OpenRow(l, i)
  PROVE  HaltsCounted'
<1>1. ASSUME NEW l \in Leads
      PROVE  late'[l] + Cardinality(Open(l)') <= 1 + Cardinality(Followed(l)')
  <2>1. Open(l)' \subseteq Open(l)
    <3>1. \A i \in Open(l)' : i \in DOMAIN msgs[l] /\ OpenRow(l, i)'
      BY DEF Open, OpenRow, SameRows
    <3>2. QED
      BY <3>1 DEF Open, OpenRow
  <2>2. Followed(l)' = Followed(l)
    BY SameFollowed
  <2>3. QED
    BY <2>1, <2>2, OpenLess DEF TypeInv, HaltsCounted
<1>2. QED
  BY <1>1 DEF HaltsCounted

(* A mail that goes out is one of those that might.                        *)
LEMMA HaltsOneMore ==
  ASSUME TypeInv, HaltsCounted, SameRows, SameHalts, NEW l \in Leads,
         NEW i \in DOMAIN msgs[l], NEW n \in Steps, OneMore(l, n),
         OpenRow(l, i), ~ OpenRow(l, i)',
         \A k \in Leads : \A j \in DOMAIN msgs[k] : OpenRow(k, j)' => OpenRow(k, j)
  PROVE  HaltsCounted'
<1>1. ASSUME NEW k \in Leads
      PROVE  /\ Open(k)' \subseteq Open(k) /\ Followed(k)' = Followed(k)
             /\ k = l => i \in Open(k) /\ Open(k)' \subseteq Open(k) \ {i}
  <2>1. \A j \in Open(k)' : j \in DOMAIN msgs[k] /\ OpenRow(k, j)'
    BY DEF Open, OpenRow, SameRows
  <2>2. QED
    BY <2>1, SameFollowed DEF Open, OpenRow
<1>2. late'[l] \in {late[l], late[l] + 1} /\ \A k \in Leads : k # l => late'[k] = late[k]
  BY DEF OneMore
<1>3. ASSUME NEW k \in Leads
      PROVE  late'[k] + Cardinality(Open(k)') <= 1 + Cardinality(Followed(k)')
  BY <1>1, <1>2, OpenLess DEF TypeInv, HaltsCounted
<1>4. \A k \in Leads : ~ Halted(k)' => late'[k] = 0
  BY DEF OneMore, SameHalts, HaltsCounted
<1>5. QED
  BY <1>3, <1>4 DEF HaltsCounted

(* A lead of which no mail is late.                                        *)
LEMMA HaltsReset ==
  ASSUME TypeInv', OnePendingTouch', NEW l \in Leads, late'[l] = 0
  PROVE  late'[l] + Cardinality(Open(l)') <= 1 + Cardinality(Followed(l)')
<1>1. msgs'[l] \in Seq(Message)
  BY DEF TypeInv, ColumnsOK
<1>2. IsFiniteSet(DOMAIN msgs'[l])
  <2>1. Len(msgs'[l]) \in Nat /\ DOMAIN msgs'[l] = 1 .. Len(msgs'[l])
    BY <1>1
  <2>2. QED
    BY <2>1, FS_Interval
<1>3. Open(l)' \subseteq Pending(l)'
  BY DEF Open, Pending, Owns, TypeInv, OwnersOK, MyRow, Row
<1>4. Pending(l)' \subseteq DOMAIN msgs'[l] /\ Followed(l)' \subseteq DOMAIN msgs'[l]
  BY DEF Pending, Followed
<1>5. /\ IsFiniteSet(Pending(l)') /\ Cardinality(Pending(l)') \in Nat
      /\ Cardinality(Followed(l)') \in Nat
  BY <1>2, <1>4, FS_Subset, FS_CardinalityType
<1>6. Cardinality(Open(l)') \in Nat /\ Cardinality(Open(l)') <= Cardinality(Pending(l)')
  BY <1>3, <1>5, FS_Subset, FS_CardinalityType
<1>7. QED
  BY <1>5, <1>6 DEF OnePendingTouch

(* The steps of a run: only a reservation comes up with a row, for a lead  *)
(* that is not halted.                                                     *)
LEMMA HaltsRunner ==
  ASSUME TypeInv, TypeInv', ClaimsFit, OnePendingTouch', HaltsCounted,
         NEW r \in Runs, Runner(r)
  PROVE  HaltsCounted'
<1>1. \A x \in Waiting : x.pc \notin {"generate", "record", "touch"}
  BY DEF Waiting
<1>2. ASSUME UNCHANGED <<lead, cl>>
      PROVE  SameHalts
  BY <1>2 DEF SameHalts, Halted
<1>3. ASSUME UNCHANGED <<msgs, late>>, \A q \in Runs : q # r => run'[q] = run[q],
             run'[r].pc # "generate", \A l \in Leads : Halted(l) => Halted(l)'
      PROVE  HaltsCounted'
  <2>1. \A l \in Leads : \A i \in DOMAIN msgs[l] : OpenRow(l, i)' => OpenRow(l, i)
    BY <1>3 DEF OpenRow, Owns, Row
  <2>2. SameRows
    BY <1>3 DEF SameRows
  <2>3. QED
    BY <1>3, <2>1, <2>2, HaltsQuiet
<1>4. CASE Start(r) \/ Find(r) \/ Enough(r)
  <2>1. UNCHANGED <<lead, cl, msgs, late>>
    BY <1>4 DEF Start, Find, Enough
  <2>2. (\A q \in Runs : q # r => run'[q] = run[q]) /\ run'[r].pc # "generate"
    BY <1>4, StartDoes, FindDoes, EnoughDoes
  <2>3. QED
    BY <1>2, <1>3, <2>1, <2>2 DEF SameHalts
<1>5. CASE CountTouch(r)
  <2>1. /\ Touched(run[r].lead) /\ run[r].lead \in Leads /\ run'[r].pc # "generate"
        /\ \A q \in Runs : q # r => run'[q] = run[q]
    BY <1>1, <1>5, CountTouchDoes DEF Working
  <2>2. \A k \in Leads : lead'[k].out = lead[k].out
    <3>1. lead' = lead \/ lead' = [lead EXCEPT ![run[r].lead].status = "CONTACTED"]
      BY <1>5 DEF CountTouch
    <3>2. lead \in [Leads -> LeadRow]
      BY DEF TypeInv, ColumnsOK, LeadRow
    <3>3. QED
      BY <3>1, <3>2 DEF LeadRow
  <2>3. SameHalts
    BY <2>1, <2>2, TouchHalts
  <2>4. UNCHANGED <<msgs, late>>
    BY <1>5 DEF CountTouch
  <2>5. QED
    BY <1>3, <2>1, <2>3, <2>4 DEF SameHalts
<1>6. ASSUME run[r].pc \in {"generate", "record"}, NEW status \in {"DRAFT", "SENT", "FAILED"},
             status = "DRAFT" => run[r].pc = "generate",
             Rewritten(run[r].lead, run[r].row, status), UNCHANGED <<lead, cl, late>>,
             \A q \in Runs : q # r => run'[q] = run[q], run'[r].pc # "generate"
      PROVE  HaltsCounted'
  <2>1. run[r].lead \in Leads /\ run[r].row \in DOMAIN msgs[run[r].lead]
    BY <1>6, OwnRow
  <2>2. PICK l \in Leads : l = run[r].lead
    BY <2>1
  <2>3. PICK i \in DOMAIN msgs[l] : l = run[r].lead /\ i = run[r].row
    BY <2>1, <2>2
  <2>4. SameRows
    BY <1>6, <2>1, RewrittenSame
  <2>5. ASSUME NEW k \in Leads, NEW j \in DOMAIN msgs[k], OpenRow(k, j)'
        PROVE  OpenRow(k, j)
    <3>1. CASE k # l \/ j # i
      <4>1. Row(k, j)'.status = Row(k, j).status
        BY <1>6, <2>3, <3>1 DEF Rewritten, Row
      <4>2. QED
        BY <1>6, <2>5, <4>1 DEF OpenRow, Owns
    <3>2. CASE k = l /\ j = i
      <4>1. Row(l, i)'.status = status
        BY <1>6, <2>3 DEF Rewritten, Row
      <4>2. CASE status = "DRAFT"
        BY <1>6, <2>3, <3>2, <4>2 DEF OpenRow, Owns
      <4>3. CASE status # "DRAFT"
        BY <1>6, <2>5, <3>2, <4>1, <4>3 DEF OpenRow, Owns
      <4>4. QED
        BY <4>2, <4>3
    <3>3. QED
      BY <3>1, <3>2
  <2>6. QED
    BY <1>2, <1>6, <2>4, <2>5, HaltsQuiet DEF SameHalts
<1>7. ASSUME run[r].pc = "generate", OneMore(run[r].lead, MyRow(r).step), SameRows,
             \A l \in Leads : \A i \in DOMAIN msgs[l] :
               Row(l, i)'.status = "DRAFT" => Row(l, i).status = "DRAFT",
             UNCHANGED <<lead, cl>>,
             \A q \in Runs : q # r => run'[q] = run[q], run'[r].pc # "generate"
      PROVE  HaltsCounted'
  <2>1. /\ run[r].lead \in Leads /\ run[r].row \in DOMAIN msgs[run[r].lead]
        /\ MyRow(r) = Row(run[r].lead, run[r].row) /\ MyRow(r).status = "GENERATING"
        /\ MyRow(r).step \in Steps
    BY <1>7, OwnRow
  <2>2. PICK l \in Leads : l = run[r].lead
    BY <2>1
  <2>3. PICK i \in DOMAIN msgs[l] : l = run[r].lead /\ i = run[r].row
    BY <2>1, <2>2
  <2>4. OpenRow(l, i)
    BY <1>7, <2>3 DEF OpenRow, Owns
  <2>5. ~ OpenRow(l, i)'
    <3>1. Row(l, i)'.status # "DRAFT"
      BY <1>7, <2>1, <2>3
    <3>2. ASSUME NEW q \in Runs, run'[q].pc = "generate", run'[q].lead = l, run'[q].row = i
          PROVE  FALSE
      <4>1. q # r /\ Owns(q, run[r].lead, run[r].row)
        BY <1>7, <2>3, <3>2 DEF Owns
      <4>2. QED
        BY <1>7, <4>1 DEF TypeInv, OwnersOK
    <3>3. QED
      BY <3>1, <3>2 DEF OpenRow, Owns
  <2>6. \A k \in Leads : \A j \in DOMAIN msgs[k] : OpenRow(k, j)' => OpenRow(k, j)
    BY <1>7 DEF OpenRow, Owns
  <2>7. QED
    BY <1>2, <1>7, <2>1, <2>2, <2>4, <2>5, <2>6, HaltsOneMore
<1>8. CASE Draft(r)
  BY <1>6, <1>8, DraftDoes DEF Draft
<1>9. CASE Record(r)
  <2>1. /\ run[r].pc = "record" /\ run'[r].pc = "touch"
        /\ \A q \in Runs : q # r => run'[q] = run[q]
        /\ Rewritten(run[r].lead, run[r].row, "SENT") \/ UNCHANGED msgs
    BY <1>9, RecordDoes
  <2>2. UNCHANGED <<lead, cl, late>>
    BY <1>9 DEF Record
  <2>3. QED
    BY <1>2, <1>3, <1>6, <2>1, <2>2 DEF SameHalts
<1>10. CASE Mail(r)
  <2>1. UNCHANGED <<lead, cl, msgs>>
    BY <1>10 DEF Mail
  <2>2. SameRows /\ \A l \in Leads : \A i \in DOMAIN msgs[l] : Row(l, i)' = Row(l, i)
    BY <2>1 DEF SameRows, Row
  <2>3. QED
    BY <1>7, <1>10, <2>1, <2>2, MailDoes
<1>11. CASE Fail(r)
  <2>1. /\ run[r].pc = "generate" /\ run'[r] \in Waiting
        /\ Rewritten(run[r].lead, run[r].row, "FAILED")
        /\ \A q \in Runs : q # r => run'[q] = run[q]
        /\ UNCHANGED late \/ OneMore(run[r].lead, MyRow(r).step)
    BY <1>11, FailDoes
  <2>2. UNCHANGED <<lead, cl>>
    BY <1>11 DEF Fail
  <2>3. run'[r].pc # "generate"
    BY <1>1, <2>1
  <2>4. CASE UNCHANGED late
    BY <1>6, <2>1, <2>2, <2>3, <2>4
  <2>5. CASE OneMore(run[r].lead, MyRow(r).step)
    <3>1. run[r].lead \in Leads /\ run[r].row \in DOMAIN msgs[run[r].lead]
      BY <2>1, OwnRow
    <3>2. SameRows /\ \A l \in Leads : \A i \in DOMAIN msgs[l] :
            Row(l, i)'.status = "DRAFT" => Row(l, i).status = "DRAFT"
      BY <2>1, <3>1 DEF Rewritten, SameRows, Row
    <3>3. QED
      BY <1>7, <2>1, <2>2, <2>3, <2>5, <3>2
  <2>6. QED
    BY <2>1, <2>4, <2>5
<1>12. CASE Reserve(r)
  <2>1. /\ SameFlags /\ UNCHANGED <<lead, late>> /\ run[r].pc = "reserve"
        /\ run[r].lead \in Leads
    BY <1>12, ReserveDoes DEF Reserve, Reserving
  <2>2. SameHalts
    BY <2>1 DEF SameFlags, SameHalts, Halted
  <2>3. CASE UNCHANGED msgs /\ \E x \in Waiting : run' = [run EXCEPT ![r] = x]
    <3>1. (\A q \in Runs : q # r => run'[q] = run[q]) /\ run'[r].pc # "generate"
      BY <1>1, <2>3 DEF TypeInv, RunsOK
    <3>2. QED
      BY <1>3, <2>1, <2>2, <2>3, <3>1 DEF SameHalts
  <2>4. CASE /\ run[r].found.code = "step"
             /\ Grown({run[r].lead}, [k \in {run[r].lead} |-> Reserved(run[r].found.next)])
             /\ \E x \in Working : run' = [run EXCEPT ![r] = x] /\ x.lead = run[r].lead
    <3>1. PICK l \in Leads : l = run[r].lead
      BY <2>1
    <3>2. ~ Halted(l) /\ late[l] = 0
      BY <2>1, <2>4, <3>1 DEF ClaimsFit, HaltsCounted
    <3>3. late'[l] + Cardinality(Open(l)') <= 1 + Cardinality(Followed(l)')
      BY <2>1, <3>2, HaltsReset
    <3>4. ASSUME NEW k \in Leads, k # l
          PROVE  late'[k] + Cardinality(Open(k)') <= 1 + Cardinality(Followed(k)')
      <4>1. msgs'[k] = msgs[k]
        BY <2>4, <3>1, <3>4 DEF Grown
      <4>2. (\A q \in Runs : q # r => run'[q] = run[q]) /\ run'[r].lead = l
        BY <2>4, <3>1 DEF TypeInv, RunsOK
      <4>3. Open(k)' \subseteq Open(k)
        BY <3>4, <4>1, <4>2 DEF Open, Owns, Row
      <4>4. Followed(k)' = Followed(k)
        BY <4>1 DEF Followed
      <4>5. QED
        BY <2>1, <4>3, <4>4, OpenLess DEF TypeInv, HaltsCounted
    <3>5. \A k \in Leads : ~ Halted(k)' => late'[k] = 0
      BY <2>1, <2>2 DEF SameHalts, HaltsCounted
    <3>6. QED
      BY <3>3, <3>4, <3>5 DEF HaltsCounted
  <2>5. QED
    BY <1>12, <2>3, <2>4, ReserveDoes
<1>13. QED
  BY <1>4, <1>5, <1>8, <1>9, <1>10, <1>11, <1>12 DEF Runner

(* Operations that write to no row: each lead keeps its count of late      *)
(* mails and stays halted if it was, or has a new count.                   *)
LEMMA HaltsWritten ==
  ASSUME TypeInv, TypeInv', OnePendingTouch', HaltsCounted, UNCHANGED <<msgs, run>>,
         \A l \in Leads : \/ late'[l] = 0
                          \/ late'[l] = late[l] /\ (Halted(l) => Halted(l)')
  PROVE  HaltsCounted'
<1>1. ASSUME NEW l \in Leads
      PROVE  /\ ~ Halted(l)' => late'[l] = 0
             /\ late'[l] + Cardinality(Open(l)') <= 1 + Cardinality(Followed(l)')
  <2>1. CASE late'[l] = 0
    BY <2>1, HaltsReset
  <2>2. CASE late'[l] = late[l] /\ (Halted(l) => Halted(l)')
    <3>1. Open(l)' = Open(l) /\ Followed(l)' = Followed(l)
      BY DEF Open, Owns, Row, Followed
    <3>2. QED
      BY <2>2, <3>1 DEF HaltsCounted
  <2>3. QED
    BY <2>1, <2>2
<1>2. QED
  BY <1>1 DEF HaltsCounted

(* Follow-ups come up for leads that are not halted.                       *)
LEMMA HaltsFollowups ==
  ASSUME TypeInv, TypeInv', OnePendingTouch', HaltsCounted, Followups
  PROVE  HaltsCounted'
<1>1. UNCHANGED <<lead, cl, run, late>>
  BY DEF Followups
<1>2. PICK due \in SUBSET Leads :
        /\ \A l \in due : FollowupDue(l)
        /\ Grown(due, [l \in due |-> FollowupRow(l)])
  BY FollowupsDo
<1>3. \A l \in Leads : Halted(l)' <=> Halted(l)
  BY <1>1 DEF Halted
<1>4. ASSUME NEW l \in Leads
      PROVE  late'[l] + Cardinality(Open(l)') <= 1 + Cardinality(Followed(l)')
  <2>1. CASE l \in due
    <3>1. late'[l] = 0
      BY <1>1, <1>2, <2>1 DEF FollowupDue, HaltsCounted
    <3>2. QED
      BY <3>1, HaltsReset
  <2>2. CASE l \notin due
    <3>1. msgs'[l] = msgs[l]
      BY <1>2, <2>2 DEF Grown
    <3>2. Open(l)' = Open(l) /\ Followed(l)' = Followed(l)
      BY <1>1, <3>1 DEF Open, Owns, Row, Followed
    <3>3. QED
      BY <1>1, <3>2 DEF HaltsCounted
  <2>3. QED
    BY <2>1, <2>2
<1>5. QED
  BY <1>1, <1>3, <1>4 DEF HaltsCounted

(* Reviews send or drop rows, and open none.                               *)
LEMMA HaltsReview ==
  ASSUME TypeInv, HaltsCounted, NEW l \in Leads, Review(l)
  PROVE  HaltsCounted'
<1>1. ASSUME NEW i \in DOMAIN msgs[l], Approve(l, i) \/ MarkSent(l, i)
      PROVE  HaltsCounted'
  <2>1. /\ StaffSends(l, i) /\ Row(l, i).status = "DRAFT" /\ Rewritten(l, i, "SENT")
        /\ OneMore(l, Row(l, i).step) /\ UNCHANGED run
    BY <1>1, SendDoes DEF StaffSends
  <2>2. SameRows
    BY <2>1, RewrittenSame
  <2>3. \A k \in Leads : lead'[k].out = lead[k].out
    <3>1. lead' = lead \/ lead' = [lead EXCEPT ![l].status = "CONTACTED"]
      BY <1>1 DEF Approve, MarkSent
    <3>2. lead \in [Leads -> LeadRow]
      BY DEF TypeInv, ColumnsOK, LeadRow
    <3>3. QED
      BY <3>1, <3>2 DEF LeadRow
  <2>4. SameHalts
    <3>1. CASE UNCHANGED cl
      BY <2>3, <3>1 DEF SameHalts, Halted
    <3>2. CASE Touched(l)
      BY <2>3, <3>2, TouchHalts
    <3>3. QED
      BY <2>1, <3>1, <3>2 DEF StaffSends
  <2>5. OpenRow(l, i)
    BY <2>1 DEF OpenRow
  <2>6. ~ OpenRow(l, i)'
    <3>1. Row(l, i)'.status = "SENT"
      BY <2>1 DEF Rewritten, Row
    <3>2. ASSUME NEW q \in Runs, run[q].pc = "generate", Owns(q, l, i)
          PROVE  FALSE
      BY <2>1, <3>2 DEF Owns, MyRow, Row, TypeInv, OwnersOK
    <3>3. QED
      BY <2>1, <3>1, <3>2 DEF OpenRow, Owns
  <2>7. ASSUME NEW k \in Leads, NEW j \in DOMAIN msgs[k], OpenRow(k, j)'
        PROVE  OpenRow(k, j)
    <3>1. k # l \/ j # i
      BY <2>6, <2>7
    <3>2. Row(k, j)'.status = Row(k, j).status
      BY <2>1, <3>1 DEF Rewritten, Row
    <3>3. QED
      BY <2>1, <2>7, <3>2 DEF OpenRow, Owns
  <2>8. Row(l, i).step \in Steps
    BY RowsAreNumbered DEF TypeInv, Message
  <2>9. QED
    BY <2>1, <2>2, <2>4, <2>5, <2>6, <2>7, <2>8, HaltsOneMore
<1>2. CASE \/ \E i \in DOMAIN msgs[l] : Discard(l, i)
           \/ \E stop \in BOOLEAN : Delete(l, stop)
  <2>1. /\ Stopped(l) /\ UNCHANGED <<lead, run, late>>
        /\ UNCHANGED msgs \/ \E i \in DOMAIN msgs[l] : StaffDrops(l, i)
    BY <1>2, DropDoes
  <2>2. \A k \in Leads : Halted(k) => Halted(k)'
    BY <2>1 DEF Stopped, Halted
  <2>3. CASE UNCHANGED msgs
    <3>1. SameRows /\ \A k \in Leads : \A j \in DOMAIN msgs[k] : OpenRow(k, j)' => OpenRow(k, j)
      BY <2>1, <2>3 DEF SameRows, OpenRow, Owns, Row
    <3>2. QED
      BY <2>1, <2>2, <3>1, HaltsQuiet
  <2>4. ASSUME NEW i \in DOMAIN msgs[l], StaffDrops(l, i)
        PROVE  HaltsCounted'
    <3>1. PICK status \in {"REJECTED", "FAILED", "DELETED"} : Rewritten(l, i, status)
      BY <2>4 DEF StaffDrops
    <3>2. SameRows
      BY <3>1, RewrittenSame
    <3>3. ASSUME NEW k \in Leads, NEW j \in DOMAIN msgs[k], OpenRow(k, j)'
          PROVE  OpenRow(k, j)
      <4>1. Row(k, j)'.status = "DRAFT" => Row(k, j).status = "DRAFT"
        BY <3>1 DEF Rewritten, Row
      <4>2. QED
        BY <2>1, <3>3, <4>1 DEF OpenRow, Owns
    <3>4. QED
      BY <2>1, <2>2, <3>2, <3>3, HaltsQuiet
  <2>5. QED
    BY <2>1, <2>3, <2>4
<1>3. QED
  BY <1>1, <1>2 DEF Review

(* Every step keeps the count of what may reach a halted lead.             *)
LEMMA HaltsNext ==
  ASSUME TypeInv, TypeInv', ClaimsFit, OnePendingTouch', HaltsCounted, [Next]_vars
  PROVE  HaltsCounted'
<1>1. CASE \E r \in Runs : Runner(r)
  BY <1>1, HaltsRunner
<1>2. CASE \E l \in Leads : Review(l)
  BY <1>2, HaltsReview
<1>3. ASSUME NEW l \in Leads, Staff(l)
      PROVE  HaltsCounted'
  <2>1. /\ OneLead(l) /\ UNCHANGED <<msgs, run>>
        /\ \/ UNCHANGED late /\ (Halted(l) => Halted(l)')
           \/ late' = [late EXCEPT ![l] = 0]
    BY <1>3, StaffDoes
  <2>2. late \in [Leads -> Nat]
    BY DEF TypeInv, ColumnsOK
  <2>3. ASSUME NEW k \in Leads
        PROVE  \/ late'[k] = 0
               \/ late'[k] = late[k] /\ (Halted(k) => Halted(k)')
    <3>1. CASE k = l
      BY <2>1, <2>2, <3>1
    <3>2. CASE k # l
      <4>1. lead'[k] = lead[k] /\ cl'[k] = cl[k]
        BY <2>1, <3>2 DEF OneLead
      <4>2. late'[k] = late[k]
        BY <2>1, <2>2, <3>2
      <4>3. QED
        BY <4>1, <4>2 DEF Halted
    <3>3. QED
      BY <3>1, <3>2
  <2>4. QED
    BY <2>1, <2>3, HaltsWritten
<1>4. ASSUME NEW l \in Leads, NEW intent, Answered(l, intent)
      PROVE  HaltsCounted'
  <2>1. UNCHANGED <<msgs, run, late>>
    BY <1>4 DEF Answered
  <2>2. /\ OneLead(l) /\ (lead[l].out => lead'[l].out)
        /\ (cl[l].responded => cl'[l].responded) /\ (cl[l].meeting => cl'[l].meeting)
    BY <1>4, AnsweredDoes
  <2>3. \A k \in Leads : Halted(k) => Halted(k)'
    BY <2>2 DEF OneLead, Halted
  <2>4. QED
    BY <2>1, <2>3, HaltsWritten
<1>5. CASE \E kept \in SUBSET Leads : ReplaceLeads(kept)
  <2>1. UNCHANGED <<msgs, run>> /\ \A l \in Leads : late'[l] = 0
    BY <1>5 DEF ReplaceLeads
  <2>2. QED
    BY <2>1, HaltsWritten
<1>6. CASE \E wanted \in Sequences : ReplaceSequence(wanted)
  <2>1. UNCHANGED <<lead, cl, msgs, run, late>>
    BY <1>6 DEF ReplaceSequence
  <2>2. QED
    BY <2>1, HaltsWritten DEF Halted
<1>7. CASE Followups
  BY <1>7, HaltsFollowups
<1>8. CASE Crash
  <2>1. /\ UNCHANGED <<lead, cl, msgs, late>>
        /\ \A r \in Runs : run'[r] = run[r] \/ run'[r] = Idle
        /\ Idle.pc = "idle"
    BY <1>8, CrashDoes
  <2>2. SameRows /\ \A k \in Leads : \A j \in DOMAIN msgs[k] : OpenRow(k, j)' => OpenRow(k, j)
    BY <2>1 DEF SameRows, OpenRow, Owns, Row
  <2>3. QED
    BY <2>1, <2>2, HaltsQuiet DEF Halted
<1>9. CASE UNCHANGED vars
  <2>1. UNCHANGED <<lead, cl, msgs, run, late>>
    BY <1>9 DEF vars
  <2>2. QED
    BY <2>1, HaltsWritten DEF Halted
<1>10. QED
  BY <1>1, <1>2, <1>3, <1>4, <1>5, <1>6, <1>7, <1>8, <1>9 DEF Next

(* After an answer or an opt-out a lead is reached only by what had been   *)
(* reserved or drafted before: _find_next_sequence_step refuses a halted   *)
(* lead, and follow-ups are generated for none.                            *)
THEOREM HaltsAreKept ==
  ASSUME OneLoop
  PROVE  Spec => []HaltsAreHeard
<1>1. Init => HaltsCounted
  <2>1. SUFFICES ASSUME Init PROVE HaltsCounted
    OBVIOUS
  <2>2. \A l \in Leads : late[l] = 0 /\ DOMAIN msgs[l] = {}
    <3>1. late = [l \in Leads |-> 0] /\ msgs = [l \in Leads |-> << >>]
      BY <2>1 DEF Init
    <3>2. QED
      BY <3>1
  <2>3. \A l \in Leads : Open(l) = {} /\ Followed(l) = {}
    BY <2>2 DEF Open, Followed
  <2>4. Cardinality({}) = 0
    BY FS_EmptySet
  <2>5. QED
    BY <2>2, <2>3, <2>4 DEF HaltsCounted
<1>2. TypeInv /\ TypeInv' /\ ClaimsFit /\ OnePendingTouch' /\ HaltsCounted /\ [Next]_vars
      => HaltsCounted'
  BY HaltsNext
<1>3. TypeInv /\ HaltsCounted => HaltsAreHeard
  <2>1. ASSUME TypeInv, HaltsCounted, NEW l \in Leads
        PROVE  late[l] <= 1 + Cardinality(Followed(l))
    <3>1. /\ Cardinality(Open(l)) \in Nat /\ Cardinality(Followed(l)) \in Nat
          /\ late[l] \in Nat
      BY <2>1, RowsAreNumbered DEF Open, Followed, TypeInv, ColumnsOK
    <3>2. QED
      BY <2>1, <3>1 DEF HaltsCounted
  <2>2. QED
    BY <2>1 DEF HaltsAreHeard
<1>4. Spec => [](TypeInv /\ ClaimsFit /\ Sequenced) /\ []OnePendingTouch
  BY OrderKept, TouchesWaitInTurn
<1>5. QED
  BY <1>1, <1>2, <1>3, <1>4, PTL DEF Spec

-----------------------------------------------------------------------------
(* The limit of a campaign.                                                *)

\* A touch of a run that the counter of its lead stands for.
CountedRow(l, i) ==
  /\ i > base[l] /\ Row(l, i).status \in {"DRAFT", "SENT"}
  /\ ~ Row(l, i).followup /\ ~ InHand(l, i)

(* The counts are of finite sets.                                          *)
LEMMA CountsAreFinite ==
  ASSUME ColumnsOK, NEW l \in Leads
  PROVE  /\ IsFiniteSet(Counted(l)) /\ Cardinality(Counted(l)) \in Nat
         /\ IsFiniteSet(Busy(l)) /\ Cardinality(Busy(l)) \in Nat
         /\ Cardinality(Busy(l)) <= Cardinality(Runs) /\ Cardinality(Runs) \in Nat
         /\ cl[l].sent \in Nat /\ MaxEmails \in Nat /\ MaxEmails >= 1
<1>1. IsFiniteSet(Counted(l)) /\ Cardinality(Counted(l)) \in Nat
  BY RowsAreNumbered DEF Counted, Since
<1>2. IsFiniteSet(Runs) /\ MaxEmails \in Nat \ {0}
  BY ConstantsAssumption
<1>3. Busy(l) \subseteq Runs
  BY DEF Busy
<1>4. IsFiniteSet(Busy(l)) /\ Cardinality(Busy(l)) <= Cardinality(Runs)
  BY <1>2, <1>3, FS_Subset
<1>5. Cardinality(Busy(l)) \in Nat /\ Cardinality(Runs) \in Nat
  BY <1>2, <1>4, FS_CardinalityType
<1>6. QED
  BY <1>1, <1>2, <1>4, <1>5 DEF ColumnsOK

(* A lead with no more touches to count and no more runs that are busy     *)
(* with it.                                                                *)
LEMMA CountKept ==
  ASSUME ColumnsOK, NEW l \in Leads, cl'[l].sent \in Nat,
         cl'[l].sent < MaxEmails => cl'[l].sent >= cl[l].sent,
         \A i \in DOMAIN msgs'[l] : CountedRow(l, i)' => i \in DOMAIN msgs[l] /\ CountedRow(l, i),
         Busy(l)' \subseteq Busy(l),
         cl[l].sent < MaxEmails => Cardinality(Counted(l)) <= cl[l].sent,
         Cardinality(Counted(l)) + Cardinality(Busy(l)) <= MaxEmails + Cardinality(Runs) - 1
  PROVE  /\ cl'[l].sent < MaxEmails => Cardinality(Counted(l)') <= cl'[l].sent
         /\ Cardinality(Counted(l)') + Cardinality(Busy(l)')
              <= MaxEmails + Cardinality(Runs) - 1
<1>1. Counted(l)' \subseteq Counted(l)
  <2>1. \A i \in Counted(l)' : i \in DOMAIN msgs'[l] /\ CountedRow(l, i)'
    BY DEF Counted, CountedRow, Since
  <2>2. \A i \in DOMAIN msgs[l] : CountedRow(l, i) => i \in Counted(l)
    BY DEF Counted, CountedRow, Since
  <2>3. QED
    BY <2>1, <2>2
<1>2. /\ Cardinality(Counted(l)') \in Nat
      /\ Cardinality(Counted(l)') <= Cardinality(Counted(l))
  BY <1>1, CountsAreFinite, FS_Subset, FS_CardinalityType
<1>3. Cardinality(Busy(l)') \in Nat /\ Cardinality(Busy(l)') <= Cardinality(Busy(l))
  BY CountsAreFinite, FS_Subset, FS_CardinalityType
<1>4. QED
  BY <1>2, <1>3, CountsAreFinite

(* Steps that add to no count.                                             *)
LEMMA CountsQuiet ==
  ASSUME TypeInv, TypeInv', TouchesCounted, faults' = 0 => faults = 0,
         \A l \in Leads : cl'[l].sent < MaxEmails => cl'[l].sent >= cl[l].sent,
         \A l \in Leads : \A i \in DOMAIN msgs'[l] :
           CountedRow(l, i)' => i \in DOMAIN msgs[l] /\ CountedRow(l, i),
         \A l \in Leads : Busy(l)' \subseteq Busy(l)
  PROVE  TouchesCounted'
<1>1. ASSUME faults' = 0, NEW l \in Leads
      PROVE  /\ cl'[l].sent < MaxEmails => Cardinality(Counted(l)') <= cl'[l].sent
             /\ Cardinality(Counted(l)') + Cardinality(Busy(l)')
                  <= MaxEmails + Cardinality(Runs) - 1
  <2>1. cl'[l].sent \in Nat
    BY DEF TypeInv, ColumnsOK
  <2>2. QED
    BY <1>1, <2>1, CountKept DEF TypeInv, TouchesCounted
<1>2. QED
  BY <1>1 DEF TouchesCounted

(* A run that starts is busy with leads whose counters are below the limit. *)
LEMMA CountsStart ==
  ASSUME TypeInv, TypeInv', TouchesCounted, NEW r \in Runs, Start(r)
  PROVE  TouchesCounted'
<1>1. /\ run[r].pc = "idle" /\ run'[r].pc = "next"
      /\ run'[r].todo = {l \in Leads : Candidate(l)}
      /\ \A q \in Runs : q # r => run'[q] = run[q]
  BY StartDoes
<1>2. UNCHANGED <<cl, msgs, base, faults>>
  BY DEF Start
<1>3. ASSUME NEW l \in Leads
      PROVE  Counted(l)' = Counted(l)
  <2>1. \A i \in DOMAIN msgs[l] : InHand(l, i)' <=> InHand(l, i)
    BY <1>1 DEF InHand
  <2>2. QED
    BY <1>2, <2>1 DEF Counted, Since, Row
<1>4. ASSUME NEW l \in Leads, faults' = 0
      PROVE  /\ cl'[l].sent < MaxEmails => Cardinality(Counted(l)') <= cl'[l].sent
             /\ Cardinality(Counted(l)') + Cardinality(Busy(l)')
                  <= MaxEmails + Cardinality(Runs) - 1
  <2>1. /\ cl[l].sent < MaxEmails => Cardinality(Counted(l)) <= cl[l].sent
        /\ Cardinality(Counted(l)) + Cardinality(Busy(l)) <= MaxEmails + Cardinality(Runs) - 1
    BY <1>2, <1>4 DEF TouchesCounted
  <2>2. CASE Candidate(l)
    <3>1. cl[l].sent < MaxEmails /\ Cardinality(Counted(l)) <= cl[l].sent
      BY <2>1, <2>2 DEF Candidate
    <3>2. Busy(l)' \subseteq Runs /\ IsFiniteSet(Runs)
      BY ConstantsAssumption DEF Busy
    <3>3. Cardinality(Busy(l)') \in Nat /\ Cardinality(Busy(l)') <= Cardinality(Runs)
      BY <3>2, FS_Subset, FS_CardinalityType
    <3>4. QED
      BY <1>2, <1>3, <3>1, <3>3, CountsAreFinite DEF TypeInv
  <2>3. CASE ~ Candidate(l)
    <3>1. Busy(l)' \subseteq Busy(l)
      BY <1>1, <2>3 DEF Busy
    <3>2. Cardinality(Busy(l)') \in Nat /\ Cardinality(Busy(l)') <= Cardinality(Busy(l))
      BY <3>1, CountsAreFinite, FS_Subset, FS_CardinalityType DEF TypeInv
    <3>3. QED
      BY <1>2, <1>3, <2>1, <3>2, CountsAreFinite DEF TypeInv
  <2>4. QED
    BY <2>2, <2>3
<1>5. QED
  BY <1>4 DEF TouchesCounted

(* A run that counts its touch is no longer busy with its lead.            *)
LEMMA CountsTouch ==
  ASSUME TypeInv, TypeInv', TouchesCounted, NEW r \in Runs, CountTouch(r)
  PROVE  TouchesCounted'
<1>1. /\ run[r].pc = "touch" /\ Touched(run[r].lead) /\ run'[r] \in Waiting
      /\ run'[r].todo = run[r].todo /\ run[r] \in Working
      /\ \A q \in Runs : q # r => run'[q] = run[q]
  BY CountTouchDoes
<1>2. UNCHANGED <<msgs, base, faults>>
  BY DEF CountTouch
<1>3. run'[r].pc \in {"idle", "next"} /\ run[r].lead \in Leads
  BY <1>1 DEF Waiting, Working
<1>4. PICK own \in Leads : own = run[r].lead
  BY <1>3
<1>5. ASSUME NEW l \in Leads, NEW i \in DOMAIN msgs[l], l # own \/ i # run[r].row,
             CountedRow(l, i)'
      PROVE  CountedRow(l, i)
  <2>1. InHand(l, i) => InHand(l, i)'
    BY <1>1, <1>4, <1>5 DEF InHand
  <2>2. QED
    BY <1>2, <1>5, <2>1 DEF CountedRow, Row
<1>6. \A l \in Leads : Busy(l)' \subseteq Busy(l)
  BY <1>1, <1>3 DEF Busy
<1>7. ASSUME faults' = 0, NEW l \in Leads
      PROVE  /\ cl'[l].sent < MaxEmails => Cardinality(Counted(l)') <= cl'[l].sent
             /\ Cardinality(Counted(l)') + Cardinality(Busy(l)')
                  <= MaxEmails + Cardinality(Runs) - 1
  <2>1. /\ cl[l].sent < MaxEmails => Cardinality(Counted(l)) <= cl[l].sent
        /\ Cardinality(Counted(l)) + Cardinality(Busy(l)) <= MaxEmails + Cardinality(Runs) - 1
    BY <1>2, <1>7 DEF TouchesCounted
  <2>2. CASE l # own
    <3>1. cl'[l] = cl[l]
      BY <1>1, <1>4, <2>2 DEF Touched
    <3>2. cl'[l].sent \in Nat
      BY DEF TypeInv, ColumnsOK
    <3>3. \A i \in DOMAIN msgs'[l] : CountedRow(l, i)' => i \in DOMAIN msgs[l] /\ CountedRow(l, i)
      BY <1>2, <1>5, <2>2
    <3>4. cl'[l].sent < MaxEmails => cl'[l].sent >= cl[l].sent
      BY <3>1, <3>2
    <3>5. QED
      BY <1>6, <2>1, <3>2, <3>3, <3>4, CountKept DEF TypeInv
  <2>3. CASE l = own
    <3>1. cl'[l].sent = IF cl[l].member THEN cl[l].sent + 1 ELSE 1
      BY <1>1, <1>4, <2>3, CampaignLeadFits DEF Touched, TypeInv
    <3>2. ~ cl[l].member => cl[l].sent = 0
      BY DEF TypeInv, LinksOK, NoMember
    <3>3. cl'[l].sent = cl[l].sent + 1
      BY <3>1, <3>2
    <3>4. Counted(l)' \subseteq Counted(l) \cup {run[r].row}
      BY <1>2, <1>5 DEF Counted, CountedRow, Since
    <3>5. /\ IsFiniteSet(Counted(l) \cup {run[r].row})
          /\ Cardinality(Counted(l) \cup {run[r].row}) <= Cardinality(Counted(l)) + 1
      <4>1. IsFiniteSet(Counted(l)) /\ Cardinality(Counted(l)) \in Nat
        BY CountsAreFinite DEF TypeInv
      <4>2. /\ IsFiniteSet(Counted(l) \cup {run[r].row})
            /\ Cardinality(Counted(l) \cup {run[r].row})
                 = IF run[r].row \in Counted(l) THEN Cardinality(Counted(l))
                   ELSE Cardinality(Counted(l)) + 1
        BY <4>1, FS_AddElement
      <4>3. QED
        BY <4>1, <4>2
    <3>6. /\ Cardinality(Counted(l)') \in Nat
          /\ Cardinality(Counted(l)') <= Cardinality(Counted(l) \cup {run[r].row})
          /\ Cardinality(Counted(l) \cup {run[r].row}) \in Nat
      BY <3>4, <3>5, FS_Subset, FS_CardinalityType
    <3>7. r \in Busy(l) /\ r \notin Busy(l)'
      <4>1. l \notin run'[r].todo
        BY <1>1, <1>4, <2>3 DEF TypeInv, RunsOK
      <4>2. QED
        BY <1>1, <1>3, <1>4, <2>3, <4>1 DEF Busy
    <3>8. Busy(l)' \subseteq Busy(l) \ {r}
      BY <1>6, <3>7
    <3>9. /\ IsFiniteSet(Busy(l) \ {r})
          /\ Cardinality(Busy(l) \ {r}) = Cardinality(Busy(l)) - 1
      BY <3>7, CountsAreFinite, FS_RemoveElement DEF TypeInv
    <3>10. /\ Cardinality(Busy(l)') \in Nat
           /\ Cardinality(Busy(l)') <= Cardinality(Busy(l)) - 1
      BY <3>8, <3>9, FS_Subset, FS_CardinalityType
    <3>11. QED
      BY <2>1, <3>3, <3>5, <3>6, <3>10, CountsAreFinite DEF TypeInv
  <2>4. QED
    BY <2>2, <2>3
<1>8. QED
  BY <1>7 DEF TouchesCounted

(* The other steps of a run.                                               *)
LEMMA CountsRunner ==
  ASSUME TypeInv, TypeInv', TouchesCounted, NEW r \in Runs, Runner(r)
  PROVE  TouchesCounted'
<1>1. ASSUME UNCHANGED <<base, cl>>, faults' = 0 => faults = 0, SameRows,
             \A q \in Runs : q # r => run'[q] = run[q],
             run'[r].todo \subseteq run[r].todo,
             \/ run'[r].pc \in {"idle", "next"}
             \/ /\ run'[r].pc = "reserve" /\ run[r].pc = "next"
                /\ run'[r].lead \in run[r].todo
             \/ /\ run'[r].pc \in {"record", "touch"}
                /\ run[r].pc \in {"generate", "record"}
                /\ run'[r].lead = run[r].lead /\ run'[r].row = run[r].row,
             \A l \in Leads : \A i \in DOMAIN msgs[l] :
               Row(l, i)'.status \in {"DRAFT", "SENT"} =>
                 \/ /\ Row(l, i).status \in {"DRAFT", "SENT"}
                    /\ (InHand(l, i) => InHand(l, i)')
                 \/ InHand(l, i)'
      PROVE  TouchesCounted'
  <2>1. \A l \in Leads : Busy(l)' \subseteq Busy(l)
    BY <1>1 DEF Busy
  <2>2. ASSUME NEW l \in Leads, NEW i \in DOMAIN msgs'[l], CountedRow(l, i)'
        PROVE  i \in DOMAIN msgs[l] /\ CountedRow(l, i)
    <3>1. i \in DOMAIN msgs[l] /\ Row(l, i)'.followup = Row(l, i).followup
      BY <1>1 DEF SameRows, Row
    <3>2. QED
      BY <1>1, <2>2, <3>1 DEF CountedRow
  <2>3. \A l \in Leads : cl'[l].sent >= cl[l].sent
    BY <1>1 DEF TypeInv, ColumnsOK
  <2>4. QED
    BY <1>1, <2>1, <2>2, <2>3, CountsQuiet
<1>2. CASE Find(r)
  <2>1. UNCHANGED <<base, cl, msgs, faults>>
    BY <1>2 DEF Find
  <2>2. /\ run[r].pc = "next" /\ run'[r].pc = "reserve" /\ run'[r].lead \in run[r].todo
        /\ run'[r].todo = run[r].todo \ {run'[r].lead}
        /\ \A q \in Runs : q # r => run'[q] = run[q]
    BY <1>2, FindDoes
  <2>3. \A l \in Leads : \A i \in DOMAIN msgs[l] : InHand(l, i) => InHand(l, i)'
    BY <2>2 DEF InHand
  <2>4. QED
    BY <1>1, <2>1, <2>2, <2>3 DEF SameRows, Row
<1>3. CASE Enough(r)
  <2>1. UNCHANGED <<base, cl, msgs, faults>>
    BY <1>3 DEF Enough
  <2>2. /\ run[r].pc = "next" /\ run'[r].pc = "idle" /\ run'[r].todo = {}
        /\ \A q \in Runs : q # r => run'[q] = run[q]
    BY <1>3, EnoughDoes
  <2>3. \A l \in Leads : \A i \in DOMAIN msgs[l] : InHand(l, i) => InHand(l, i)'
    BY <2>2 DEF InHand
  <2>4. QED
    BY <1>1, <2>1, <2>2, <2>3 DEF SameRows, Row
<1>4. CASE Mail(r)
  <2>1. UNCHANGED <<base, cl, msgs, faults>>
    BY <1>4 DEF Mail
  <2>2. /\ run[r].pc = "generate" /\ run'[r].pc = "record" /\ run'[r].lead = run[r].lead
        /\ run'[r].row = run[r].row /\ run'[r].todo = run[r].todo
        /\ \A q \in Runs : q # r => run'[q] = run[q]
    BY <1>4, MailDoes
  <2>3. \A l \in Leads : \A i \in DOMAIN msgs[l] : InHand(l, i) => InHand(l, i)'
    BY <2>2 DEF InHand
  <2>4. QED
    BY <1>1, <2>1, <2>2, <2>3 DEF SameRows, Row
<1>5. ASSUME Draft(r) \/ Record(r)
      PROVE  TouchesCounted'
  <2>1. UNCHANGED <<base, cl>>
    BY <1>5 DEF Draft, Record
  <2>2. /\ run[r].pc \in {"generate", "record"} /\ run'[r].pc = "touch"
        /\ run'[r].lead = run[r].lead /\ run'[r].row = run[r].row
        /\ run'[r].todo = run[r].todo
        /\ \A q \in Runs : q # r => run'[q] = run[q]
    <3>1. CASE Draft(r)
      BY <3>1, DraftDoes
    <3>2. CASE Record(r)
      BY <3>2, RecordDoes
    <3>3. QED
      BY <1>5, <3>1, <3>2
  <2>3. \A l \in Leads : \A i \in DOMAIN msgs[l] : InHand(l, i) => InHand(l, i)'
    BY <2>2 DEF InHand
  <2>4. run[r].lead \in Leads /\ run[r].row \in DOMAIN msgs[run[r].lead]
    BY <2>2, OwnRow
  <2>5. ASSUME NEW status, Rewritten(run[r].lead, run[r].row, status), UNCHANGED faults
        PROVE  TouchesCounted'
    <3>1. SameRows
      BY <2>4, <2>5, RewrittenSame
    <3>2. ASSUME NEW l \in Leads, NEW i \in DOMAIN msgs[l],
                 Row(l, i)'.status \in {"DRAFT", "SENT"}
          PROVE  \/ /\ Row(l, i).status \in {"DRAFT", "SENT"}
                    /\ (InHand(l, i) => InHand(l, i)')
                 \/ InHand(l, i)'
      <4>1. CASE l = run[r].lead /\ i = run[r].row
        BY <2>2, <4>1 DEF InHand
      <4>2. CASE l # run[r].lead \/ i # run[r].row
        BY <2>3, <2>5, <3>2, <4>2 DEF Rewritten, Row
      <4>3. QED
        BY <4>1, <4>2
    <3>3. QED
      BY <1>1, <2>1, <2>2, <2>5, <3>1, <3>2
  <2>6. CASE Draft(r)
    <3>1. Rewritten(run[r].lead, run[r].row, "DRAFT") /\ UNCHANGED faults
      BY <2>6, DraftDoes DEF Draft
    <3>2. QED
      BY <2>5, <3>1
  <2>7. CASE Record(r)
    <3>1. \/ UNCHANGED faults /\ Rewritten(run[r].lead, run[r].row, "SENT")
          \/ faults' = faults + 1 /\ faults \in Nat
      BY <2>7, RecordDoes
    <3>2. faults' = faults + 1 /\ faults \in Nat => TouchesCounted'
      BY DEF TouchesCounted
    <3>3. QED
      BY <2>5, <3>1, <3>2
  <2>8. QED
    BY <1>5, <2>6, <2>7
<1>6. CASE Fail(r)
  <2>1. UNCHANGED <<base, cl>>
    BY <1>6 DEF Fail
  <2>2. /\ run[r].pc = "generate" /\ run'[r] \in Waiting /\ run'[r].todo = run[r].todo
        /\ Rewritten(run[r].lead, run[r].row, "FAILED")
        /\ \A q \in Runs : q # r => run'[q] = run[q]
        /\ UNCHANGED faults \/ (faults \in Nat /\ faults' = faults + 1)
    BY <1>6, FailDoes
  <2>3. run[r].lead \in Leads /\ run[r].row \in DOMAIN msgs[run[r].lead]
    BY <2>2, OwnRow
  <2>4. SameRows
    BY <2>2, <2>3, RewrittenSame
  <2>5. ASSUME NEW l \in Leads, NEW i \in DOMAIN msgs[l],
               Row(l, i)'.status \in {"DRAFT", "SENT"}
        PROVE  Row(l, i).status \in {"DRAFT", "SENT"} /\ (InHand(l, i) => InHand(l, i)')
    <3>1. l # run[r].lead \/ i # run[r].row
      BY <2>2, <2>5 DEF Rewritten, Row
    <3>2. Row(l, i).status = Row(l, i)'.status
      BY <2>2, <3>1 DEF Rewritten, Row
    <3>3. QED
      BY <2>2, <2>5, <3>1, <3>2 DEF InHand
  <2>6. run'[r].pc \in {"idle", "next"} /\ (faults' = 0 => faults = 0)
    BY <2>2 DEF Waiting
  <2>7. QED
    BY <1>1, <2>1, <2>2, <2>4, <2>5, <2>6
<1>7. CASE Reserve(r)
  <2>1. /\ SameFlags /\ UNCHANGED <<base, faults>> /\ run[r].pc = "reserve"
        /\ run[r].lead \in Leads
    BY <1>7, ReserveDoes DEF Reserve, Reserving
  <2>2. /\ \A q \in Runs : q # r => run'[q] = run[q]
        /\ run'[r].todo = run[r].todo
        /\ run'[r].pc \in {"idle", "next", "generate"}
        /\ run'[r].pc = "generate" => run'[r].lead = run[r].lead
    <3>1. PICK x \in Waiting \cup Working :
            /\ run' = [run EXCEPT ![r] = x] /\ x.todo = run[r].todo
            /\ x \in Waiting \/ (x.pc = "generate" /\ x.lead = run[r].lead)
      <4>1. CASE \E x \in Waiting : run' = [run EXCEPT ![r] = x] /\ x.todo = run[r].todo
        BY <4>1
      <4>2. CASE \E x \in Working : /\ run' = [run EXCEPT ![r] = x] /\ x.pc = "generate"
                                    /\ x.todo = run[r].todo /\ x.lead = run[r].lead
        BY <4>2
      <4>3. QED
        BY <1>7, <4>1, <4>2, ReserveDoes
    <3>3. x \in Waiting => x.pc \in {"idle", "next"}
      BY DEF Waiting
    <3>4. run'[r] = x /\ \A q \in Runs : q # r => run'[q] = run[q]
      BY <3>1 DEF TypeInv, RunsOK
    <3>5. QED
      BY <3>1, <3>3, <3>4
  <2>3. \A l \in Leads : Busy(l)' \subseteq Busy(l)
    BY <2>1, <2>2 DEF Busy
  <2>4. \A l \in Leads : \A i \in DOMAIN msgs[l] : InHand(l, i) => InHand(l, i)'
    BY <2>1, <2>2 DEF InHand
  <2>5. ASSUME NEW l \in Leads, NEW i \in DOMAIN msgs'[l], CountedRow(l, i)'
        PROVE  i \in DOMAIN msgs[l] /\ CountedRow(l, i)
    <3>1. CASE UNCHANGED msgs
      BY <2>1, <2>4, <2>5, <3>1 DEF CountedRow, Row
    <3>2. CASE Grown({run[r].lead}, [k \in {run[r].lead} |-> Reserved(run[r].found.next)])
      <4>1. CASE i \in DOMAIN msgs[l]
        <5>1. Row(l, i)' = Row(l, i)
          BY <3>2, <4>1 DEF Grown, Row
        <5>2. QED
          BY <2>1, <2>4, <2>5, <4>1, <5>1 DEF CountedRow
      <4>2. CASE i \notin DOMAIN msgs[l]
        <5>1. l = run[r].lead /\ Row(l, i)' = Reserved(run[r].found.next)
          BY <2>1, <3>2, <4>2 DEF Grown, Row
        <5>2. Row(l, i)'.status = "GENERATING"
          BY <5>1 DEF Reserved
        <5>3. QED
          BY <2>5, <5>2 DEF CountedRow
      <4>3. QED
        BY <4>1, <4>2
    <3>3. QED
      BY <1>7, <3>1, <3>2, ReserveDoes
  <2>6. QED
    BY <2>1, <2>3, <2>5, CountsQuiet DEF SameFlags
<1>8. QED
  BY <1>2, <1>3, <1>4, <1>5, <1>6, <1>7, CountsStart, CountsTouch DEF Runner

(* Operations of staff and leads that write to campaign leads only: the    *)
(* count of a lead goes on, or starts anew behind its rows.                *)
LEMMA CountsWritten ==
  ASSUME TypeInv, TypeInv', TouchesCounted, UNCHANGED <<msgs, run, faults>>,
         \A l \in Leads :
           \/ base'[l] = Len(msgs[l])
           \/ base'[l] = base[l] /\ (cl'[l].sent < MaxEmails => cl'[l].sent >= cl[l].sent)
  PROVE  TouchesCounted'
<1>1. ASSUME faults' = 0, NEW l \in Leads
      PROVE  /\ cl'[l].sent < MaxEmails => Cardinality(Counted(l)') <= cl'[l].sent
             /\ Cardinality(Counted(l)') + Cardinality(Busy(l)')
                  <= MaxEmails + Cardinality(Runs) - 1
  <2>1. cl'[l].sent \in Nat
    BY DEF TypeInv, ColumnsOK
  <2>2. Busy(l)' = Busy(l)
    BY DEF Busy
  <2>3. CASE base'[l] = Len(msgs[l])
    <3>1. Counted(l)' = {}
      <4>1. Len(msgs[l]) \in Nat /\ DOMAIN msgs'[l] = 1 .. Len(msgs[l])
        BY RowsAreNumbered DEF TypeInv
      <4>2. \A i \in 1 .. Len(msgs[l]) : ~ (i > base'[l])
        BY <2>3, <4>1
      <4>3. QED
        BY <4>1, <4>2 DEF Counted, Since
    <3>2. Cardinality({}) = 0
      BY FS_EmptySet
    <3>3. QED
      BY <2>1, <2>2, <3>1, <3>2, CountsAreFinite DEF TypeInv
  <2>4. CASE base'[l] = base[l] /\ (cl'[l].sent < MaxEmails => cl'[l].sent >= cl[l].sent)
    <3>1. \A i \in DOMAIN msgs'[l] : CountedRow(l, i)' => i \in DOMAIN msgs[l] /\ CountedRow(l, i)
      BY <2>4 DEF CountedRow, Row, InHand
    <3>2. QED
      BY <1>1, <2>1, <2>2, <2>4, <3>1, CountKept DEF TypeInv, TouchesCounted
  <2>5. QED
    BY <2>3, <2>4
<1>2. QED
  BY <1>1 DEF TouchesCounted

(* Reviews send drafts, which are counted already, or drop them.           *)
LEMMA CountsReview ==
  ASSUME TypeInv, TypeInv', TouchesCounted, NEW l \in Leads, Review(l)
  PROVE  TouchesCounted'
<1>1. ASSUME UNCHANGED <<base, run, faults>>, SameRows,
             \A k \in Leads : cl'[k].sent < MaxEmails => cl'[k].sent >= cl[k].sent,
             \A k \in Leads : \A j \in DOMAIN msgs[k] :
               Row(k, j)'.status \in {"DRAFT", "SENT"} => Row(k, j).status \in {"DRAFT", "SENT"}
      PROVE  TouchesCounted'
  <2>1. ASSUME NEW k \in Leads, NEW j \in DOMAIN msgs'[k], CountedRow(k, j)'
        PROVE  j \in DOMAIN msgs[k] /\ CountedRow(k, j)
    <3>1. j \in DOMAIN msgs[k] /\ Row(k, j)'.followup = Row(k, j).followup
      BY <1>1 DEF SameRows, Row
    <3>2. QED
      BY <1>1, <2>1, <3>1 DEF CountedRow, InHand
  <2>2. \A k \in Leads : Busy(k)' \subseteq Busy(k)
    BY <1>1 DEF Busy
  <2>3. QED
    BY <1>1, <2>1, <2>2, CountsQuiet
<1>2. ASSUME NEW i \in DOMAIN msgs[l], NEW status,
             status \in {"DRAFT", "SENT"} => Row(l, i).status = "DRAFT",
             Rewritten(l, i, status)
      PROVE  /\ SameRows
             /\ \A k \in Leads : \A j \in DOMAIN msgs[k] :
                  Row(k, j)'.status \in {"DRAFT", "SENT"} => Row(k, j).status \in {"DRAFT", "SENT"}
  <2>1. SameRows
    BY <1>2, RewrittenSame
  <2>2. ASSUME NEW k \in Leads, NEW j \in DOMAIN msgs[k],
               Row(k, j)'.status \in {"DRAFT", "SENT"}
        PROVE  Row(k, j).status \in {"DRAFT", "SENT"}
    <3>1. CASE k = l /\ j = i
      BY <1>2, <2>2, <3>1 DEF Rewritten, Row
    <3>2. CASE k # l \/ j # i
      BY <1>2, <2>2, <3>2 DEF Rewritten, Row
    <3>3. QED
      BY <3>1, <3>2
  <2>3. QED
    BY <2>1, <2>2
<1>3. ASSUME NEW i \in DOMAIN msgs[l], Approve(l, i) \/ MarkSent(l, i)
      PROVE  TouchesCounted'
  <2>1. /\ Row(l, i).status = "DRAFT" /\ Rewritten(l, i, "SENT")
        /\ UNCHANGED <<run, base, faults>> /\ (UNCHANGED cl \/ Touched(l))
    BY <1>3, SendDoes DEF StaffSends
  <2>2. \A k \in Leads : cl[k].sent \in Nat
    BY DEF TypeInv, ColumnsOK
  <2>3. ASSUME NEW k \in Leads
        PROVE  cl'[k].sent >= cl[k].sent
    <3>1. CASE UNCHANGED cl
      BY <2>2, <3>1
    <3>2. CASE Touched(l) /\ k # l
      BY <2>2, <3>2 DEF Touched
    <3>3. CASE Touched(l) /\ k = l
      <4>1. cl'[l].sent = IF cl[l].member THEN cl[l].sent + 1 ELSE 1
        BY <3>3, CampaignLeadFits DEF Touched, TypeInv
      <4>2. ~ cl[l].member => cl[l].sent = 0
        BY DEF TypeInv, LinksOK, NoMember
      <4>3. QED
        BY <2>2, <3>3, <4>1, <4>2
    <3>4. QED
      BY <2>1, <3>1, <3>2, <3>3
  <2>4. "SENT" \in {"DRAFT", "SENT"} => Row(l, i).status = "DRAFT"
    BY <2>1
  <2>5. /\ SameRows
        /\ \A k \in Leads : \A j \in DOMAIN msgs[k] :
             Row(k, j)'.status \in {"DRAFT", "SENT"} => Row(k, j).status \in {"DRAFT", "SENT"}
    BY <1>2, <2>1, <2>4
  <2>6. QED
    BY <1>1, <2>1, <2>3, <2>5
<1>4. CASE \/ \E i \in DOMAIN msgs[l] : Discard(l, i)
           \/ \E stop \in BOOLEAN : Delete(l, stop)
  <2>1. /\ Stopped(l) /\ UNCHANGED <<base, run, faults>>
        /\ UNCHANGED msgs \/ \E i \in DOMAIN msgs[l] : StaffDrops(l, i)
    BY <1>4, DropDoes
  <2>2. ASSUME NEW k \in Leads, cl'[k].sent < MaxEmails
        PROVE  cl'[k].sent >= cl[k].sent
    <3>1. cl[k].sent \in Nat /\ MaxEmails \in Nat
      BY ConstantsAssumption DEF TypeInv, ColumnsOK
    <3>2. cl'[k].sent = cl[k].sent
      BY <2>1, <2>2, <3>1 DEF Stopped
    <3>3. QED
      BY <3>1, <3>2
  <2>3. CASE UNCHANGED msgs
    BY <1>1, <2>1, <2>2, <2>3 DEF SameRows, Row
  <2>4. ASSUME NEW i \in DOMAIN msgs[l], StaffDrops(l, i)
        PROVE  TouchesCounted'
    <3>1. PICK status \in {"REJECTED", "FAILED", "DELETED"} : Rewritten(l, i, status)
      BY <2>4 DEF StaffDrops
    <3>2. status \notin {"DRAFT", "SENT"}
      OBVIOUS
    <3>3. /\ SameRows
          /\ \A k \in Leads : \A j \in DOMAIN msgs[k] :
               Row(k, j)'.status \in {"DRAFT", "SENT"} => Row(k, j).status \in {"DRAFT", "SENT"}
      BY <1>2, <3>1, <3>2
    <3>4. QED
      BY <1>1, <2>1, <2>2, <3>3
  <2>5. QED
    BY <2>1, <2>3, <2>4
<1>5. QED
  BY <1>3, <1>4 DEF Review

(* Follow-ups are no touches of runs.                                      *)
LEMMA CountsFollowups ==
  ASSUME TypeInv, TypeInv', TouchesCounted, Followups
  PROVE  TouchesCounted'
<1>1. UNCHANGED <<cl, run, base, faults>>
  BY DEF Followups
<1>2. PICK due \in SUBSET Leads :
        /\ \A l \in due : FollowupRow(l).followup
        /\ Grown(due, [l \in due |-> FollowupRow(l)])
  BY FollowupsDo
<1>3. ASSUME NEW l \in Leads, NEW i \in DOMAIN msgs'[l], CountedRow(l, i)'
      PROVE  i \in DOMAIN msgs[l] /\ CountedRow(l, i)
  <2>1. CASE i \in DOMAIN msgs[l]
    <3>1. Row(l, i)' = Row(l, i)
      BY <1>2, <2>1 DEF Grown, Row
    <3>2. QED
      BY <1>1, <1>3, <2>1, <3>1 DEF CountedRow, InHand
  <2>2. CASE i \notin DOMAIN msgs[l]
    <3>1. l \in due /\ Row(l, i)' = FollowupRow(l)
      BY <1>2, <2>2 DEF Grown, Row
    <3>2. Row(l, i)'.followup
      BY <1>2, <3>1
    <3>3. QED
      BY <1>3, <3>2 DEF CountedRow
  <2>3. QED
    BY <2>1, <2>2
<1>4. \A l \in Leads : Busy(l)' \subseteq Busy(l) /\ cl'[l].sent >= cl[l].sent
  BY <1>1 DEF Busy, TypeInv, ColumnsOK
<1>5. QED
  BY <1>1, <1>3, <1>4, CountsQuiet

(* Every step keeps the count of touches.                                  *)
LEMMA CountsNext ==
  ASSUME TypeInv, TypeInv', TouchesCounted, [Next]_vars
  PROVE  TouchesCounted'
<1>1. CASE \E r \in Runs : Runner(r)
  BY <1>1, CountsRunner
<1>2. CASE \E l \in Leads : Review(l)
  BY <1>2, CountsReview
<1>3. \A l \in Leads : cl[l].sent \in Nat /\ cl'[l].sent \in Nat
  BY DEF TypeInv, ColumnsOK
<1>4. ASSUME NEW l \in Leads, Staff(l)
      PROVE  TouchesCounted'
  <2>1. /\ OneLead(l) /\ UNCHANGED <<msgs, run, faults>>
        /\ \/ UNCHANGED base /\ (cl'[l].sent = cl[l].sent \/ ~ cl[l].member)
           \/ base' = [base EXCEPT ![l] = Len(msgs[l])]
    BY <1>4, StaffDoes
  <2>2. base \in [Leads -> Nat]
    BY DEF TypeInv, ColumnsOK
  <2>3. ~ cl[l].member => cl[l].sent = 0
    BY DEF TypeInv, LinksOK, NoMember
  <2>4. ASSUME NEW k \in Leads
        PROVE  \/ base'[k] = Len(msgs[k])
               \/ base'[k] = base[k] /\ (cl'[k].sent < MaxEmails => cl'[k].sent >= cl[k].sent)
    <3>1. CASE k # l
      BY <1>3, <2>1, <2>2, <3>1 DEF OneLead
    <3>2. CASE k = l
      BY <1>3, <2>1, <2>2, <2>3, <3>2
    <3>3. QED
      BY <3>1, <3>2
  <2>5. QED
    BY <2>1, <2>4, CountsWritten
<1>5. ASSUME NEW l \in Leads, NEW intent, Answered(l, intent)
      PROVE  TouchesCounted'
  <2>1. UNCHANGED <<msgs, run, base, faults>>
    BY <1>5 DEF Answered
  <2>2. OneLead(l) /\ cl'[l].sent = cl[l].sent
    BY <1>5, AnsweredDoes
  <2>3. \A k \in Leads : cl'[k].sent >= cl[k].sent
    BY <1>3, <2>2 DEF OneLead
  <2>4. QED
    BY <2>1, <2>3, CountsWritten
<1>6. CASE \E kept \in SUBSET Leads : ReplaceLeads(kept)
  <2>1. UNCHANGED <<msgs, run, faults>> /\ \A l \in Leads : base'[l] = Len(msgs[l])
    BY <1>6 DEF ReplaceLeads
  <2>2. QED
    BY <2>1, CountsWritten
<1>7. CASE \E wanted \in Sequences : ReplaceSequence(wanted)
  <2>1. UNCHANGED <<cl, msgs, run, base>> /\ (faults' = faults \/ faults' = faults + 1)
    BY <1>7 DEF ReplaceSequence
  <2>2. CASE UNCHANGED faults
    BY <1>3, <2>1, <2>2, CountsWritten
  <2>3. CASE faults' = faults + 1
    BY <2>3 DEF TouchesCounted, TypeInv, ColumnsOK
  <2>4. QED
    BY <2>1, <2>2, <2>3
<1>8. CASE Followups
  BY <1>8, CountsFollowups
<1>9. CASE Crash
  BY <1>9, CrashDoes DEF TouchesCounted
<1>10. CASE UNCHANGED vars
  <2>1. UNCHANGED <<cl, msgs, run, base, faults>>
    BY <1>10 DEF vars
  <2>2. QED
    BY <1>3, <2>1, CountsWritten
<1>11. QED
  BY <1>1, <1>2, <1>4, <1>5, <1>6, <1>7, <1>8, <1>9, <1>10 DEF Next

(* Two finite sets together.                                               *)
LEMMA CountOfUnion ==
  ASSUME NEW S, NEW T, IsFiniteSet(S), IsFiniteSet(T)
  PROVE  /\ IsFiniteSet(S \cup T) /\ Cardinality(S \cup T) \in Nat
         /\ Cardinality(S \cup T) <= Cardinality(S) + Cardinality(T)
<1>1. /\ IsFiniteSet(S \cup T)
      /\ Cardinality(S \cup T) = Cardinality(S) + Cardinality(T) - Cardinality(S \cap T)
  BY FS_Union
<1>2. IsFiniteSet(S \cap T)
  BY FS_Subset
<1>3. /\ Cardinality(S) \in Nat /\ Cardinality(T) \in Nat
      /\ Cardinality(S \cap T) \in Nat /\ Cardinality(S \cup T) \in Nat
  BY <1>1, <1>2, FS_CardinalityType
<1>4. QED
  BY <1>1, <1>3

(* The touches that were sent are counted, are in the hands of a run that  *)
(* is busy with the lead, or are follow-ups.                               *)
LEMMA SentIsCounted ==
  ASSUME TypeInv, NEW l \in Leads
  PROVE  Cardinality({i \in Since(l) : msgs[l][i].status = "SENT"})
           <= Cardinality(Counted(l)) + Cardinality(Busy(l))
              + Cardinality(Followed(l) \cap Since(l))
<1> DEFINE sent == {i \in Since(l) : Row(l, i).status = "SENT"}
           held == {i \in sent : InHand(l, i)}
           follow == Followed(l) \cap Since(l)
<1>1. /\ IsFiniteSet(held) /\ Cardinality(held) \in Nat
      /\ IsFiniteSet(follow) /\ Cardinality(follow) \in Nat
      /\ IsFiniteSet(Counted(l)) /\ Cardinality(Counted(l)) \in Nat
  <2>1. held \subseteq DOMAIN msgs[l] /\ follow \subseteq DOMAIN msgs[l]
        /\ Counted(l) \subseteq DOMAIN msgs[l]
    BY DEF Counted, Since
  <2>2. QED
    BY <2>1, RowsAreNumbered DEF TypeInv
<1>2. sent \subseteq (Counted(l) \cup held) \cup follow
  <2>1. ASSUME NEW i \in sent
        PROVE  i \in (Counted(l) \cup held) \cup follow
    <3>1. i \in Since(l) /\ i \in DOMAIN msgs[l] /\ Row(l, i).status = "SENT"
      BY DEF Since
    <3>2. CASE InHand(l, i)
      BY <3>1, <3>2
    <3>3. CASE Row(l, i).followup
      BY <3>1, <3>3 DEF Followed, Row
    <3>4. CASE ~ InHand(l, i) /\ ~ Row(l, i).followup
      BY <3>1, <3>4 DEF Counted
    <3>5. QED
      BY <3>2, <3>3, <3>4
  <2>2. QED
    BY <2>1
<1>3. Cardinality(held) <= Cardinality(Busy(l))
  <2> DEFINE holder == [i \in held |-> CHOOSE r \in Busy(l) : run[r].row = i]
  <2>1. ASSUME NEW i \in held
        PROVE  \E r \in Busy(l) : run[r].row = i
    BY <2>1 DEF InHand, Busy
  <2>2. ASSUME NEW i \in held
        PROVE  holder[i] \in Busy(l) /\ run[holder[i]].row = i
    BY <2>1
  <2>3. holder \in [held -> Busy(l)]
    BY <2>2
  <2> HIDE DEF holder, held
  <2>4. IsFiniteSet(Busy(l)) /\ Cardinality(Busy(l)) \in Nat
    BY CountsAreFinite DEF TypeInv
  <2>5. ASSUME Cardinality(Busy(l)) < Cardinality(held)
        PROVE  FALSE
    <3>1. \E x, y \in held : x # y /\ holder[x] = holder[y]
      BY <1>1, <2>3, <2>4, <2>5, FS_PigeonHole
    <3>2. QED
      BY <2>2, <3>1
  <2>6. QED
    BY <1>1, <2>4, <2>5
<1> HIDE DEF sent, held, follow
<1>4. /\ IsFiniteSet(Counted(l) \cup held) /\ Cardinality(Counted(l) \cup held) \in Nat
      /\ Cardinality(Counted(l) \cup held) <= Cardinality(Counted(l)) + Cardinality(held)
  BY <1>1, CountOfUnion
<1>5. /\ IsFiniteSet((Counted(l) \cup held) \cup follow)
      /\ Cardinality((Counted(l) \cup held) \cup follow) \in Nat
      /\ Cardinality((Counted(l) \cup held) \cup follow)
           <= Cardinality(Counted(l) \cup held) + Cardinality(follow)
  BY <1>1, <1>4, CountOfUnion
<1>6. /\ Cardinality(sent) \in Nat
      /\ Cardinality(sent) <= Cardinality((Counted(l) \cup held) \cup follow)
  BY <1>2, <1>5, FS_Subset, FS_CardinalityType
<1>7. Cardinality(Busy(l)) \in Nat
  BY CountsAreFinite DEF TypeInv
<1>8. Cardinality(sent)
        <= Cardinality(Counted(l)) + Cardinality(Busy(l)) + Cardinality(follow)
  BY <1>1, <1>3, <1>4, <1>5, <1>6, <1>7
<1>9. QED
  BY <1>8 DEF sent, follow, Row

(* As long as nothing fails, a lead is sent at most as many touches since  *)
(* its counter was last set to zero as the campaign allows, and one more   *)
(* for each further run that had chosen it and for each follow-up: the     *)
(* counter is compared when a run starts, and moves when a run has sent.   *)
THEOREM LimitIsKept == Spec => []LimitHolds
<1>1. Init => TouchesCounted
  <2>1. SUFFICES ASSUME Init PROVE TouchesCounted
    OBVIOUS
  <2>2. \A l \in Leads : DOMAIN msgs[l] = {}
    <3>1. msgs = [l \in Leads |-> << >>]
      BY <2>1 DEF Init
    <3>2. QED
      BY <3>1
  <2>3. \A r \in Runs : run[r].pc = "idle" /\ run[r].todo = {}
    BY <2>1 DEF Init, Idle
  <2>4. \A l \in Leads : Counted(l) = {} /\ Busy(l) = {}
    BY <2>2, <2>3 DEF Counted, Since, Busy
  <2>5. \A l \in Leads : Cardinality(Counted(l)) = 0 /\ Cardinality(Busy(l)) = 0
    BY <2>4, FS_EmptySet
  <2>6. ColumnsOK
    BY <2>1, TypeInvInit DEF TypeInv
  <2>7. \A l \in Leads : /\ cl[l].sent \in Nat /\ Cardinality(Runs) \in Nat
                         /\ MaxEmails \in Nat /\ MaxEmails >= 1
    BY <2>6, CountsAreFinite
  <2>8. QED
    BY <2>5, <2>7 DEF TouchesCounted
<1>2. TypeInv /\ TypeInv' /\ TouchesCounted /\ [Next]_vars => TouchesCounted'
  BY CountsNext
<1>3. TypeInv /\ TouchesCounted => LimitHolds
  <2>1. ASSUME TypeInv, TouchesCounted, faults = 0, NEW l \in Leads
        PROVE  Cardinality({i \in Since(l) : msgs[l][i].status = "SENT"})
                 <= MaxEmails + Cardinality(Runs) - 1 + Cardinality(Followed(l) \cap Since(l))
    <3> DEFINE sent == Cardinality({i \in Since(l) : msgs[l][i].status = "SENT"})
               follow == Cardinality(Followed(l) \cap Since(l))
    <3>1. sent \in Nat /\ follow \in Nat
      <4>1. /\ {i \in Since(l) : msgs[l][i].status = "SENT"} \subseteq DOMAIN msgs[l]
            /\ Followed(l) \cap Since(l) \subseteq DOMAIN msgs[l]
        BY DEF Since
      <4>2. QED
        BY <2>1, <4>1, RowsAreNumbered DEF TypeInv
    <3>2. sent <= Cardinality(Counted(l)) + Cardinality(Busy(l)) + follow
      BY <2>1, SentIsCounted
    <3>3. Cardinality(Counted(l)) + Cardinality(Busy(l)) <= MaxEmails + Cardinality(Runs) - 1
      BY <2>1 DEF TouchesCounted
    <3>4. /\ Cardinality(Counted(l)) \in Nat /\ Cardinality(Busy(l)) \in Nat
          /\ MaxEmails \in Nat /\ Cardinality(Runs) \in Nat
      BY <2>1, CountsAreFinite DEF TypeInv
    <3> HIDE DEF sent, follow
    <3>5. sent <= MaxEmails + Cardinality(Runs) - 1 + follow
      BY <3>1, <3>2, <3>3, <3>4
    <3>6. QED
      BY <3>5 DEF sent, follow
  <2>2. QED
    BY <2>1 DEF LimitHolds
<1>4. Init => TypeInv
  BY TypeInvInit
<1>5. TypeInv /\ [Next]_vars => TypeInv'
  BY TypeInvNext
<1>6. QED
  BY <1>1, <1>2, <1>3, <1>4, <1>5, PTL DEF Spec
=============================================================================
