------------------------------ MODULE Outreach ------------------------------
(***************************************************************************)
(* Outreach of one campaign (outreach/marketing_agent.py and               *)
(* services/sequence_service.py): runs pick leads, reserve the next step   *)
(* of the sequence for a lead, generate its text with language models and  *)
(* leave a draft or send it; staff and the answers of leads change the     *)
(* same rows meanwhile.                                                    *)
(*                                                                         *)
(* A run gives its event loop up only while the models work, so the other  *)
(* calls of the same process fall between a reservation and its outcome.   *)
(* With OneLoop = FALSE every run has a replica of its own and other calls *)
(* also fall between two statements of a run.                              *)
(***************************************************************************)
EXTENDS Integers, FiniteSets, Sequences

CONSTANTS
  Leads,       \* the leads of the organization
  Runs,        \* concurrent calls of execute_campaign
  OneLoop,     \* whether all calls share one event loop
  Channel,     \* the channel of each step, as campaigns are first set up
  Sequences,   \* what staff may replace the sequence of the campaign by
  Reach,       \* the channels for which a lead has data
  Settings,    \* what the campaign sets: auto_approve_drafts, max_leads_per_campaign
  MaxEmails,   \* max_emails_per_lead of the campaign
  Ops,         \* the operations of staff and leads that are in use
  MaxRows,     \* bound: rows of email_messages for a lead
  MaxStarts,   \* bound: runs started in a behaviour
  MaxOps,      \* bound: operations of staff and leads in a behaviour
  MaxFaults    \* bound: crashes, lost answers and failed writes

Channels == {"email", "linkedin", "whatsapp"}

Steps == 1..Len(Channel)

AllOps == {"review", "followup", "answer", "response", "assign", "sequence",
           "import", "meeting", "data"}

ASSUME ConstantsAssumption ==
  /\ OneLoop \in BOOLEAN
  /\ Channel \in Seq(Channels) /\ Channel # <<>>
  /\ \A q \in Sequences :
       /\ DOMAIN q \subseteq Steps
       /\ \A n \in DOMAIN q : q[n].channel \in Channels /\ q[n].active \in BOOLEAN
  /\ Reach \in [Leads -> SUBSET Channels]
  /\ \A s \in Settings : s.auto \in BOOLEAN /\ s.batch \in Nat \ {0}
  /\ MaxEmails \in Nat \ {0}
  /\ Ops \subseteq AllOps /\ IsFiniteSet(Runs)
  /\ {MaxRows, MaxStarts, MaxOps, MaxFaults} \subseteq Nat

VARIABLES
  lead,    \* leads: status, opt-out and the channels with data
  cl,      \* campaign_leads: membership, counter and halt flags
  msgs,    \* the outbound rows of a lead in the campaign, oldest first
  skips,   \* the steps for which a lead has a row "Skipped ... outreach", and whether
           \* the row refers to the step
  seqs,    \* campaign_sequences: the channel of each step
  steps,   \* campaign_sequence_steps: which steps have a row, and in use
  run,     \* what each run is doing
  mails,   \* history: how often each step reached a lead
  base,    \* history: rows of a lead when its counter was last set to zero
  late,    \* history: mails to a lead since it answered or opted out
  starts,  \* runs so far
  ops,     \* operations so far
  faults   \* faults so far

vars == <<lead, cl, msgs, skips, seqs, steps, run, mails, base, late, starts, ops, faults>>

-----------------------------------------------------------------------------
(* Rows.                                                                   *)

LeadStatuses == {"NEW", "CONTACTED", "WARM", "MEETING_BOOKED"}

Message == [status: {"GENERATING", "DRAFT", "SENT", "FAILED", "REJECTED", "DELETED"},
            step: Steps,
            linked: BOOLEAN,     \* sequence_step_id is set
            followup: BOOLEAN,   \* written by generate_due_followup_drafts
            channel: Channels]

NoMember == [member |-> FALSE, sent |-> 0, responded |-> FALSE, meeting |-> FALSE]
NewMember == [NoMember EXCEPT !.member = TRUE]

Idle == [pc |-> "idle", todo |-> {}, seen |-> [l \in Leads |-> "NEW"], left |-> 0,
         auto |-> FALSE]

Min0(S) == IF S = {} THEN 0 ELSE CHOOSE x \in S : \A y \in S : x <= y

Live == {"GENERATING", "DRAFT", "SENT"}

Touches(l) == {i \in DOMAIN msgs[l] : msgs[l][i].status \in Live}

LastTouch(l) == msgs[l][CHOOSE i \in Touches(l) : \A j \in Touches(l) : j <= i]

Pending(l) == {i \in DOMAIN msgs[l] : msgs[l][i].status \in {"GENERATING", "DRAFT"}}

\* Mutant: only the opt-out halts a lead.
Halted_ByOptOut(l) == lead[l].out

Halted(l) == lead[l].out \/ cl[l].responded \/ cl[l].meeting

\* The lowest step that uses a channel: the step an unlinked row is taken for.
Inferred(channel) == Min0({n \in Steps : seqs[n] = channel})

\* Mutant: the counter alone decides.
NextNumber_ByCounter(l, sent) == sent + 1

\* The number of the step after the last touch of a lead, whose counter the
\* claim has moved to "sent".
NextNumber(l, sent) ==
  LET last == LastTouch(l) IN
  IF Touches(l) = {} THEN sent + 1
  ELSE 1 + (IF last.linked THEN last.step
            ELSE IF sent > 0 THEN sent
            ELSE IF Inferred(last.channel) > 0 THEN Inferred(last.channel)
            ELSE Cardinality({i \in Touches(l) : msgs[l][i].status = "SENT"}))

-----------------------------------------------------------------------------
(* The next step of a lead: what _find_next_sequence_step answers when the *)
(* delay of the step has passed ("due") or not.                            *)

Answer(code, n, channel, linked) ==
  [code |-> code, step |-> n, channel |-> channel, linked |-> linked]

Halt == Answer("halt", 0, "email", FALSE)

\* Mutant: a touch that is not sent yet does not hold the next one up.
MustWait_ForDrafts(l) == Touches(l) # {} /\ LastTouch(l).status = "DRAFT"

MustWait(l) == Touches(l) # {} /\ LastTouch(l).status # "SENT"

FindNext(l, sent, due) ==
  LET n == NextNumber(l, sent)
      defined == n \in Steps /\ seqs[n] # "none"
      channel == IF defined THEN seqs[n] ELSE "email"
      linked == defined /\ steps[n] # "none"
  IN CASE Halted(l) \/ MustWait(l) \/ (~defined /\ n # 1) -> Halt
       [] OTHER ->
            IF channel \notin lead[l].reach THEN Answer("skip", n, channel, linked)
            ELSE IF Touches(l) # {} /\ defined /\ ~due THEN Halt
            ELSE Answer("step", n, channel, linked)

MaxOf(a, b) == IF a > b THEN a ELSE b

SkipRow == [step: Steps, linked: BOOLEAN]

\* A step without channel data is skipped, which moves the counter of the campaign lead.
PassOver(l, before, found) ==
  [before EXCEPT !.sent = IF cl[l].member THEN MaxOf(before.sent, found.step) ELSE before.sent,
                 !.skipped = before.skipped \cup {[step |-> found.step, linked |-> found.linked]}]

\* A round of a claim: after a step that is skipped the search goes on.
Round(l, due, before) ==
  LET found == FindNext(l, before.sent, due) IN
  IF before.code # "skip" THEN before
  ELSE IF found.code # "skip" THEN [before EXCEPT !.code = found.code, !.next = found]
  ELSE PassOver(l, before, found)

\* Up to five rounds.
Search(l, due) ==
  LET again(before) == Round(l, due, before)
  IN again(again(again(again(again(
       [code |-> "skip", sent |-> cl[l].sent, skipped |-> {}, next |-> Halt])))))

-----------------------------------------------------------------------------
(* Who runs.  A run keeps its event loop from one await to the next.       *)

Holds(r) == run[r].pc \notin {"idle", "generate"}

\* Others may act when no run of the same event loop is between two awaits.
Turn == OneLoop => \A r \in Runs : ~Holds(r)

TurnOf(r) == OneLoop => \A q \in Runs \ {r} : ~Holds(q)

At(r, pc) == run[r].pc = pc /\ TurnOf(r)

Goto(r, pc) == run' = [run EXCEPT ![r].pc = pc]

\* The run turns to its next lead or, with none left, ends.
Next1(r) ==
  run' = [run EXCEPT ![r] = IF @.todo = {} THEN Idle
                            ELSE [pc |-> "next", todo |-> @.todo, auto |-> @.auto,
                                  seen |-> @.seen, left |-> @.left]]

-----------------------------------------------------------------------------
(* A run of execute_campaign.                                              *)

\* Mutant: the limit of mails is one too high.
Candidate_OneMore(l) ==
  cl[l].member /\ ~lead[l].out /\ cl[l].sent <= MaxEmails /\ Pending(l) = {}

Candidate(l) ==
  cl[l].member /\ ~lead[l].out /\ cl[l].sent < MaxEmails /\ Pending(l) = {}

Start(r) ==
  /\ At(r, "idle")
  /\ starts < MaxStarts
  /\ \E l \in Leads : Candidate(l)
  /\ \E s \in Settings :
       run' = [run EXCEPT ![r] =
                 [pc |-> "next", todo |-> {l \in Leads : Candidate(l)}, auto |-> s.auto,
                  seen |-> [l \in Leads |-> lead[l].status], left |-> s.batch]]
  /\ starts' = starts + 1
  /\ UNCHANGED <<lead, cl, msgs, skips, seqs, steps, mails, base, late, ops, faults>>

\* The SELECTs of a claim.
Find(r) ==
  /\ At(r, "next")
  /\ run[r].left > 0
  /\ \E l \in run[r].todo, due \in BOOLEAN :
       run' = [run EXCEPT ![r] =
                 [pc |-> "reserve", todo |-> @.todo \ {l}, auto |-> @.auto, seen |-> @.seen,
                  left |-> @.left, lead |-> l, found |-> Search(l, due)]]
  /\ UNCHANGED <<lead, cl, msgs, skips, seqs, steps, mails, base, late, starts, ops, faults>>

\* The batch is full.
Enough(r) ==
  /\ At(r, "next")
  /\ run[r].left = 0
  /\ run' = [run EXCEPT ![r] = Idle]
  /\ UNCHANGED <<lead, cl, msgs, skips, seqs, steps, mails, base, late, starts, ops, faults>>

\* The index on the first touch: one live row without a step id.
FirstTouchTaken(l) ==
  \E i \in DOMAIN msgs[l] : msgs[l][i].status \in Live /\ ~msgs[l][i].linked

Reserved(f) == [status |-> "GENERATING", step |-> f.step, linked |-> f.linked,
                channel |-> f.channel, followup |-> FALSE]

\* The counter of a campaign lead after the skipped steps of a claim.
Skipped(l, found) ==
  IF cl[l].member THEN [cl[l] EXCEPT !.sent = MaxOf(@, found.sent)] ELSE cl[l]

\* The INSERTs and the commit of a claim.  A claim that finds the first touch
\* taken fails and leaves nothing; one that finds no step keeps its skips.
Reserve(r) ==
  LET l == run[r].lead
      found == run[r].found
      claims == found.code = "step"
  IN /\ At(r, "reserve")
     /\ claims => Len(msgs[l]) < MaxRows
     /\ IF claims /\ ~found.next.linked /\ FirstTouchTaken(l)
        THEN Next1(r) /\ UNCHANGED <<cl, skips, msgs>>
        ELSE /\ cl' = [cl EXCEPT ![l] = Skipped(l, found)]
             /\ skips' = [skips EXCEPT ![l] = @ \cup found.skipped]
             /\ IF claims
                THEN /\ msgs' = [msgs EXCEPT ![l] = Append(@, Reserved(found.next))]
                     /\ run' = [run EXCEPT ![r] =
                                  [pc |-> "generate", todo |-> @.todo, auto |-> @.auto, seen |-> @.seen,
                                   left |-> @.left - 1, lead |-> l,
                                   row |-> Len(msgs[l]) + 1]]
                ELSE Next1(r) /\ UNCHANGED msgs
     /\ UNCHANGED <<lead, seqs, steps, mails, base, late, starts, ops, faults>>

MyRow(r) == msgs[run[r].lead][run[r].row]

\* The run sends the mail itself.
Sends(r) == run[r].auto /\ MyRow(r).channel = "email"

SetRow(l, i, status) == msgs' = [msgs EXCEPT ![l][i].status = status]

\* One more mail of a step has reached the lead.
Reached(l, n) ==
  /\ mails' = [mails EXCEPT ![l][n] = @ + 1]
  /\ late' = [late EXCEPT ![l] = IF lead[l].out \/ cl[l].responded \/ cl[l].meeting
                                 THEN @ + 1 ELSE @]

\* update_lead_touch: a lead that is no longer assigned is assigned again.
Touch(l) == IF cl[l].member THEN [cl[l] EXCEPT !.sent = @ + 1]
            ELSE [NewMember EXCEPT !.sent = 1]

\* The text is ready and is kept as a draft, over whatever the row holds now.
Draft(r) ==
  /\ At(r, "generate")
  /\ ~Sends(r)
  /\ SetRow(run[r].lead, run[r].row, "DRAFT")
  /\ Goto(r, "touch")
  /\ UNCHANGED <<lead, cl, skips, seqs, steps, mails, base, late, starts, ops, faults>>

\* Only a row that is still reserved fails.
Failed(status) == IF status = "GENERATING" THEN "FAILED" ELSE status

\* The models or the provider fail, or the provider's answer is lost.
Fail(r) ==
  LET l == run[r].lead IN
  /\ At(r, "generate")
  /\ SetRow(l, run[r].row, Failed(MyRow(r).status))
  /\ \/ UNCHANGED <<mails, late, faults>>
     \/ /\ Sends(r)
        /\ faults < MaxFaults
        /\ faults' = faults + 1
        /\ Reached(l, MyRow(r).step)
  /\ Next1(r)
  /\ UNCHANGED <<lead, cl, skips, seqs, steps, base, starts, ops>>

\* The provider takes the mail.
Mail(r) ==
  /\ At(r, "generate")
  /\ Sends(r)
  /\ Reached(run[r].lead, MyRow(r).step)
  /\ Goto(r, "record")
  /\ UNCHANGED <<lead, cl, msgs, skips, seqs, steps, base, starts, ops, faults>>

\* The row is recorded as sent; a failing write is logged and passed over.
Record(r) ==
  /\ At(r, "record")
  /\ \/ SetRow(run[r].lead, run[r].row, "SENT") /\ UNCHANGED faults
     \/ faults < MaxFaults /\ faults' = faults + 1 /\ UNCHANGED msgs
  /\ Goto(r, "touch")
  /\ UNCHANGED <<lead, cl, skips, seqs, steps, mails, base, late, starts, ops>>

\* The lead is counted as touched and, when the run that sent the mail saw it
\* cold at its start, set to CONTACTED.
CountTouch(r) ==
  LET l == run[r].lead IN
  /\ At(r, "touch")
  /\ cl' = [cl EXCEPT ![l] = Touch(l)]
  /\ lead' = IF Sends(r) /\ run[r].seen[l] = "NEW"
             THEN [lead EXCEPT ![l].status = "CONTACTED"] ELSE lead
  /\ Next1(r)
  /\ UNCHANGED <<msgs, skips, seqs, steps, mails, base, late, starts, ops, faults>>

\* A process ends: all its runs are gone and their rows stay as they are.
Crash ==
  /\ faults < MaxFaults
  /\ \E r \in Runs : run[r].pc # "idle"
  /\ \E dead \in IF OneLoop THEN {Runs} ELSE {{r} : r \in Runs} :
       run' = [r \in Runs |-> IF r \in dead THEN Idle ELSE run[r]]
  /\ faults' = faults + 1
  /\ UNCHANGED <<lead, cl, msgs, skips, seqs, steps, mails, base, late, starts, ops>>

-----------------------------------------------------------------------------
(* Staff and leads.                                                        *)

Op(o) == o \in Ops /\ ops < MaxOps /\ Turn /\ ops' = ops + 1

Draftable(l, i) == msgs[l][i].status = "DRAFT"

\* An approval that is sent: only a row with a step id counts as a touch.
Approve(l, i) ==
  /\ Op("review")
  /\ Draftable(l, i) /\ msgs[l][i].channel = "email"
  /\ SetRow(l, i, "SENT")
  /\ Reached(l, msgs[l][i].step)
  /\ cl' = IF msgs[l][i].linked THEN [cl EXCEPT ![l] = Touch(l)] ELSE cl
  /\ UNCHANGED <<lead, skips, seqs, steps, run, base, starts, faults>>

\* A rejection, or an approval whose send fails.
Discard(l, i) ==
  /\ Op("review")
  /\ Draftable(l, i)
  /\ \E status \in {"REJECTED", "FAILED"} :
       /\ status = "FAILED" => msgs[l][i].channel = "email"
       /\ SetRow(l, i, status)
  /\ UNCHANGED <<lead, cl, skips, seqs, steps, run, mails, base, late, starts, faults>>

\* A LinkedIn or WhatsApp draft that a person has sent.  get_lead does not
\* select the status, so the check for a cold lead always holds.
MarkSent(l, i) ==
  /\ Op("review")
  /\ Draftable(l, i) /\ msgs[l][i].channel # "email"
  /\ SetRow(l, i, "SENT")
  /\ Reached(l, msgs[l][i].step)
  /\ cl' = [cl EXCEPT ![l] = Touch(l)]
  /\ lead' = [lead EXCEPT ![l].status = "CONTACTED"]
  /\ UNCHANGED <<skips, seqs, steps, run, base, starts, faults>>

StopFuture(l, stop) ==
  IF stop /\ cl[l].member THEN [cl EXCEPT ![l].sent = MaxEmails] ELSE cl

\* The deletion of a draft, of a failed row or of the row of a skipped step.
Delete(l, stop) ==
  /\ Op("review")
  /\ \/ \E i \in DOMAIN msgs[l] : /\ msgs[l][i].status \in {"DRAFT", "FAILED"}
                                  /\ SetRow(l, i, "DELETED")
                                  /\ UNCHANGED skips
     \/ \E s \in skips[l] : skips' = [skips EXCEPT ![l] = @ \ {s}] /\ UNCHANGED msgs
  /\ cl' = StopFuture(l, stop)
  /\ UNCHANGED <<lead, seqs, steps, run, mails, base, late, starts, faults>>

\* ensure_default_steps: a campaign without steps gets the two default ones.
WithDefaults ==
  IF \A n \in Steps : steps[n] = "none"
  THEN [n \in Steps |-> IF n <= 2 THEN "active" ELSE "none"] ELSE steps

Duplicate(l, n) ==
  \E i \in DOMAIN msgs[l] : /\ msgs[l][i].linked /\ msgs[l][i].step = n
                            /\ msgs[l][i].status \in {"DRAFT", "SENT"}

\* The leads whose next step by the counter is in use and has no draft yet.
FollowupDue(l) ==
  LET n == cl[l].sent + 1 IN
  /\ cl[l].member /\ ~Halted(l) /\ cl[l].sent < MaxEmails
  /\ n \in Steps /\ WithDefaults[n] = "active" /\ ~Duplicate(l, n)

\* Mutant: a step without a row in campaign_sequences has no channel.
FollowupRow_NoDefault(l) ==
  LET n == cl[l].sent + 1 IN
  [status |-> "DRAFT", step |-> n, linked |-> TRUE, followup |-> TRUE,
   channel |-> seqs[n]]

FollowupRow(l) ==
  LET n == cl[l].sent + 1 IN
  [status |-> "DRAFT", step |-> n, linked |-> TRUE, followup |-> TRUE,
   channel |-> IF seqs[n] = "none" THEN "email" ELSE seqs[n]]

\* generate_due_followup_drafts, for the leads whose delay has passed.
Followups ==
  /\ Op("followup")
  /\ steps' = WithDefaults
  /\ \E due \in SUBSET {l \in Leads : FollowupDue(l)} :
       /\ \A l \in due : Len(msgs[l]) < MaxRows
       /\ msgs' = [l \in Leads |-> IF l \in due THEN Append(msgs[l], FollowupRow(l))
                                   ELSE msgs[l]]
  /\ UNCHANGED <<lead, cl, skips, seqs, run, mails, base, late, starts, faults>>

\* An answer of a lead halts the campaign for it, unless it is a bounce.
Answered(l, intent) ==
  /\ Op("answer")
  /\ cl' = IF cl[l].member
           THEN [cl EXCEPT ![l].responded = TRUE,
                           ![l].meeting = @ \/ intent = "meeting_confirmation"]
           ELSE cl
  /\ lead' = [lead EXCEPT ![l].out = @ \/ intent = "opt_out",
                          ![l].status = IF intent = "interest" THEN "WARM" ELSE @]
  /\ UNCHANGED <<msgs, skips, seqs, steps, run, mails, base, late, starts, faults>>

\* Staff sets or clears the response flag: a cleared flag starts a new count.
SetResponded(l, responded) ==
  /\ Op("response")
  /\ cl[l].member
  /\ cl' = [cl EXCEPT ![l].responded = responded]
  /\ late' = [late EXCEPT ![l] = IF responded THEN @ ELSE 0]
  /\ UNCHANGED <<lead, msgs, skips, seqs, steps, run, mails, base, starts, faults>>

\* A meeting is scheduled: every campaign of the lead is halted.
ScheduleMeeting(l) ==
  /\ Op("meeting")
  /\ lead' = [lead EXCEPT ![l].status = "MEETING_BOOKED"]
  /\ cl' = IF cl[l].member THEN [cl EXCEPT ![l].meeting = TRUE] ELSE cl
  /\ UNCHANGED <<msgs, skips, seqs, steps, run, mails, base, late, starts, faults>>

\* The assignments of the campaign are replaced: every counter and flag of the
\* campaign is lost, those of the leads that stay included.
ReplaceLeads(kept) ==
  /\ Op("assign")
  /\ cl' = [l \in Leads |-> IF l \in kept THEN NewMember ELSE NoMember]
  /\ late' = [l \in Leads |-> 0]
  /\ base' = [l \in Leads |-> Len(msgs[l])]
  /\ UNCHANGED <<lead, msgs, skips, seqs, steps, run, mails, starts, faults>>

\* The campaigns of one lead are replaced, by an update of the lead.
AssignCampaigns(l, assigned) ==
  /\ Op("assign")
  /\ cl' = [cl EXCEPT ![l] = IF assigned THEN NewMember ELSE NoMember]
  /\ late' = [late EXCEPT ![l] = 0]
  /\ base' = [base EXCEPT ![l] = Len(msgs[l])]
  /\ UNCHANGED <<lead, msgs, skips, seqs, steps, run, mails, starts, faults>>

\* An import without a status column updates a known lead: it is NEW again and
\* no longer opted out.
Import(l) ==
  /\ Op("import")
  /\ lead' = [lead EXCEPT ![l].status = "NEW", ![l].out = FALSE]
  /\ cl' = IF cl[l].member THEN cl ELSE [cl EXCEPT ![l] = NewMember]
  /\ late' = [late EXCEPT ![l] = 0]
  /\ UNCHANGED <<msgs, skips, seqs, steps, run, mails, base, starts, faults>>

\* Staff completes or removes the contact data of a lead.
UpdateData(l, reach) ==
  /\ Op("data")
  /\ lead' = [lead EXCEPT ![l].reach = reach]
  /\ UNCHANGED <<cl, msgs, skips, seqs, steps, run, mails, base, late, starts, faults>>

\* A message or the row of a skipped step refers to the step.
Referenced(n) ==
  \E l \in Leads :
    \/ \E i \in DOMAIN msgs[l] :
         msgs[l][i].linked /\ msgs[l][i].step = n /\ msgs[l][i].status # "DELETED"
    \/ [step |-> n, linked |-> TRUE] \in skips[l]

\* The row of a step that is no longer wanted stays, out of use, when it is referred
\* to, and is deleted otherwise.
Kept(n, wanted) ==
  IF n \in DOMAIN wanted THEN (IF wanted[n].active THEN "active" ELSE "inactive")
  ELSE IF steps[n] # "none" /\ Referenced(n) THEN "inactive"
  ELSE "none"

\* The sequence of the campaign is replaced in two transactions, of which the second
\* may fail.  Another replica may act between them: what it sees then is a call
\* without its second half, and the whole call comes later.
ReplaceSequence(wanted) ==
  /\ Op("sequence")
  /\ steps' = [n \in Steps |-> Kept(n, wanted)]
  /\ \/ /\ seqs' = [n \in Steps |-> IF n \in DOMAIN wanted THEN wanted[n].channel ELSE "none"]
        /\ UNCHANGED faults
     \/ /\ faults < MaxFaults
        /\ faults' = IF OneLoop THEN faults + 1 ELSE faults
        /\ UNCHANGED seqs
  /\ UNCHANGED <<lead, cl, msgs, skips, run, mails, base, late, starts>>

-----------------------------------------------------------------------------
Init ==
  /\ lead = [l \in Leads |-> [status |-> "NEW", out |-> FALSE, reach |-> Reach[l]]]
  /\ cl = [l \in Leads |-> NewMember]
  /\ msgs = [l \in Leads |-> <<>>]
  /\ skips = [l \in Leads |-> {}]
  /\ \E isSet \in BOOLEAN :
       /\ seqs = [n \in Steps |-> IF isSet THEN Channel[n] ELSE "none"]
       /\ steps = [n \in Steps |-> IF isSet THEN "active" ELSE "none"]
  /\ run = [r \in Runs |-> Idle]
  /\ mails = [l \in Leads |-> [n \in Steps |-> 0]]
  /\ base = [l \in Leads |-> 0]
  /\ late = [l \in Leads |-> 0]
  /\ starts = 0 /\ ops = 0 /\ faults = 0

Runner(r) ==
  \/ Start(r) \/ Find(r) \/ Enough(r) \/ Reserve(r) \/ Draft(r)
  \/ Fail(r) \/ Mail(r) \/ Record(r) \/ CountTouch(r)

Review(l) ==
  \/ \E i \in DOMAIN msgs[l] : Approve(l, i) \/ Discard(l, i) \/ MarkSent(l, i)
  \/ \E stop \in BOOLEAN : Delete(l, stop)

Staff(l) ==
  \/ \E responded \in BOOLEAN : SetResponded(l, responded)
  \/ \E assigned \in BOOLEAN : AssignCampaigns(l, assigned)
  \/ \E reach \in {Channels, {"email"}} : UpdateData(l, reach)
  \/ ScheduleMeeting(l)
  \/ Import(l)

Next ==
  \/ \E r \in Runs : Runner(r)
  \/ \E l \in Leads : Review(l) \/ Staff(l)
  \/ \E l \in Leads, intent \in {"opt_out", "interest", "meeting_confirmation"} :
       Answered(l, intent)
  \/ \E kept \in SUBSET Leads : ReplaceLeads(kept)
  \/ \E wanted \in Sequences : ReplaceSequence(wanted)
  \/ Followups
  \/ Crash

Spec == Init /\ [][Next]_vars

-----------------------------------------------------------------------------
(* Properties.                                                             *)

\* The rows that follow-up generation wrote for a lead.
Followed(l) == {i \in DOMAIN msgs[l] : msgs[l][i].followup}

\* Every variable has the type of the state it models: a touch has a channel also
\* when its step has no row in campaign_sequences (generate_due_followup_drafts).
TypeOK ==
  /\ lead \in [Leads -> [status: LeadStatuses, out: BOOLEAN, reach: SUBSET Channels]]
  /\ cl \in [Leads -> [member: BOOLEAN, sent: Nat, responded: BOOLEAN, meeting: BOOLEAN]]
  /\ \A l \in Leads : msgs[l] \in Seq(Message) /\ Len(msgs[l]) <= MaxRows
  /\ skips \in [Leads -> SUBSET SkipRow]
  /\ seqs \in [Steps -> Channels \cup {"none"}]
  /\ steps \in [Steps -> {"active", "inactive", "none"}]
  /\ \A r \in Runs : run[r].pc \in
       {"idle", "next", "reserve", "generate", "record", "touch"}
  /\ {late, base} \subseteq [Leads -> Nat]
  /\ mails \in [Leads -> [Steps -> Nat]]
  /\ {starts, ops, faults} \subseteq Nat

\* A lead has at most one outbound row that waits for its models or its review
\* (_find_next_sequence_step looks at the last touch only); each follow-up that
\* was generated beside it may wait too, or hide it from one more claim.
OnePendingTouch ==
  \A l \in Leads : Cardinality(Pending(l)) <= 1 + Cardinality(Followed(l))

\* A step reaches a lead once, unless a crash, a lost answer or a failed write
\* fell between the mail and its record.  A follow-up that was generated while a run
\* held a step reserved, or after the counter was set to zero, may repeat its step, and
\* once it is the last touch the steps after it are repeated too, once for each.
StepReachesOnce ==
  faults = 0 =>
    \A l \in Leads, n \in Steps :
      mails[l][n] <= 1 + Cardinality({i \in Followed(l) : msgs[l][i].step <= n})

\* After an answer or an opt-out a lead is reached only by what had been reserved
\* or drafted before: one touch of a run and the follow-ups.
HaltsAreHeard == \A l \in Leads : late[l] <= 1 + Cardinality(Followed(l))

\* The rows of a lead since its counter was last set to zero.
Since(l) == {i \in DOMAIN msgs[l] : i > base[l]}

\* Of the touches written since its counter was last set to zero, a lead was sent at
\* most as many as the campaign allows, and one more for each run that chose it as a
\* candidate while another brought it to the limit and for each follow-up.
LimitHolds ==
  faults = 0 =>
    \A l \in Leads :
      Cardinality({i \in Since(l) : msgs[l][i].status = "SENT"})
        <= MaxEmails + Cardinality(Runs) - 1 + Cardinality(Followed(l) \cap Since(l))
=============================================================================
