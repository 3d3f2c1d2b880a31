------------------------------- MODULE Inbound -------------------------------
(***************************************************************************)
(* Answers of leads: mailbox polling (services/mailbox_transport.py) and   *)
(* provider webhooks (main.py) hand messages to the email monitor          *)
(* (email_monitor/monitor.py), which judges them with language models,     *)
(* drafts or sends a reply (tools/email_reply.py) and records the message  *)
(* with what it means for the lead.                                        *)
(*                                                                         *)
(* All calls share one event loop, which a call gives up only while the    *)
(* models or the sending agent work.  A crash ends every call, and the     *)
(* poller starts again with the process.                                   *)
(***************************************************************************)
EXTENDS Integers, FiniteSets, Sequences

CONSTANTS
  Polled,       \* messages that arrive in a mailbox, numbered as their UIDs are
  Pushed,       \* messages that a provider announces by webhook
  Leads,        \* known leads
  From,         \* the sender of a message, a lead or a stranger
  Exact,        \* messages that write the address of the sender as it is stored
  Broken,       \* messages whose fetch or parse always fails
  Intent,       \* what a message means, as the models read it
  Syncs,        \* concurrent calls of sync_unread_mailbox
  Hooks,        \* concurrent webhook requests
  AutoReply,    \* whether a reply to a message may go out unreviewed: which of both
                \* answers the settings and the campaign give
  Limit,        \* mailbox_sync_default_limit
  MaxPushes,    \* bound: webhook deliveries
  MaxReviews,   \* bound: reply drafts reviewed by staff
  MaxFaults,    \* bound: crashes, failures, and restarts and extra calls of the agent
  MaxEvents     \* bound: deliveries, reviews and faults together

Messages == Polled \cup Pushed
Calls == Syncs \cup Hooks

Intents == {"meeting_request", "meeting_confirmation", "interest", "opt_out", "spam"}

ASSUME ConstantsAssumption ==
  /\ Polled \subseteq Nat /\ Polled \cap Pushed = {}
  /\ Intent \in [Messages -> Intents]
  /\ DOMAIN From = Messages
  /\ Exact \subseteq Messages /\ Broken \subseteq Polled
  /\ Syncs \cap Hooks = {}
  /\ AutoReply \in [Messages -> SUBSET BOOLEAN]
  /\ Limit \in Nat \ {0}
  /\ {MaxPushes, MaxReviews, MaxFaults, MaxEvents} \subseteq Nat

VARIABLES
  box,       \* the mailbox: which messages are there, unread or seen
  recorded,  \* inbound rows of each message
  draft,     \* the reply draft of each message
  lead,      \* status, opt-out and campaign flags of each lead
  memory,    \* the webhook events this process remembers
  call,      \* what each call is doing
  mails,     \* history: replies to each message that were sent
  refused,   \* history: messages the pipeline turned away without a record
  excused,   \* history: messages that two calls worked on at the same time, or whose
             \* work a crash, a restart, an extra call or a lost write disturbed
  pushes,    \* webhook deliveries so far
  reviews,   \* reviewed reply drafts so far
  faults     \* faults so far

vars == <<box, recorded, draft, lead, memory, call, mails, refused, excused,
          pushes, reviews, faults>>
history == <<mails, refused, excused>>
bounds == <<pushes, reviews, faults>>

Idle == [pc |-> "idle", todo |-> <<>>]

\* The calls that work on a message.
WorksOn(m) == {c \in Calls : call[c].pc \notin {"idle", "next"} /\ call[c].message = m}

-----------------------------------------------------------------------------
(* The event loop.                                                         *)

Holds(c) == call[c].pc \in {"next", "record", "seen"}

Turn(c) == \A d \in Calls \ {c} : ~Holds(d)

At(c, pc) == call[c].pc = pc /\ Turn(c)

Goto(c, pc) == call' = [call EXCEPT ![c].pc = pc]

MayHappen == pushes + reviews + faults < MaxEvents

Fault == MayHappen /\ faults < MaxFaults /\ faults' = faults + 1

\* A poll goes on with its next message, a webhook request is over.
Done(c) == call' = [call EXCEPT ![c] =
             IF c \in Syncs /\ @.todo # <<>> THEN [pc |-> "next", todo |-> @.todo]
             ELSE Idle]

-----------------------------------------------------------------------------
(* Arrivals.                                                               *)

Arrive(m) ==
  /\ box[m] = "absent"
  /\ \A k \in Polled : k < m => box[k] # "absent"
  /\ box' = [box EXCEPT ![m] = "unread"]
  /\ UNCHANGED <<recorded, draft, lead, memory, call, history, bounds>>

Unread == {m \in Polled : box[m] = "unread"}

\* A list of the newest unread messages, the newest first, as many as the limit admits.
Newest(list) ==
  /\ \A i, j \in DOMAIN list : i < j => list[i] > list[j]
  /\ \A m \in Unread : \/ \E i \in DOMAIN list : list[i] = m
                       \/ Len(list) = Limit /\ \A i \in DOMAIN list : list[i] > m

\* A poll lists the unread messages of the mailbox.
Poll(c) ==
  /\ At(c, "idle")
  /\ \E n \in 1 .. Limit : \E list \in [1 .. n -> Unread] :
       /\ Newest(list)
       /\ call' = [call EXCEPT ![c] = [pc |-> "next", todo |-> list]]
  /\ UNCHANGED <<box, recorded, draft, lead, memory, history, bounds>>

\* Mutant: fetching a message marks it as seen.
Fetched_MarksSeen(m) == [box EXCEPT ![m] = "seen"]

\* The message is fetched with BODY.PEEK, which leaves its flags alone.
Fetched(m) == box

\* Mutant: messages that were recorded are not recognized.
AlreadyRecorded_Never(m) == FALSE

AlreadyRecorded(m) == recorded[m] > 0


Settled(m) == [box EXCEPT ![m] = "seen"]

\* The route is found whatever the case of the address.
Routed(m) == From[m] \in Leads /\ ~lead[From[m]].out

\* The monitor and its tools look for the address as the message writes it.
Known(m) == From[m] \in Leads /\ m \in Exact

\* The poll leaves the next message behind.
Skip(c) == call' = [call EXCEPT ![c] =
             IF Tail(@.todo) = <<>> THEN Idle ELSE [pc |-> "next", todo |-> Tail(@.todo)]]

\* The fetch of the next message: what is recorded or has no route is marked as
\* seen; the rest goes to the models.
Take(c) ==
  LET m == Head(call[c].todo)
  IN /\ At(c, "next")
     /\ m \notin Broken
     /\ IF AlreadyRecorded(m) \/ ~Routed(m)
        THEN /\ box' = Settled(m)
             /\ refused' = IF AlreadyRecorded(m) THEN refused ELSE refused \cup {m}
             /\ Skip(c)
             /\ UNCHANGED excused
        ELSE /\ box' = Fetched(m)
             /\ call' = [call EXCEPT ![c] = [pc |-> "models", todo |-> Tail(@.todo),
                                            message |-> m, tool |-> "unused"]]
             /\ excused' = IF WorksOn(m) # {} THEN excused \cup {m} ELSE excused
             /\ UNCHANGED refused
     /\ UNCHANGED <<recorded, draft, lead, memory, mails, bounds>>

\* Fetching, parsing, looking up or marking the next message raises an error: it stays
\* unread, and the poll goes on.
TakeFails(c) ==
  /\ At(c, "next")
  /\ \/ Head(call[c].todo) \in Broken /\ UNCHANGED faults
     \/ Fault
  /\ Skip(c)
  /\ UNCHANGED <<box, recorded, draft, lead, memory, history, pushes, reviews>>

Remembered(m) == m \in memory

\* A webhook delivery, perhaps repeated: an event the process remembers is
\* skipped; a new one is remembered before it is worked on.
Push(c, m) ==
  /\ At(c, "idle")
  /\ MayHappen /\ pushes < MaxPushes
  /\ pushes' = pushes + 1
  /\ IF Remembered(m) THEN UNCHANGED <<memory, call, excused>>
     ELSE /\ memory' = memory \cup {m}
          /\ call' = [call EXCEPT ![c] =
               [pc |-> "models", todo |-> <<>>, message |-> m, tool |-> "unused"]]
          /\ excused' = IF WorksOn(m) # {} THEN excused \cup {m} ELSE excused
  /\ UNCHANGED <<box, recorded, draft, lead, mails, refused, reviews, faults>>

\* An event that is older than the retention is forgotten.
Forget(m) ==
  /\ m \in memory
  /\ memory' = memory \ {m}
  /\ Fault
  /\ excused' = excused \cup {m}
  /\ UNCHANGED <<box, recorded, draft, lead, call, mails, refused, pushes, reviews>>

-----------------------------------------------------------------------------
(* The pipeline.                                                           *)

\* The message ends without a reply and without a record: an inactive
\* subscription, a failed check, a reply the evaluator rejects, or an error of
\* the models.  The poller marks it as seen all the same.
Refuse(c) ==
  /\ At(c, "models")
  /\ refused' = refused \cup {call[c].message}
  /\ IF c \in Syncs THEN Goto(c, "seen") ELSE Done(c)
  /\ UNCHANGED <<box, recorded, draft, lead, memory, mails, excused, bounds>>

Replies(l) == {m \in Messages : From[m] = l /\ draft[m] \in {"DRAFT", "SENT"}}

\* A reply draft of the same message is used again; otherwise the index on rows
\* without a step id admits one live row per lead and campaign.
CanDraft(m) == draft[m] = "DRAFT" \/ Replies(From[m]) = {}

\* The reply is kept as a draft for review, if the address belongs to a lead.
Drafted(m) == [draft EXCEPT ![m] = IF Known(m) /\ CanDraft(m) THEN "DRAFT" ELSE @]

DraftReply(c) ==
  /\ At(c, "models")
  /\ FALSE \in AutoReply[call[c].message]
  /\ draft' = Drafted(call[c].message)
  /\ Goto(c, "record")
  /\ UNCHANGED <<box, recorded, lead, memory, history, bounds>>

\* The reply is approved by the campaign: an agent sends it with its tool.
CallAgent(c) ==
  /\ At(c, "models")
  /\ TRUE \in AutoReply[call[c].message]
  /\ Goto(c, "agent")
  /\ UNCHANGED <<box, recorded, draft, lead, memory, history, bounds>>

\* The agent calls its tool once, as it is told to, or once more.
CallsTool(c, result) ==
  /\ At(c, "agent")
  /\ \/ call[c].tool = "unused" /\ UNCHANGED <<excused, faults>>
     \/ /\ call[c].tool # "unused"
        /\ Fault
        /\ excused' = excused \cup {call[c].message}
  /\ call' = [call EXCEPT ![c].tool = IF @ = "sent" THEN @ ELSE result]
  /\ UNCHANGED <<box, recorded, lead, memory, refused, pushes, reviews>>

AgentSends(c) ==
  /\ CallsTool(c, "sent")
  /\ mails' = [mails EXCEPT ![call[c].message] = @ + 1]
  /\ UNCHANGED draft

\* An agent that does not name the campaign gets a draft.
AgentDrafts(c) ==
  /\ CallsTool(c, "drafted")
  /\ FALSE \in AutoReply[call[c].message]
  /\ draft' = Drafted(call[c].message)
  /\ UNCHANGED mails

\* The model of the agent fails and another one starts the work anew.
AgentRestarts(c) ==
  /\ At(c, "agent")
  /\ Fault
  /\ call' = [call EXCEPT ![c].tool = "unused"]
  /\ excused' = excused \cup {call[c].message}
  /\ UNCHANGED <<box, recorded, draft, lead, memory, mails, refused, pushes, reviews>>

AgentEnds(c) ==
  /\ At(c, "agent")
  /\ Goto(c, "record")
  /\ UNCHANGED <<box, recorded, draft, lead, memory, history, bounds>>

\* Mutant: the opt-out is honoured when a reply was sent.
Heard_WhenReplied(m, sent) ==
  LET l == lead[From[m]]
      intent == Intent[m]
  IN [l EXCEPT !.status = IF intent = "opt_out" /\ sent THEN "OPTED_OUT" ELSE @,
               !.out = @ \/ (intent = "opt_out" /\ sent),
               !.responded = @ \/ intent # "spam",
               !.meeting = @ \/ intent = "meeting_confirmation"]

\* Mutant: the intent is written instead of the status it stands for.
Heard_Unmapped(m, sent) ==
  [lead[From[m]] EXCEPT !.status = IF sent THEN Intent[m] ELSE @,
                        !.out = @ \/ Intent[m] = "opt_out",
                        !.responded = @ \/ Intent[m] # "spam",
                        !.meeting = @ \/ Intent[m] = "meeting_confirmation"]

\* What a message does to its lead.
Heard(m, sent) ==
  LET l == lead[From[m]]
      intent == Intent[m]
  IN [l EXCEPT !.status = CASE intent = "opt_out" -> "OPTED_OUT"
                            [] sent /\ intent = "meeting_request" -> "MEETING_PROPOSED"
                            [] sent /\ intent = "meeting_confirmation" -> "MEETING_BOOKED"
                            [] sent /\ intent = "interest" -> "WARM"
                            [] OTHER -> @,
               !.out = @ \/ intent = "opt_out",
               !.responded = @ \/ intent # "spam",
               !.meeting = @ \/ intent = "meeting_confirmation"]

\* The message is recorded in one transaction; a failure is logged only, and a
\* message whose address belongs to no lead leaves no row.
Record(c) ==
  LET m == call[c].message IN
  /\ At(c, "record")
  /\ \/ /\ Known(m)
        /\ recorded' = [recorded EXCEPT ![m] = @ + 1]
        /\ lead' = [lead EXCEPT ![From[m]] = Heard(m, call[c].tool = "sent")]
        /\ UNCHANGED <<refused, excused, faults>>
     \/ /\ ~Known(m)
        /\ refused' = refused \cup {m}
        /\ UNCHANGED <<recorded, lead, excused, faults>>
     \/ /\ Fault
        /\ refused' = refused \cup {m}
        /\ excused' = excused \cup {m}
        /\ UNCHANGED <<recorded, lead>>
  /\ IF c \in Syncs THEN Goto(c, "seen") ELSE Done(c)
  /\ UNCHANGED <<box, draft, memory, mails, pushes, reviews>>

\* The poll marks the message as seen, or fails to.
MarkSeen(c) ==
  /\ At(c, "seen")
  /\ \/ box' = Settled(call[c].message) /\ UNCHANGED faults
     \/ Fault /\ UNCHANGED box
  /\ Done(c)
  /\ UNCHANGED <<recorded, draft, lead, memory, history, pushes, reviews>>

-----------------------------------------------------------------------------
(* Staff reviews a reply draft: it is sent or rejected.                    *)

Review(m) ==
  /\ \A c \in Calls : ~Holds(c)
  /\ MayHappen /\ reviews < MaxReviews
  /\ reviews' = reviews + 1
  /\ draft[m] = "DRAFT"
  /\ \/ /\ draft' = [draft EXCEPT ![m] = "SENT"]
        /\ mails' = [mails EXCEPT ![m] = @ + 1]
     \/ draft' = [draft EXCEPT ![m] = "none"] /\ UNCHANGED mails
  /\ UNCHANGED <<box, recorded, lead, memory, call, refused, excused, pushes, faults>>

\* The process ends: its calls are gone and its memory of events is lost.
Crash ==
  /\ \E c \in Calls : call[c] # Idle
  /\ Fault
  /\ call' = [c \in Calls |-> Idle]
  /\ memory' = {}
  /\ excused' = excused \cup memory \cup {m \in Messages : WorksOn(m) # {}}
  /\ UNCHANGED <<box, recorded, draft, lead, mails, refused, pushes, reviews>>

-----------------------------------------------------------------------------
Init ==
  /\ box = [m \in Polled |-> "absent"]
  /\ recorded = [m \in Messages |-> 0]
  /\ draft = [m \in Messages |-> "none"]
  /\ lead = [l \in Leads |-> [status |-> "CONTACTED", out |-> FALSE,
                              responded |-> FALSE, meeting |-> FALSE]]
  /\ memory = {}
  /\ call = [c \in Calls |-> Idle]
  /\ mails = [m \in Messages |-> 0]
  /\ refused = {} /\ excused = {}
  /\ pushes = 0 /\ reviews = 0 /\ faults = 0

Step(c) ==
  \/ Refuse(c) \/ DraftReply(c) \/ CallAgent(c) \/ AgentSends(c) \/ AgentDrafts(c)
  \/ AgentEnds(c) \/ Record(c) \/ MarkSeen(c)

Sync(c) == Poll(c) \/ Take(c) \/ TakeFails(c) \/ Step(c)

Next ==
  \/ \E m \in Polled : Arrive(m)
  \/ \E c \in Syncs : Poll(c) \/ Take(c) \/ TakeFails(c)
  \/ \E c \in Hooks, m \in Pushed : Push(c, m)
  \/ \E c \in Calls : Step(c) \/ AgentRestarts(c)
  \/ \E m \in Pushed : Forget(m)
  \/ \E m \in Messages : Review(m)
  \/ Crash

\* The poller runs for ever, and the models and the agent always answer.
Fairness == /\ \A c \in Hooks : WF_vars(Step(c))
            /\ \A c \in Syncs : WF_vars(Sync(c))

Spec == Init /\ [][Next]_vars /\ Fairness

-----------------------------------------------------------------------------
(* Properties.                                                             *)

\* Every variable has the type of the state it models: a lead has one of the statuses
\* the monitor writes (_update_lead_from_inbound).
TypeOK ==
  /\ box \in [Polled -> {"absent", "unread", "seen"}]
  /\ recorded \in [Messages -> Nat]
  /\ draft \in [Messages -> {"none", "DRAFT", "SENT"}]
  /\ lead \in [Leads -> [status: {"CONTACTED", "WARM", "MEETING_PROPOSED",
                                  "MEETING_BOOKED", "OPTED_OUT"},
                         out: BOOLEAN, responded: BOOLEAN, meeting: BOOLEAN]]
  /\ memory \subseteq Pushed
  /\ \A c \in Calls : call[c].pc \in {"idle", "next", "models", "agent", "record", "seen"}
  /\ mails \in [Messages -> Nat]
  /\ refused \subseteq Messages /\ excused \subseteq Messages
  /\ bounds \in Nat \X Nat \X Nat

\* A message is answered once, counting a draft that waits: polls that follow
\* one another recognize what is recorded, also when marking it as seen failed,
\* and webhooks what they remember.  Two calls that work on it at once, a crash, a
\* lost write, an agent that is restarted or calls its tool twice or a forgotten event
\* may repeat the answer.  A polled message that writes the address of a lead in another
\* way than it is stored leaves no record, so that nothing keeps polls from answering it
\* again: it is left out here.
AnsweredOnce ==
  \A m \in (Pushed \cup Exact) \ excused :
    mails[m] + (IF draft[m] = "DRAFT" THEN 1 ELSE 0) <= 1

\* What a recorded message asks for is in force, whatever other messages of the
\* lead did before and after, and whether a reply was sent.
RecordedIsHeard ==
  \A m \in Messages : recorded[m] > 0 =>
    /\ Intent[m] = "opt_out" => lead[From[m]].out
    /\ Intent[m] # "spam" => lead[From[m]].responded
    /\ Intent[m] = "meeting_confirmation" => lead[From[m]].meeting

\* No crash and no failure loses a message unseen: one that is marked as seen
\* has a record, or was turned away.
SeenIsSettled ==
  \A m \in Polled : box[m] = "seen" => recorded[m] > 0 \/ m \in refused

=============================================================================
