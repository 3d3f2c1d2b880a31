------------------------------- MODULE Mailboxes -------------------------------
(***************************************************************************)
(* The mailboxes of one organization: how they are connected, tested and   *)
(* disconnected (services/tenant_service.py, mailbox_oauth_service.py),    *)
(* polled (main.py) and sent from (services/mailbox_transport.py,          *)
(* tools/send_email.py), with the daily limits on sending.                 *)
(*                                                                         *)
(* One process.  Its calls give up the event loop only at the safety check *)
(* of a mail, while a webhook is told of a mail that left, and while the   *)
(* models read an inbound message: what they have read before may be out   *)
(* of date when they go on.                                                *)
(***************************************************************************)
EXTENDS Integers, FiniteSets, Sequences

CONSTANTS
  Boxes,        \* ids of mailbox_connections rows, numbered in order
  Addresses,    \* email addresses
  Senders,      \* concurrent calls of send_plain_email
  Polls,        \* concurrent runs of _run_due_mailbox_sync
  Poller,       \* the run of the background loop, which starts again and again
  Telling,      \* addresses whose IMAP server rejects a login in the words that
                \* the poll looks for
  DailyLimit,   \* daily_email_limit, of a process
  BoxLimit,     \* the highest daily_limit that a mailbox is given
  None,
  MaxChanges    \* bound: requests, withdrawn credentials, restarts and days that pass

Kinds == {"smtp_imap", "resend", "gmail"}

ASSUME ConstantsAssumption ==
  /\ Boxes \subseteq Nat \ {0} /\ IsFiniteSet(Boxes)
  /\ None \notin Addresses
  /\ IsFiniteSet(Senders) /\ Senders # {} /\ Poller \in Polls
  /\ Telling \subseteq Addresses
  /\ {DailyLimit, MaxChanges} \subseteq Nat /\ BoxLimit \in Nat \ {0}

VARIABLES
  box,      \* the mailbox_connections rows
  count,    \* _daily_send_counts of today
  rows,     \* rows created today of mails that left, as far as they are committed
  marked,   \* rows created today of messages that staff marked as sent by hand
  active,   \* whether the subscription of the organization is active
  sender,   \* what each sender is doing
  poll,     \* what each poll is doing
  left,     \* history: mails of this process that left today, other than replies
  crossed,  \* history: mailboxes that an administrator gave another account while a
            \* poll was reading them
  changes

vars == <<box, count, rows, marked, active, sender, poll, left, crossed, changes>>
sending == <<count, rows, marked, sender, left>>

Idle == [pc |-> "idle"]

\* A mail with a row of today has left, and the row is not committed yet.
Sent == [pc |-> "sent"]

\* Polls read the rows of their mailboxes before they wait for the models.
Reading(m) == \E p \in Polls : poll[p].pc = "reading" /\ poll[p].box = m

-----------------------------------------------------------------------------
(* Connecting.                                                             *)

Change == changes < MaxChanges /\ changes' = changes + 1

Absent == [status |-> "absent", kind |-> "smtp_imap", address |-> None, account |-> None,
           good |-> FALSE, limit |-> 0]

Limits == 1 .. BoxLimit

Exists(m) == box[m].status # "absent"

\* Mutant: only mailboxes in use are looked at.
Found_Connected(a) == {m \in Boxes : box[m].status = "CONNECTED" /\ box[m].address = a}

\* The rows with an address, of which there is at most one.
Found(a) == {m \in Boxes : Exists(m) /\ box[m].address = a}

\* The id a new row gets.
IsNew(m) == ~Exists(m) /\ \A k \in Boxes : k < m => Exists(k)

Crossed(m) == crossed' = IF Reading(m) THEN crossed \cup {m} ELSE crossed

\* An administrator enters a mailbox with a password or a Resend key, right or wrong.
Create(m, k, a) ==
  /\ Change
  /\ IsNew(m) /\ Found(a) = {} /\ k # "gmail"
  /\ \E good \in BOOLEAN, limit \in Limits :
       box' = [box EXCEPT ![m] = [status |-> "PENDING", kind |-> k, address |-> a,
                                  account |-> None, good |-> good, limit |-> limit]]
  /\ UNCHANGED <<active, sending, poll, crossed>>

\* Mutant: OAuth mailboxes are edited like the others.
Editable_Always(m, k) == TRUE

\* An edited mailbox does not stay an OAuth mailbox.
Editable(m, k) == k # "gmail"

\* An administrator edits a mailbox.  Its OAuth tokens stay where they are; the
\* password is kept or replaced.
Update(m, k, a) ==
  /\ Change
  /\ Exists(m) /\ Found(a) \subseteq {m} /\ Editable(m, k)
  /\ \E good \in BOOLEAN, limit \in Limits :
       box' = [box EXCEPT ![m] = [@ EXCEPT !.status = "PENDING", !.kind = k,
                                           !.address = a, !.good = good, !.limit = limit]]
  /\ Crossed(m)
  /\ UNCHANGED <<active, sending, poll>>

Disconnect(m) ==
  /\ Change
  /\ Exists(m)
  /\ box' = [box EXCEPT ![m].status = "DISABLED"]
  /\ UNCHANGED <<active, sending, poll, crossed>>

\* What a test can make of a mailbox.  It logs in by IMAP and SMTP; a grant is tried
\* only if the access token has expired, and a Resend key must be there, right or wrong.
TestResults(m) ==
  {result \in {"CONNECTED", "FAILED"} :
     IF result = "CONNECTED" THEN box[m].good \/ box[m].kind # "smtp_imap" ELSE ~box[m].good}

\* A test, and a reconnection is one, tries the credentials.
Test(m) ==
  /\ Change
  /\ Exists(m)
  /\ \E result \in TestResults(m) : box' = [box EXCEPT ![m].status = result]
  /\ UNCHANGED <<active, sending, poll, crossed>>

\* The owner of an account consents: its mailbox is created or becomes an OAuth
\* mailbox, whatever it was.
Consent(m, a) ==
  /\ Change
  /\ IF Found(a) = {} THEN IsNew(m) ELSE m \in Found(a)
  /\ \E limit \in Limits :
       box' = [box EXCEPT ![m] = [status |-> "CONNECTED", kind |-> "gmail", address |-> a,
                                  account |-> a, good |-> TRUE, limit |-> limit]]
  /\ Crossed(m)
  /\ UNCHANGED <<active, sending, poll>>

\* The provider no longer accepts the password or the grant.
Withdraw(m) ==
  /\ Change
  /\ Exists(m) /\ box[m].good
  /\ box' = [box EXCEPT ![m].good = FALSE]
  /\ UNCHANGED <<active, sending, poll, crossed>>

\* The subscription of the organization ends, or is taken up again.
Subscribe ==
  /\ Change
  /\ active' = ~active
  /\ UNCHANGED <<box, sending, poll, crossed>>

-----------------------------------------------------------------------------
(* Polling.                                                                *)

\* Connected mailboxes that are polled; Resend announces its mail.
Due == {m \in Boxes : box[m].status = "CONNECTED" /\ box[m].kind # "resend"}

\* A poll lists the connected mailboxes by their ids, while the subscription is active.
ListDue(p) ==
  /\ active
  /\ poll[p].pc = "idle" /\ Due # {}
  /\ \E list \in [1 .. Cardinality(Due) -> Due] :
       /\ \A i, j \in DOMAIN list : i < j => list[i] < list[j]
       /\ poll' = [poll EXCEPT ![p] = [pc |-> "next", todo |-> list]]
  /\ UNCHANGED <<box, active, sending, crossed, changes>>

\* The poll is done with the mailbox at the head of its list.
Done(p) ==
  poll' = [poll EXCEPT ![p] = IF Len(@.todo) = 1 THEN Idle
                              ELSE [pc |-> "next", todo |-> Tail(@.todo)]]

\* Mutant: a mailbox that cannot be read is noted and left as it is.
AfterFailure_Noted(m) == box[m].status

\* A rejected IMAP login takes the mailbox out of use if the server says AUTHENTICATION
\* FAILED.  If it uses other words the mailbox stays in use, and so does one whose Google
\* or Microsoft grant is rejected: their errors read otherwise.
AfterFailure(m) ==
  IF box[m].kind = "smtp_imap" /\ box[m].address \in Telling THEN "FAILED" ELSE box[m].status

\* The poll reads the next mailbox.
Read(p) ==
  /\ poll[p].pc = "next"
  /\ LET m == Head(poll[p].todo)
     IN  \/ /\ box[m].status # "CONNECTED" \/ box[m].kind = "resend"
            /\ Done(p)
            /\ UNCHANGED box
         \/ /\ m \in Due /\ ~box[m].good
            /\ box' = [box EXCEPT ![m].status = AfterFailure(m)]
            /\ Done(p)
         \/ /\ m \in Due /\ box[m].good
            /\ Done(p)
            /\ UNCHANGED box
         \/ /\ m \in Due /\ box[m].good
            /\ poll' = [poll EXCEPT ![p] =
                 [pc |-> "reading", todo |-> @.todo, box |-> m,
                  kind |-> box[m].kind, account |-> box[m].account]]
            /\ UNCHANGED box
  /\ UNCHANGED <<active, sending, crossed, changes>>

\* The models are done with the messages, which are marked as seen with what the poll
\* knows of the mailbox.  An access token that has expired in the meantime is renewed
\* with the grant the poll has read, and stored in the row.
MarkSeen(p) ==
  /\ poll[p].pc = "reading"
  /\ \/ UNCHANGED box
     \/ /\ poll[p].kind = "gmail"
        /\ box' = [box EXCEPT ![poll[p].box].account = poll[p].account]
  /\ Done(p)
  /\ UNCHANGED <<active, sending, crossed, changes>>

-----------------------------------------------------------------------------
(* Sending.                                                                *)

\* _check_daily_limit
UnderLimit(n) == n < DailyLimit

\* A mail passes the limit of the process and goes to the safety check.
\* old: the row of the mail was created on an earlier day.
StartMail(s) ==
  /\ sender[s].pc = "idle"
  /\ UnderLimit(count)
  /\ \E old \in BOOLEAN : sender' = [sender EXCEPT ![s] = [pc |-> "check", old |-> old]]
  /\ UNCHANGED <<box, count, rows, marked, active, poll, left, crossed, changes>>

Connected(m) == box[m].status = "CONNECTED"

\* The one connected mailbox of the organization.
Resolved(m) == Connected(m) /\ \A k \in Boxes \ {m} : ~Connected(k)

\* Mutant: the limit is passed by one.
BoxHasRoom_OneMore(m) == rows + marked <= box[m].limit

\* _mailbox_daily_limit_error counts committed rows, of any channel, by the day they were
\* created.
BoxHasRoom(m) == rows + marked < box[m].limit

\* The provider of the mailbox accepts the login, and the mail.
Delivers(m) == BoxHasRoom(m) /\ box[m].good

Counted == count' = count + 1 /\ left' = left + 1

\* The mail has passed the check: it leaves by the organization's mailbox and is counted
\* by the process, or is not sent.  Only a row of today is followed to its commit.
SendMail(s) ==
  /\ sender[s].pc = "check"
  /\ \/ /\ \E m \in Boxes : Resolved(m) /\ Delivers(m)
        /\ Counted
        /\ sender' = [sender EXCEPT ![s] = IF @.old THEN Idle ELSE Sent]
     \/ /\ sender' = [sender EXCEPT ![s] = Idle]
        /\ UNCHANGED <<count, left>>
  /\ UNCHANGED <<box, rows, marked, active, poll, crossed, changes>>

\* A notice to staff is sent without a check, by any connected mailbox, and has no row.
Notify ==
  /\ UnderLimit(count)
  /\ \E m \in Boxes : Connected(m) /\ Delivers(m)
  /\ Counted
  /\ UNCHANGED <<box, rows, marked, active, sender, poll, crossed, changes>>

\* Webhooks have been told of the mail, and its row is committed as SENT; or the write
\* fails and the row stays as it was.
CommitSent(s) ==
  /\ sender[s] = Sent
  /\ rows' \in {rows, rows + 1}
  /\ sender' = [sender EXCEPT ![s] = Idle]
  /\ UNCHANGED <<box, count, marked, active, poll, left, crossed, changes>>

\* Staff sends a LinkedIn or WhatsApp message by hand, and marks its row of today as sent.
MarkByHand ==
  /\ Change
  /\ marked' = marked + 1
  /\ UNCHANGED <<box, count, rows, active, sender, poll, left, crossed>>

\* A day passes.  What was drafted before is old now.
NextDay ==
  /\ Change
  /\ count' = 0 /\ rows' = 0 /\ marked' = 0 /\ left' = 0
  /\ sender' = [s \in Senders |-> IF sender[s].pc = "check"
                                  THEN [pc |-> "check", old |-> TRUE] ELSE Idle]
  /\ UNCHANGED <<box, active, poll, crossed>>

\* The process restarts and forgets what it has counted.
Restart ==
  /\ Change
  /\ count' = 0 /\ left' = 0
  /\ sender' = [s \in Senders |-> Idle]
  /\ poll' = [p \in Polls |-> Idle]
  /\ UNCHANGED <<box, rows, marked, active, crossed>>

-----------------------------------------------------------------------------
Init ==
  /\ box = [m \in Boxes |-> Absent]
  /\ count = 0
  /\ rows = 0 /\ marked = 0
  /\ active = TRUE
  /\ sender = [s \in Senders |-> Idle]
  /\ poll = [p \in Polls |-> Idle]
  /\ left = 0
  /\ crossed = {}
  /\ changes = 0

Admin ==
  \E m \in Boxes :
    \/ \E k \in Kinds, a \in Addresses : Create(m, k, a) \/ Update(m, k, a)
    \/ Disconnect(m) \/ Test(m) \/ Withdraw(m)
    \/ \E a \in Addresses : Consent(m, a)

Go(p) == Read(p) \/ MarkSeen(p)

Next ==
  \/ Admin
  \/ \E p \in Polls : ListDue(p) \/ Go(p)
  \/ Subscribe
  \/ \E s \in Senders : StartMail(s) \/ SendMail(s) \/ CommitSent(s)
  \/ Notify
  \/ MarkByHand
  \/ NextDay
  \/ Restart

\* The background loop polls at intervals, and a poll goes on when the models are done.
Fairness == WF_vars(ListDue(Poller)) /\ \A p \in Polls : WF_vars(Go(p))

Spec == Init /\ [][Next]_vars /\ Fairness

-----------------------------------------------------------------------------
(* Properties.                                                             *)

BoxType ==
  [status: {"absent", "PENDING", "CONNECTED", "FAILED", "DISABLED"}, kind: Kinds,
   address: Addresses \cup {None}, account: Addresses \cup {None}, good: BOOLEAN,
   limit: 0 .. BoxLimit]

\* Every variable has the type of the state it models; no two mailboxes have the same
\* address (the UNIQUE constraint of mailbox_connections).
TypeOK ==
  /\ box \in [Boxes -> BoxType]
  /\ \A m, k \in Boxes : m # k /\ Exists(m) /\ Exists(k) => box[m].address # box[k].address
  /\ {count, rows, marked, left} \subseteq Nat /\ active \in BOOLEAN
  /\ \A s \in Senders : sender[s] \in {Idle, Sent} \cup [pc: {"check"}, old: BOOLEAN]
  /\ \A p \in Polls :
       /\ poll[p].pc \in {"idle", "next", "reading"}
       /\ poll[p].pc # "idle" => poll[p].todo \in Seq(Boxes) /\ poll[p].todo # <<>>
       /\ poll[p].pc = "reading" =>
            /\ poll[p].box = Head(poll[p].todo)
            /\ poll[p].kind \in Kinds /\ poll[p].account \in Addresses \cup {None}
  /\ crossed \subseteq Boxes
  /\ changes \in 0 .. MaxChanges

\* The limits hold as far as they can: every sender that was at its safety check when
\* the last mail under the limit of the process left may still send one mail; and the
\* limit of the mailbox, which is asked of the committed rows of the day, is escaped by
\* every other sender whose mail has left while its row is not committed
\* (_check_daily_limit, _mailbox_daily_limit_error, send_approved_draft).
WithinLimits ==
  /\ left <= DailyLimit + Cardinality(Senders)
  /\ rows <= BoxLimit + Cardinality(Senders) - 1

\* An OAuth mailbox holds the grant of the account its address names, unless an
\* administrator gave the row to another account while a poll was reading it
\* (update_mailbox, _upsert_oauth_mailbox, get_valid_access_token).
OwnAccount ==
  \A m \in Boxes \ crossed :
    Exists(m) /\ box[m].kind = "gmail" => box[m].account = box[m].address

\* The mailboxes in use whose server rejects the password in words that the poll knows.
Rejected ==
  {m \in Boxes : /\ box[m].status = "CONNECTED" /\ box[m].kind = "smtp_imap"
                 /\ ~box[m].good /\ box[m].address \in Telling}

\* While the subscription is active, such a mailbox does not stay connected: the background
\* loop finds out and marks it as failed, whatever polls and administrators do meanwhile
\* (_run_due_mailbox_sync).  Nothing is promised where the server uses other words.
RejectedIsNoticed == \A m \in Boxes : m \in Rejected ~> m \notin Rejected \/ ~active
=============================================================================
