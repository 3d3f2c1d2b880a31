--------------------------- MODULE MailboxesProofs ---------------------------
(* Theorems about Mailboxes, for every value of its constants. *)
EXTENDS Mailboxes, FiniteSetTheorems, TLAPS

-----------------------------------------------------------------------------
(* Types.                                                                  *)

Lists == Seq(Boxes) \ {<< >>}

\* A poll that reads, reads the mailbox at the head of its list.
PollType ==
  {Idle} \cup [pc: {"next"}, todo: Lists]
         \cup {x \in [pc: {"reading"}, todo: Lists, box: Boxes, kind: Kinds,
                      account: Addresses \cup {None}] : x.box = Head(x.todo)}

SenderType == {Idle, Sent} \cup [pc: {"check"}, old: BOOLEAN]

BoxesOK ==
  /\ box \in [Boxes -> BoxType]
  /\ \A m, k \in Boxes : m # k /\ Exists(m) /\ Exists(k) => box[m].address # box[k].address

\* TypeOK, for what the variables are as functions.
TypeInv ==
  /\ BoxesOK /\ poll \in [Polls -> PollType]
  /\ {count, rows, marked, left} \subseteq Nat /\ active \in BOOLEAN
  /\ sender \in [Senders -> SenderType]
  /\ crossed \subseteq Boxes
  /\ changes \in 0 .. MaxChanges

(* The types are TypeOK.                                                   *)
LEMMA TypesAreOK == TypeInv => TypeOK
<1> SUFFICES ASSUME TypeInv PROVE TypeOK
  OBVIOUS
<1>1. ASSUME NEW p \in Polls
      PROVE  /\ poll[p].pc \in {"idle", "next", "reading"}
             /\ poll[p].pc # "idle" => poll[p].todo \in Seq(Boxes) /\ poll[p].todo # <<>>
             /\ poll[p].pc = "reading" =>
                  /\ poll[p].box = Head(poll[p].todo)
                  /\ poll[p].kind \in Kinds /\ poll[p].account \in Addresses \cup {None}
  <2>1. poll[p] \in PollType
    BY DEF TypeInv
  <2>2. QED
    BY <2>1 DEF PollType, Lists, Idle
<1>2. QED
  BY <1>1 DEF TypeInv, TypeOK, BoxesOK, SenderType

(* One row is written, with an address of its own.                         *)
LEMMA OneBoxWritten ==
  ASSUME BoxesOK, NEW m \in Boxes, NEW row \in BoxType, box' = [box EXCEPT ![m] = row],
         \A k \in Boxes \ {m} : Exists(k) => box[k].address # row.address
  PROVE  BoxesOK'
<1>1. /\ box' \in [Boxes -> BoxType] /\ box'[m] = row
      /\ \A k \in Boxes \ {m} : box'[k] = box[k]
  BY DEF BoxesOK
<1>2. QED
  BY <1>1 DEF BoxesOK, Exists

(* The status, the account and the credentials of a row that exists may    *)
(* change: its address stays.                                              *)
LEMMA OneBoxRefreshed ==
  ASSUME BoxesOK, NEW m \in Boxes, Exists(m), NEW row \in BoxType,
         row.address = box[m].address, box' = [box EXCEPT ![m] = row]
  PROVE  BoxesOK'
<1>1. \A k \in Boxes \ {m} : Exists(k) => box[k].address # row.address
  BY DEF BoxesOK
<1>2. QED
  BY <1>1, OneBoxWritten

(* What administrators and providers do to the rows.                       *)
LEMMA AdminTypes ==
  ASSUME TypeInv, Admin
  PROVE  BoxesOK' /\ crossed' \subseteq Boxes /\ changes' \in 0 .. MaxChanges
         /\ UNCHANGED <<active, sending, poll>>
<1>1. PICK m \in Boxes :
        \/ \E k \in Kinds, a \in Addresses : Create(m, k, a) \/ Update(m, k, a)
        \/ Disconnect(m) \/ Test(m) \/ Withdraw(m)
        \/ \E a \in Addresses : Consent(m, a)
  BY Zenon DEF Admin
<1>2. box \in [Boxes -> BoxType] /\ BoxesOK /\ {MaxChanges, BoxLimit} \subseteq Nat
  BY ConstantsAssumption DEF TypeInv, BoxesOK
<1>3. box[m] \in BoxType
  BY <1>2
<1>4. ASSUME NEW k \in Kinds, NEW a \in Addresses, Create(m, k, a)
      PROVE  BoxesOK'
  <2>1. PICK good \in BOOLEAN, limit \in Limits :
          box' = [box EXCEPT ![m] = [status |-> "PENDING", kind |-> k, address |-> a,
                                     account |-> None, good |-> good, limit |-> limit]]
    BY <1>4 DEF Create
  <2>2. \A n \in Boxes : Exists(n) => box[n].address # a
    BY <1>4 DEF Create, Found
  <2> DEFINE row == [status |-> "PENDING", kind |-> k, address |-> a, account |-> None,
                     good |-> good, limit |-> limit]
  <2>3. limit \in 0 .. BoxLimit
    BY <1>2 DEF Limits
  <2>4. row \in BoxType /\ row.address = a /\ box' = [box EXCEPT ![m] = row]
    BY <2>1, <2>3 DEF BoxType
  <2> HIDE DEF row
  <2>5. QED
    BY <1>2, <2>2, <2>4, OneBoxWritten
<1>5. ASSUME NEW k \in Kinds, NEW a \in Addresses, Update(m, k, a)
      PROVE  BoxesOK'
  <2>1. PICK good \in BOOLEAN, limit \in Limits :
          box' = [box EXCEPT ![m] = [@ EXCEPT !.status = "PENDING", !.kind = k,
                                              !.address = a, !.good = good, !.limit = limit]]
    BY <1>5 DEF Update
  <2> DEFINE row == [box[m] EXCEPT !.status = "PENDING", !.kind = k,
                                   !.address = a, !.good = good, !.limit = limit]
  <2>2. box' = [box EXCEPT ![m] = row]
    BY <2>1
  <2>3. limit \in 0 .. BoxLimit
    BY <1>2 DEF Limits
  <2>4. row \in BoxType /\ row.address = a
    BY <1>3, <2>3 DEF BoxType
  <2> HIDE DEF row
  <2>5. \A n \in Boxes \ {m} : Exists(n) => box[n].address # a
    BY <1>5 DEF Update, Found
  <2>6. QED
    BY <1>2, <2>2, <2>4, <2>5, OneBoxWritten
<1>6. ASSUME NEW a \in Addresses, Consent(m, a)
      PROVE  BoxesOK'
  <2>1. PICK limit \in Limits :
          box' = [box EXCEPT ![m] = [status |-> "CONNECTED", kind |-> "gmail", address |-> a,
                                     account |-> a, good |-> TRUE, limit |-> limit]]
    BY <1>6 DEF Consent
  <2>2. \A n \in Boxes \ {m} : Exists(n) => box[n].address # a
    <3>1. CASE Found(a) = {}
      BY <3>1 DEF Found
    <3>2. CASE m \in Found(a)
      BY <1>2, <3>2 DEF Found, BoxesOK
    <3>3. QED
      BY <1>6, <3>1, <3>2 DEF Consent
  <2>3. [status |-> "CONNECTED", kind |-> "gmail", address |-> a, account |-> a,
         good |-> TRUE, limit |-> limit] \in BoxType
    BY <1>2 DEF BoxType, Kinds, Limits
  <2>4. QED
    BY <1>2, <2>1, <2>2, <2>3, OneBoxWritten
<1>7. ASSUME NEW status \in {"DISABLED", "CONNECTED", "FAILED"}, Exists(m),
             box' = [box EXCEPT ![m].status = status]
      PROVE  BoxesOK'
  <2>1. [box[m] EXCEPT !.status = status] \in BoxType
    BY <1>3 DEF BoxType
  <2>2. [box[m] EXCEPT !.status = status].address = box[m].address
    BY <1>3 DEF BoxType
  <2>3. QED
    BY <1>2, <1>7, <2>1, <2>2, OneBoxRefreshed
<1>8. ASSUME Disconnect(m) \/ Test(m)
      PROVE  BoxesOK'
  <2>1. CASE Disconnect(m)
    BY <1>7, <2>1 DEF Disconnect
  <2>2. CASE Test(m)
    <3>1. PICK result \in TestResults(m) : box' = [box EXCEPT ![m].status = result]
      BY <2>2 DEF Test
    <3>2. result \in {"DISABLED", "CONNECTED", "FAILED"}
      BY DEF TestResults
    <3>3. Exists(m)
      BY <2>2 DEF Test
    <3>4. QED
      BY <1>7, <3>1, <3>2, <3>3
  <2>3. QED
    BY <1>8, <2>1, <2>2
<1>9. ASSUME Withdraw(m)
      PROVE  BoxesOK'
  <2> DEFINE row == [box[m] EXCEPT !.good = FALSE]
  <2>1. row \in BoxType /\ row.address = box[m].address
    BY <1>3 DEF BoxType
  <2>2. Exists(m)
    BY <1>9 DEF Withdraw
  <2>3. box' = [box EXCEPT ![m] = row]
    BY <1>9 DEF Withdraw
  <2> HIDE DEF row
  <2>4. QED
    BY <1>2, <2>1, <2>2, <2>3, OneBoxRefreshed
<1>10. changes' \in 0 .. MaxChanges
  <2>1. Change
    BY <1>1 DEF Create, Update, Disconnect, Test, Withdraw, Consent
  <2>2. changes \in 0 .. MaxChanges
    BY DEF TypeInv
  <2>3. QED
    BY <1>2, <2>1, <2>2 DEF Change
<1>11. crossed' \subseteq Boxes
  <2>1. UNCHANGED crossed \/ Crossed(m)
    BY <1>1 DEF Create, Update, Disconnect, Test, Withdraw, Consent
  <2>2. crossed \subseteq Boxes
    BY DEF TypeInv
  <2>3. QED
    BY <2>1, <2>2 DEF Crossed
<1>12. UNCHANGED <<active, sending, poll>>
  BY <1>1 DEF Create, Update, Disconnect, Test, Withdraw, Consent
<1>13. QED
  BY <1>1, <1>4, <1>5, <1>6, <1>8, <1>9, <1>10, <1>11, <1>12

(* A list of mailboxes is one of at least one.                             *)
LEMMA ListIsOK ==
  ASSUME NEW S \in SUBSET Boxes, S # {}, NEW list \in [1 .. Cardinality(S) -> S]
  PROVE  list \in Lists
<1>1. IsFiniteSet(S)
  BY ConstantsAssumption, FS_Subset
<1>2. Cardinality(S) \in Nat /\ Cardinality(S) # 0
  BY <1>1, FS_CardinalityType, FS_EmptySet
<1>3. list \in Seq(Boxes) /\ Len(list) = Cardinality(S)
  BY <1>2
<1>4. QED
  BY <1>2, <1>3 DEF Lists

(* A poll that is done with a mailbox turns to the next, or ends.          *)
LEMMA DoneTypes ==
  ASSUME poll \in [Polls -> PollType], NEW p \in Polls, poll[p].pc # "idle", Done(p)
  PROVE  poll' \in [Polls -> PollType]
<1>1. poll[p].todo \in Lists
  BY DEF PollType, Idle
<1>2. Len(poll[p].todo) # 1 => Tail(poll[p].todo) \in Lists
  <2>1. /\ poll[p].todo \in Seq(Boxes) /\ poll[p].todo # << >>
        /\ Len(poll[p].todo) \in Nat /\ Len(poll[p].todo) # 0
    BY <1>1 DEF Lists
  <2>2. /\ Tail(poll[p].todo) \in Seq(Boxes)
        /\ Len(Tail(poll[p].todo)) = Len(poll[p].todo) - 1
    BY <2>1
  <2>3. ASSUME Tail(poll[p].todo) = << >>
        PROVE  Len(poll[p].todo) = 1
    <3>1. ASSUME NEW rest \in Seq(Boxes), rest = << >>
          PROVE  Len(rest) = 0
      BY <3>1
    <3>2. Len(Tail(poll[p].todo)) = 0
      BY <2>2, <2>3, <3>1
    <3>3. QED
      BY <2>1, <2>2, <3>2
  <2>4. QED
    BY <2>2, <2>3 DEF Lists
<1>3. QED
  BY <1>1, <1>2 DEF Done, PollType

(* What polls do.                                                          *)
LEMMA PollTypes ==
  ASSUME TypeInv, NEW p \in Polls, ListDue(p) \/ Go(p)
  PROVE  BoxesOK' /\ poll' \in [Polls -> PollType]
<1>1. box \in [Boxes -> BoxType] /\ BoxesOK /\ poll \in [Polls -> PollType]
  BY DEF TypeInv, BoxesOK
<1>2. UNCHANGED box => BoxesOK'
  BY <1>1 DEF BoxesOK, Exists
<1>3. CASE ListDue(p)
  <2>1. Due \in SUBSET Boxes /\ Due # {}
    BY <1>3 DEF ListDue, Due
  <2>2. PICK list \in [1 .. Cardinality(Due) -> Due] :
          poll' = [poll EXCEPT ![p] = [pc |-> "next", todo |-> list]]
    BY <1>3 DEF ListDue
  <2>3. list \in Lists
    BY <2>1, <2>2, ListIsOK
  <2>4. UNCHANGED box
    BY <1>3 DEF ListDue
  <2>5. QED
    BY <1>1, <1>2, <2>2, <2>3, <2>4 DEF PollType
<1>4. CASE Read(p)
  <2>1. poll[p].pc = "next" /\ poll[p].todo \in Lists
    BY <1>1, <1>4 DEF Read, PollType, Idle
  <2>2. PICK m \in Boxes : m = Head(poll[p].todo)
    BY <2>1 DEF Lists
  <2>3. BoxesOK'
    <3>1. CASE UNCHANGED box
      BY <1>2, <3>1
    <3>2. CASE m \in Due /\ box' = [box EXCEPT ![m].status = AfterFailure(m)]
      <4>1. box[m] \in BoxType /\ Exists(m)
        BY <1>1, <3>2 DEF Due, Exists
      <4>2. AfterFailure(m) \in {"absent", "PENDING", "CONNECTED", "FAILED", "DISABLED"}
        BY <4>1 DEF AfterFailure, BoxType
      <4>3. /\ [box[m] EXCEPT !.status = AfterFailure(m)] \in BoxType
            /\ [box[m] EXCEPT !.status = AfterFailure(m)].address = box[m].address
        BY <4>1, <4>2 DEF BoxType
      <4>4. QED
        BY <1>1, <3>2, <4>1, <4>3, OneBoxRefreshed
    <3>3. QED
      BY <1>4, <2>2, <3>1, <3>2 DEF Read
  <2>4. poll' \in [Polls -> PollType]
    <3>1. CASE Done(p)
      BY <1>1, <2>1, <3>1, DoneTypes
    <3>2. CASE poll' = [poll EXCEPT ![p] =
                 [pc |-> "reading", todo |-> poll[p].todo, box |-> m,
                  kind |-> box[m].kind, account |-> box[m].account]]
      <4>1. box[m].kind \in Kinds /\ box[m].account \in Addresses \cup {None}
        BY <1>1 DEF BoxType
      <4>2. [pc |-> "reading", todo |-> poll[p].todo, box |-> m,
             kind |-> box[m].kind, account |-> box[m].account] \in PollType
        BY <2>1, <2>2, <4>1 DEF PollType
      <4>3. QED
        BY <1>1, <3>2, <4>2
    <3>3. QED
      BY <1>4, <2>2, <3>1, <3>2 DEF Read
  <2>5. QED
    BY <2>3, <2>4
<1>5. CASE MarkSeen(p)
  <2>1. /\ poll[p].pc = "reading" /\ poll[p].box \in Boxes
        /\ poll[p].account \in Addresses \cup {None} /\ Done(p)
    BY <1>1, <1>5 DEF MarkSeen, PollType, Idle
  <2>2. PICK m \in Boxes : m = poll[p].box
    BY <2>1
  <2>3. CASE UNCHANGED box
    BY <1>1, <1>2, <2>1, <2>3, DoneTypes
  <2>4. CASE box' = [box EXCEPT ![m].account = poll[p].account]
    <3>1. box[m] \in BoxType
      BY <1>1
    <3>2. [box[m] EXCEPT !.account = poll[p].account] \in BoxType
      BY <2>1, <3>1 DEF BoxType
    <3>3. ASSUME NEW k \in Boxes
          PROVE  Exists(k)' = Exists(k) /\ box'[k].address = box[k].address
      BY <1>1, <2>4, <3>1 DEF Exists, BoxType
    <3>4. box' \in [Boxes -> BoxType]
      BY <1>1, <2>4, <3>2
    <3>5. QED
      BY <1>1, <2>1, <3>3, <3>4, DoneTypes DEF BoxesOK
  <2>5. QED
    BY <1>5, <2>2, <2>3, <2>4 DEF MarkSeen
<1>6. QED
  BY <1>3, <1>4, <1>5 DEF Go

(* Every step keeps the types.                                             *)
LEMMA TypesNext ==
  ASSUME TypeInv, [Next]_vars
  PROVE  TypeInv'
<1>1. /\ MaxChanges \in Nat /\ active \in BOOLEAN
      /\ {count, rows, marked, left} \subseteq Nat /\ sender \in [Senders -> SenderType]
      /\ changes \in 0 .. MaxChanges /\ crossed \subseteq Boxes
      /\ BoxesOK /\ poll \in [Polls -> PollType]
  BY ConstantsAssumption DEF TypeInv
<1>2. UNCHANGED box => BoxesOK'
  BY <1>1 DEF BoxesOK, Exists
<1>3. CASE Admin
  BY <1>1, <1>3, AdminTypes DEF TypeInv, sending
<1>4. ASSUME NEW p \in Polls, ListDue(p) \/ Go(p)
      PROVE  TypeInv'
  <2>1. BoxesOK' /\ poll' \in [Polls -> PollType]
    BY <1>4, PollTypes
  <2>2. UNCHANGED <<active, sending, crossed, changes>>
    BY <1>4 DEF ListDue, Go, Read, MarkSeen
  <2>3. QED
    BY <1>1, <2>1, <2>2 DEF TypeInv, sending
<1>5. ASSUME NEW s \in Senders, StartMail(s) \/ SendMail(s) \/ CommitSent(s)
      PROVE  TypeInv'
  <2>1. sender' \in [Senders -> SenderType]
    BY <1>1, <1>5 DEF StartMail, SendMail, CommitSent, SenderType
  <2>2. {count', rows', marked', left'} \subseteq Nat
    BY <1>1, <1>5 DEF StartMail, SendMail, CommitSent, Counted
  <2>3. UNCHANGED <<box, active, poll, crossed, changes>>
    BY <1>5 DEF StartMail, SendMail, CommitSent
  <2>4. QED
    BY <1>1, <1>2, <2>1, <2>2, <2>3 DEF TypeInv
<1>6. CASE Notify \/ MarkByHand \/ Subscribe
  <2>1. {count', rows', marked', left'} \subseteq Nat
    BY <1>1, <1>6 DEF Notify, MarkByHand, Subscribe, Counted, sending
  <2>2. UNCHANGED <<box, poll, crossed, sender>>
    BY <1>6 DEF Notify, MarkByHand, Subscribe, sending
  <2>3. changes' \in 0 .. MaxChanges
    BY <1>1, <1>6 DEF Notify, MarkByHand, Subscribe, Change
  <2>4. active' \in BOOLEAN
    BY <1>1, <1>6, Zenon DEF Notify, MarkByHand, Subscribe
  <2>5. QED
    BY <1>1, <1>2, <2>1, <2>2, <2>3, <2>4 DEF TypeInv
<1>7. CASE NextDay
  <2>1. sender' \in [Senders -> SenderType]
    BY <1>7 DEF NextDay, SenderType
  <2>2. changes' \in 0 .. MaxChanges /\ UNCHANGED <<box, active, poll, crossed>>
    BY <1>1, <1>7 DEF NextDay, Change
  <2>3. QED
    BY <1>1, <1>2, <1>7, <2>1, <2>2 DEF NextDay, TypeInv
<1>8. CASE Restart
  <2>1. sender' \in [Senders -> SenderType] /\ poll' \in [Polls -> PollType]
    BY <1>8 DEF Restart, SenderType, PollType
  <2>2. changes' \in 0 .. MaxChanges /\ UNCHANGED <<box, rows, marked, active, crossed>>
    BY <1>1, <1>8 DEF Restart, Change
  <2>3. QED
    BY <1>1, <1>2, <1>8, <2>1, <2>2 DEF Restart, TypeInv
<1>9. CASE UNCHANGED vars
  BY <1>1, <1>2, <1>9 DEF vars, TypeInv
<1>10. QED
  BY <1>3, <1>4, <1>5, <1>6, <1>7, <1>8, <1>9 DEF Next

LEMMA TypesInit == Init => TypeInv
<1>1. Init => BoxesOK
  BY ConstantsAssumption DEF Init, BoxesOK, Exists, Absent, BoxType, Kinds
<1>2. QED
  BY <1>1, ConstantsAssumption DEF Init, TypeInv, SenderType, PollType

(* Each variable has the type of the state it models, and no two mailboxes *)
(* have the same address, however entries, edits, consents and polls       *)
(* follow each other.                                                      *)
THEOREM TypeCorrect == Spec => []TypeOK
<1>1. Init => TypeInv
  BY TypesInit
<1>2. TypeInv /\ [Next]_vars => TypeInv'
  BY TypesNext
<1>3. QED
  BY <1>1, <1>2, TypesAreOK, PTL DEF Spec

-----------------------------------------------------------------------------
(* The limits on sending.  A mail has its place under the limit of the     *)
(* process from the moment it passes it, and under that of the mailbox     *)
(* from the moment it leaves: those at the safety check, and those that    *)
(* are not committed, are counted with those that were.                    *)

AtCheck == {s \in Senders : sender[s].pc = "check"}
Uncommitted == {s \in Senders : sender[s].pc = "sent"}

\* What WithinLimits needs to be inductive, besides the types.
LimitsInv ==
  /\ left = count
  /\ count + Cardinality(AtCheck) <= DailyLimit + Cardinality(Senders)
  /\ rows + Cardinality(Uncommitted) <= BoxLimit + Cardinality(Senders) - 1

(* Senders are finitely many, and so are those in a place.                 *)
LEMMA SendersAreCounted ==
  ASSUME NEW S \in SUBSET Senders
  PROVE  /\ IsFiniteSet(S)
         /\ Cardinality(S) \in Nat
         /\ Cardinality(S) <= Cardinality(Senders)
         /\ Cardinality(Senders) \in Nat \ {0}
<1>1. IsFiniteSet(S) /\ Cardinality(S) <= Cardinality(Senders)
  BY ConstantsAssumption, FS_Subset
<1>2. Cardinality(S) \in Nat /\ Cardinality(Senders) \in Nat
  BY <1>1, ConstantsAssumption, FS_CardinalityType
<1>3. Cardinality(Senders) # 0
  BY ConstantsAssumption, FS_EmptySet
<1>4. QED
  BY <1>1, <1>2, <1>3

LEMMA LimitsInit == Init => LimitsInv
<1> SUFFICES ASSUME Init PROVE LimitsInv
  OBVIOUS
<1>1. AtCheck = {} /\ Uncommitted = {}
  BY DEF Init, AtCheck, Uncommitted, Idle
<1>2. Cardinality(AtCheck) = 0 /\ Cardinality(Uncommitted) = 0
  BY <1>1, FS_EmptySet
<1>3. Cardinality(Senders) \in Nat \ {0}
  BY SendersAreCounted
<1>4. QED
  BY <1>2, <1>3, ConstantsAssumption DEF Init, LimitsInv

(* What the lemmas below need to know of the types and of the sizes.       *)
LEMMA LimitFacts ==
  ASSUME TypeInv
  PROVE  /\ count \in Nat /\ rows \in Nat /\ marked \in Nat /\ left \in Nat
         /\ sender \in [Senders -> SenderType]
         /\ DailyLimit \in Nat /\ BoxLimit \in Nat \ {0}
         /\ Cardinality(Senders) \in Nat \ {0}
         /\ Cardinality(AtCheck) \in 0 .. Cardinality(Senders)
         /\ Cardinality(Uncommitted) \in 0 .. Cardinality(Senders)
<1>1. /\ Cardinality(AtCheck) \in Nat /\ Cardinality(AtCheck) <= Cardinality(Senders)
      /\ Cardinality(Senders) \in Nat \ {0}
  BY SendersAreCounted DEF AtCheck
<1>2. Cardinality(Uncommitted) \in Nat /\ Cardinality(Uncommitted) <= Cardinality(Senders)
  BY SendersAreCounted DEF Uncommitted
<1>3. QED
  BY <1>1, <1>2, ConstantsAssumption DEF TypeInv

(* A mail that passes the limit finds at most the other senders before it. *)
LEMMA StartMailLimits ==
  ASSUME TypeInv, LimitsInv, NEW s \in Senders, StartMail(s)
  PROVE  LimitsInv'
<1>1. Cardinality(AtCheck') \in 0 .. Cardinality(Senders)
  <2>1. AtCheck' \subseteq Senders
    BY DEF AtCheck
  <2>2. QED
    BY <2>1, SendersAreCounted
<1>2. Uncommitted' = Uncommitted
  BY LimitFacts DEF StartMail, Uncommitted, SenderType, Idle, Sent
<1>3. count < DailyLimit /\ UNCHANGED <<count, rows, left>>
  BY DEF StartMail, UnderLimit
<1>4. QED
  BY <1>1, <1>2, <1>3, LimitFacts DEF LimitsInv

(* A mail that leaves gives its place at the check to its count.  If its   *)
(* row is one of today it finds room, and at most the other senders        *)
(* between their mail and their commit.                                    *)
LEMMA SendMailLimits ==
  ASSUME TypeInv, LimitsInv, NEW s \in Senders, SendMail(s)
  PROVE  LimitsInv'
<1>1. s \in AtCheck /\ AtCheck' = AtCheck \ {s}
  BY LimitFacts DEF SendMail, AtCheck, Idle, Sent
<1>2. IsFiniteSet(AtCheck) /\ IsFiniteSet(Uncommitted)
  BY SendersAreCounted DEF AtCheck, Uncommitted
<1>3. Cardinality(AtCheck') = Cardinality(AtCheck) - 1
  BY <1>1, <1>2, LimitFacts, FS_RemoveElement
<1>4. count' \in Nat /\ left' = count' /\ count' <= count + 1 /\ rows' = rows
  BY LimitFacts DEF LimitsInv, SendMail, Counted
<1>5. s \notin Uncommitted
  BY DEF SendMail, Uncommitted
<1>6. CASE sender'[s] = Sent
  <2>1. PICK m \in Boxes : BoxHasRoom(m)
    BY <1>6, LimitFacts DEF SendMail, Delivers, Idle, Sent
  <2>2. box[m].limit \in 0 .. BoxLimit
    BY DEF TypeInv, BoxesOK, BoxType
  <2>3. rows <= BoxLimit - 1
    BY <2>1, <2>2, LimitFacts DEF BoxHasRoom
  <2>4. Uncommitted' = Uncommitted \cup {s}
    BY <1>6, LimitFacts DEF SendMail, Uncommitted, Sent
  <2>5. Cardinality(Uncommitted') = Cardinality(Uncommitted) + 1
    BY <1>2, <1>5, <2>4, FS_AddElement
  <2>6. Cardinality(Uncommitted') <= Cardinality(Senders)
    BY <1>5, <2>4, SendersAreCounted DEF Uncommitted
  <2>7. QED
    BY <1>3, <1>4, <2>3, <2>5, <2>6, LimitFacts DEF LimitsInv
<1>7. CASE sender'[s] # Sent
  <2>1. Uncommitted' = Uncommitted
    BY <1>5, <1>7, LimitFacts DEF SendMail, Uncommitted, Idle, Sent
  <2>2. QED
    BY <1>3, <1>4, <2>1, LimitFacts DEF LimitsInv
<1>8. QED
  BY <1>6, <1>7

(* A row that is committed gives its place to the rows of the day.         *)
LEMMA CommitSentLimits ==
  ASSUME TypeInv, LimitsInv, NEW s \in Senders, CommitSent(s)
  PROVE  LimitsInv'
<1>1. s \in Uncommitted /\ Uncommitted' = Uncommitted \ {s} /\ AtCheck' = AtCheck
  BY LimitFacts DEF CommitSent, Uncommitted, AtCheck, Idle, Sent
<1>2. IsFiniteSet(Uncommitted)
  BY SendersAreCounted DEF Uncommitted
<1>3. Cardinality(Uncommitted') = Cardinality(Uncommitted) - 1
  BY <1>1, <1>2, LimitFacts, FS_RemoveElement
<1>4. rows' \in Nat /\ rows' <= rows + 1 /\ UNCHANGED <<count, left>>
  BY LimitFacts DEF CommitSent
<1>5. QED
  BY <1>1, <1>3, <1>4, LimitFacts DEF LimitsInv

(* A notice takes the place of nobody: every sender may be at its check.   *)
LEMMA NotifyLimits ==
  ASSUME TypeInv, LimitsInv, Notify
  PROVE  LimitsInv'
<1>1. count < DailyLimit /\ count' = count + 1 /\ left' = left + 1 /\ rows' = rows
  BY DEF Notify, UnderLimit, Counted
<1>2. AtCheck' = AtCheck /\ Uncommitted' = Uncommitted
  BY DEF Notify, AtCheck, Uncommitted
<1>3. QED
  BY <1>1, <1>2, LimitFacts DEF LimitsInv

(* A new day and a restart begin to count anew.                            *)
LEMMA NextDayLimits ==
  ASSUME TypeInv, LimitsInv, NextDay
  PROVE  LimitsInv'
<1>1. AtCheck' = AtCheck
  BY LimitFacts DEF NextDay, AtCheck, SenderType, Idle, Sent
<1>2. Uncommitted' = {}
  BY DEF NextDay, Uncommitted, Idle
<1>3. Cardinality(Uncommitted') = 0
  BY <1>2, FS_EmptySet
<1>4. count' = 0 /\ rows' = 0 /\ left' = 0
  BY DEF NextDay
<1>5. QED
  BY <1>1, <1>3, <1>4, LimitFacts DEF LimitsInv

LEMMA RestartLimits ==
  ASSUME TypeInv, LimitsInv, Restart
  PROVE  LimitsInv'
<1>1. AtCheck' = {} /\ Uncommitted' = {}
  BY DEF Restart, AtCheck, Uncommitted, Idle
<1>2. Cardinality(AtCheck') = 0 /\ Cardinality(Uncommitted') = 0
  BY <1>1, FS_EmptySet
<1>3. count' = 0 /\ left' = 0 /\ rows' = rows
  BY DEF Restart
<1>4. QED
  BY <1>2, <1>3, LimitFacts DEF LimitsInv

(* Administrators and polls do not touch what senders have.                *)
LEMMA OthersLimits ==
  ASSUME LimitsInv, UNCHANGED <<count, left, rows, sender>>
  PROVE  LimitsInv'
BY DEF LimitsInv, AtCheck, Uncommitted

LEMMA LimitsNext == TypeInv /\ LimitsInv /\ [Next]_vars => LimitsInv'
<1> SUFFICES ASSUME TypeInv, LimitsInv, [Next]_vars PROVE LimitsInv'
  OBVIOUS
<1>1. CASE Admin \/ Subscribe \/ MarkByHand
  <2>1. UNCHANGED <<count, left, rows, sender>>
    BY <1>1 DEF Admin, Create, Update, Disconnect, Test, Withdraw, Consent, Subscribe,
                MarkByHand, sending
  <2>2. QED
    BY <2>1, OthersLimits
<1>2. ASSUME NEW p \in Polls, ListDue(p) \/ Go(p) PROVE LimitsInv'
  <2>1. UNCHANGED <<count, left, rows, sender>>
    BY <1>2 DEF ListDue, Go, Read, MarkSeen, sending
  <2>2. QED
    BY <2>1, OthersLimits
<1>3. ASSUME NEW s \in Senders, StartMail(s) \/ SendMail(s) \/ CommitSent(s)
      PROVE  LimitsInv'
  BY <1>3, StartMailLimits, SendMailLimits, CommitSentLimits
<1>4. CASE Notify
  BY <1>4, NotifyLimits
<1>5. CASE NextDay
  BY <1>5, NextDayLimits
<1>6. CASE Restart
  BY <1>6, RestartLimits
<1>7. CASE UNCHANGED vars
  BY <1>7, OthersLimits DEF vars
<1>8. QED
  BY <1>1, <1>2, <1>3, <1>4, <1>5, <1>6, <1>7 DEF Next

\* However many senders race, days pass, limits change and processes restart, a process
\* passes its daily limit by at most as many mails as it has senders, and the rows of a
\* day pass the highest limit of a mailbox by fewer mails than that (send_plain_email,
\* _check_daily_limit, _mailbox_daily_limit_error, send_approved_draft).
THEOREM LimitsAreKept == Spec => []WithinLimits
<1>1. TypeInv /\ LimitsInv => WithinLimits
  BY LimitFacts DEF LimitsInv, WithinLimits
<1>2. QED
  BY <1>1, TypesInit, TypesNext, LimitsInit, LimitsNext, PTL DEF Spec

-----------------------------------------------------------------------------
(* Whose grant a mailbox holds.  A poll writes what it has read before the *)
(* models worked; unless the row was given to another account meanwhile,   *)
(* that is still the grant of the address of the row.                      *)

\* The grant a poll may write into the row it reads.
GrantHeld(p) ==
  LET m == poll[p].box IN
  /\ m \in Boxes /\ Exists(m)
  /\ poll[p].account \in Addresses \cup {None}
  /\ m \notin crossed /\ poll[p].kind = "gmail" => poll[p].account = box[m].address

\* What OwnAccount needs to be inductive.
GrantInv ==
  /\ box \in [Boxes -> BoxType]
  /\ poll = [p \in Polls |-> poll[p]]
  /\ \A p \in Polls : poll[p].pc = "reading" => GrantHeld(p)
  /\ OwnAccount

LEMMA GrantInit == Init => GrantInv
BY ConstantsAssumption DEF Init, GrantInv, OwnAccount, Exists, Absent, BoxType, Kinds, Idle

(* A row that keeps its address keeps the grants that polls hold for it.   *)
LEMMA AddressKept ==
  ASSUME GrantInv,
         box' \in [Boxes -> BoxType],
         UNCHANGED poll,
         crossed \subseteq crossed',
         \A m \in Boxes : Exists(m) => Exists(m)',
         \A m \in Boxes \ crossed' : Exists(m) /\ Reading(m) =>
                                       box'[m].address = box[m].address
  PROVE  \A p \in Polls : poll'[p].pc = "reading" => GrantHeld(p)'
<1> SUFFICES ASSUME NEW p \in Polls, poll[p].pc = "reading"
             PROVE  GrantHeld(p)'
  OBVIOUS
<1> DEFINE m == poll[p].box
<1>1. GrantHeld(p)
  BY DEF GrantInv
<1>2. m \in Boxes /\ Exists(m) /\ Exists(m)' /\ Reading(m)
  BY <1>1 DEF GrantHeld, Reading
<1>3. m \notin crossed' => box'[m].address = box[m].address
  BY <1>2
<1>4. QED
  BY <1>1, <1>2, <1>3 DEF GrantHeld

(* A new row is in nobody's hands, and holds no grant.                     *)
LEMMA CreateGrants ==
  ASSUME GrantInv, NEW m \in Boxes, NEW k \in Kinds, NEW a \in Addresses, Create(m, k, a)
  PROVE  GrantInv'
<1>1. PICK good \in BOOLEAN, limit \in Limits :
        box' = [box EXCEPT ![m] = [status |-> "PENDING", kind |-> k, address |-> a,
                                   account |-> None, good |-> good, limit |-> limit]]
  BY DEF Create
<1>2. ~Exists(m) /\ k # "gmail" /\ UNCHANGED <<poll, crossed>>
  BY DEF Create, IsNew
<1>3. box' \in [Boxes -> BoxType]
  BY <1>1, ConstantsAssumption DEF GrantInv, BoxType, Limits
<1>4. \A n \in Boxes : n # m => box'[n] = box[n]
  BY <1>1 DEF GrantInv
<1>5. box'[m].status = "PENDING" /\ box'[m].kind = k
  BY <1>1 DEF GrantInv
<1>6. OwnAccount'
  BY <1>2, <1>4, <1>5 DEF GrantInv, OwnAccount, Exists
<1>7. \A p \in Polls : poll'[p].pc = "reading" => GrantHeld(p)'
  BY <1>2, <1>3, <1>4, AddressKept DEF Exists
<1>8. QED
  BY <1>2, <1>3, <1>6, <1>7 DEF GrantInv

(* An edited row is no OAuth mailbox.                                      *)
LEMMA UpdateGrants ==
  ASSUME GrantInv, NEW m \in Boxes, NEW k \in Kinds, NEW a \in Addresses, Update(m, k, a)
  PROVE  GrantInv'
<1>1. PICK good \in BOOLEAN, limit \in Limits :
        box' = [box EXCEPT ![m] = [@ EXCEPT !.status = "PENDING", !.kind = k,
                                            !.address = a, !.good = good, !.limit = limit]]
  BY DEF Update
<1>2. k # "gmail" /\ Crossed(m) /\ UNCHANGED poll
  BY DEF Update, Editable
<1>3. box' \in [Boxes -> BoxType]
  <2>1. limit \in 0 .. BoxLimit /\ box[m] \in BoxType
    BY ConstantsAssumption DEF GrantInv, Limits
  <2> DEFINE row == [box[m] EXCEPT !.status = "PENDING", !.kind = k,
                                   !.address = a, !.good = good, !.limit = limit]
  <2>2. row \in BoxType
    BY <2>1 DEF BoxType
  <2>3. box' = [box EXCEPT ![m] = row]
    BY <1>1
  <2> HIDE DEF row
  <2>4. QED
    BY <2>2, <2>3 DEF GrantInv
<1>4. \A n \in Boxes : n # m => box'[n] = box[n]
  BY <1>1 DEF GrantInv
<1>5. box'[m].status = "PENDING" /\ box'[m].kind = k
  BY <1>1 DEF GrantInv, BoxType
<1>6. crossed \subseteq crossed' /\ (Reading(m) => m \in crossed')
  BY <1>2 DEF Crossed
<1>7. OwnAccount'
  BY <1>2, <1>4, <1>5, <1>6 DEF GrantInv, OwnAccount, Exists
<1>8. \A p \in Polls : poll'[p].pc = "reading" => GrantHeld(p)'
  BY <1>2, <1>3, <1>4, <1>5, <1>6, AddressKept DEF Exists
<1>9. QED
  BY <1>2, <1>3, <1>7, <1>8 DEF GrantInv

(* A consent stores the grant of the address it names.                     *)
LEMMA ConsentGrants ==
  ASSUME GrantInv, NEW m \in Boxes, NEW a \in Addresses, Consent(m, a)
  PROVE  GrantInv'
<1>1. PICK limit \in Limits :
        box' = [box EXCEPT ![m] = [status |-> "CONNECTED", kind |-> "gmail", address |-> a,
                                   account |-> a, good |-> TRUE, limit |-> limit]]
  BY DEF Consent
<1>2. Crossed(m) /\ UNCHANGED poll
  BY DEF Consent
<1>3. box' \in [Boxes -> BoxType]
  BY <1>1, ConstantsAssumption DEF GrantInv, BoxType, Kinds, Limits
<1>4. \A n \in Boxes : n # m => box'[n] = box[n]
  BY <1>1 DEF GrantInv
<1>5. box'[m].status = "CONNECTED" /\ box'[m].account = box'[m].address
  BY <1>1 DEF GrantInv
<1>6. crossed \subseteq crossed' /\ (Reading(m) => m \in crossed')
  BY <1>2 DEF Crossed
<1>7. OwnAccount'
  BY <1>4, <1>5, <1>6 DEF GrantInv, OwnAccount, Exists
<1>8. \A p \in Polls : poll'[p].pc = "reading" => GrantHeld(p)'
  BY <1>2, <1>3, <1>4, <1>5, <1>6, AddressKept DEF Exists
<1>9. QED
  BY <1>2, <1>3, <1>7, <1>8 DEF GrantInv

(* Whatever else is done to a row leaves its kind, address and account.    *)
GrantsKept ==
  /\ box' \in [Boxes -> BoxType]
  /\ \A m \in Boxes : /\ box'[m].kind = box[m].kind
                      /\ box'[m].address = box[m].address
                      /\ box'[m].account = box[m].account
                      /\ Exists(m)' <=> Exists(m)

LEMMA AdminGrants ==
  ASSUME GrantInv, NEW m \in Boxes, Disconnect(m) \/ Test(m) \/ Withdraw(m)
  PROVE  GrantInv'
<1>1. GrantsKept
  <2>1. CASE Disconnect(m)
    BY <2>1 DEF Disconnect, GrantInv, GrantsKept, BoxType, Exists
  <2>2. CASE Test(m)
    BY <2>2 DEF Test, TestResults, GrantInv, GrantsKept, BoxType, Exists
  <2>3. CASE Withdraw(m)
    BY <2>3 DEF Withdraw, GrantInv, GrantsKept, BoxType, Exists
  <2>4. QED
    BY <2>1, <2>2, <2>3
<1>2. UNCHANGED <<poll, crossed>>
  BY DEF Disconnect, Test, Withdraw
<1>3. OwnAccount'
  BY <1>1, <1>2 DEF GrantInv, GrantsKept, OwnAccount
<1>4. \A p \in Polls : poll'[p].pc = "reading" => GrantHeld(p)'
  BY <1>1, <1>2, AddressKept DEF GrantsKept
<1>5. QED
  BY <1>1, <1>2, <1>3, <1>4 DEF GrantInv, GrantsKept

LEMMA ListDueGrants ==
  ASSUME GrantInv, NEW p \in Polls, ListDue(p)
  PROVE  GrantInv'
<1>1. UNCHANGED <<box, crossed>>
  BY DEF ListDue, sending
<1>2. poll' = [q \in Polls |-> poll'[q]]
  BY DEF GrantInv, ListDue
<1>3. \A q \in Polls : poll'[q].pc = "reading" => poll'[q] = poll[q]
  BY DEF GrantInv, ListDue
<1>4. QED
  BY <1>1, <1>2, <1>3 DEF GrantInv, GrantHeld, OwnAccount, Exists

(* A poll reads the grant of the row, which is that of its address.        *)
LEMMA ReadGrants ==
  ASSUME GrantInv, NEW p \in Polls, Read(p)
  PROVE  GrantInv'
<1> DEFINE m == Head(poll[p].todo)
<1>1. UNCHANGED crossed /\ poll' = [q \in Polls |-> poll'[q]]
  BY DEF GrantInv, Read, Done
<1>2. GrantsKept
  <2>1. CASE UNCHANGED box
    BY <2>1 DEF GrantInv, GrantsKept, Exists
  <2>2. CASE m \in Due /\ box' = [box EXCEPT ![m].status = AfterFailure(m)]
    BY <2>2 DEF GrantInv, GrantsKept, Exists, Due, AfterFailure, BoxType
  <2>3. QED
    BY <2>1, <2>2 DEF Read
<1>3. OwnAccount'
  BY <1>1, <1>2 DEF GrantInv, GrantsKept, OwnAccount
<1>4. ASSUME NEW q \in Polls, poll'[q].pc = "reading"
      PROVE  GrantHeld(q)'
  <2>1. CASE poll'[q] = poll[q]
    BY <1>1, <1>2, <1>4, <2>1 DEF GrantInv, GrantHeld, GrantsKept
  <2>2. CASE /\ q = p /\ m \in Due
             /\ poll'[p] = [pc |-> "reading", todo |-> poll[p].todo, box |-> m,
                            kind |-> box[m].kind, account |-> box[m].account]
    <3>1. m \in Boxes /\ Exists(m)
      BY <2>2 DEF Due, Exists
    <3>2. m \notin crossed /\ box[m].kind = "gmail" => box[m].account = box[m].address
      BY <3>1 DEF GrantInv, OwnAccount
    <3>3. box[m].account \in Addresses \cup {None}
      BY <3>1 DEF GrantInv, BoxType
    <3>4. QED
      BY <1>1, <1>2, <2>2, <3>1, <3>2, <3>3 DEF GrantHeld, GrantsKept
  <2>3. QED
    BY <1>4, <2>1, <2>2 DEF GrantInv, Read, Done, Idle
<1>5. QED
  BY <1>1, <1>2, <1>3, <1>4 DEF GrantInv, GrantsKept

(* A poll writes what it has read.                                         *)
LEMMA MarkSeenGrants ==
  ASSUME GrantInv, NEW p \in Polls, MarkSeen(p)
  PROVE  GrantInv'
<1> DEFINE m == poll[p].box
<1>1. UNCHANGED crossed /\ poll' = [q \in Polls |-> poll'[q]]
  BY DEF GrantInv, MarkSeen, Done
<1>2. GrantHeld(p)
  BY DEF GrantInv, MarkSeen
<1>3. \/ UNCHANGED box
      \/ poll[p].kind = "gmail" /\ box' = [box EXCEPT ![m].account = poll[p].account]
  BY DEF MarkSeen
<1>4. box' \in [Boxes -> BoxType]
  BY <1>2, <1>3 DEF GrantInv, GrantHeld, BoxType
<1>5. \A n \in Boxes : /\ box'[n].kind = box[n].kind
                       /\ box'[n].address = box[n].address
                       /\ Exists(n)' <=> Exists(n)
                       /\ \/ box'[n].account = box[n].account
                          \/ n = m /\ poll[p].kind = "gmail" /\ box'[n].account = poll[p].account
  BY <1>2, <1>3 DEF GrantInv, GrantHeld, Exists, BoxType
<1>6. OwnAccount'
  BY <1>1, <1>2, <1>5 DEF GrantInv, GrantHeld, OwnAccount
<1>7. \A q \in Polls : poll'[q].pc = "reading" => poll'[q] = poll[q]
  BY DEF GrantInv, MarkSeen, Done, Idle
<1>8. \A q \in Polls : poll'[q].pc = "reading" => GrantHeld(q)'
  BY <1>1, <1>5, <1>7 DEF GrantInv, GrantHeld
<1>9. QED
  BY <1>1, <1>4, <1>6, <1>8 DEF GrantInv

(* Senders do not touch mailboxes, and a restart ends the polls.           *)
LEMMA OthersGrants ==
  ASSUME GrantInv, UNCHANGED <<box, crossed>>,
         UNCHANGED poll \/ poll' = [p \in Polls |-> Idle]
  PROVE  GrantInv'
BY DEF GrantInv, GrantHeld, OwnAccount, Exists, Idle

LEMMA GrantNext == GrantInv /\ [Next]_vars => GrantInv'
<1> SUFFICES ASSUME GrantInv, [Next]_vars PROVE GrantInv'
  OBVIOUS
<1>1. CASE Admin
  <2>1. PICK m \in Boxes :
          \/ \E k \in Kinds, a \in Addresses : Create(m, k, a) \/ Update(m, k, a)
          \/ Disconnect(m) \/ Test(m) \/ Withdraw(m)
          \/ \E a \in Addresses : Consent(m, a)
    BY <1>1, Zenon DEF Admin
  <2>2. QED
    BY <2>1, CreateGrants, UpdateGrants, AdminGrants, ConsentGrants
<1>2. ASSUME NEW p \in Polls, ListDue(p) \/ Go(p) PROVE GrantInv'
  BY <1>2, ListDueGrants, ReadGrants, MarkSeenGrants DEF Go
<1>3. ASSUME \/ Subscribe \/ Notify \/ MarkByHand
             \/ \E s \in Senders : StartMail(s) \/ SendMail(s) \/ CommitSent(s)
      PROVE  GrantInv'
  <2>1. UNCHANGED <<box, poll, crossed>>
    BY <1>3 DEF Subscribe, Notify, MarkByHand, StartMail, SendMail, CommitSent
  <2>2. QED
    BY <2>1, OthersGrants
<1>4. CASE NextDay
  BY <1>4, OthersGrants DEF NextDay
<1>5. CASE Restart
  BY <1>5, OthersGrants DEF Restart
<1>6. CASE UNCHANGED vars
  BY <1>6, OthersGrants DEF vars
<1>7. QED
  BY <1>1, <1>2, <1>3, <1>4, <1>5, <1>6 DEF Next

\* However polls, consents and edits interleave, an OAuth mailbox holds the grant of the
\* account its address names, except one that was given to another account while a poll
\* was reading it (get_valid_access_token stores what was read before the models worked).
THEOREM GrantsAreOwn == Spec => []OwnAccount
<1>1. GrantInv => OwnAccount
  BY DEF GrantInv
<1>2. QED
  BY <1>1, GrantInit, GrantNext, PTL DEF Spec
=============================================================================
