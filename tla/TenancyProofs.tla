---------------------------- MODULE TenancyProofs ----------------------------
(* Theorems about Tenancy, for every value of its constants. *)
EXTENDS Tenancy, SequenceTheorems, FiniteSetTheorems, WellFoundedInduction, TLAPS

-----------------------------------------------------------------------------
(* Types.  A request that has looked for a row holds one that is there, or *)
(* none; one that has read a subscription holds one that the table can     *)
(* hold.                                                                   *)

RowType == [clerk: Persons \cup {None}, email: Persons \cup {None}, owner: BOOLEAN]

MemberType == [role: Roles \cup {None}, status: {"ACTIVE", "DISABLED"}]

\* Only a trial needs an end, and whatever has a status has a plan.
SubType ==
  {NoSubscription}
  \cup [status: {"TRIALING"}, plan: Plans, ends: Nat]
  \cup [status: {"ACTIVE", "CANCELED"}, plan: Plans, ends: Nat \cup {None}]

WishOf(kinds) == {w \in AllWishes : w.kind \in kinds}

\* What a replica may be doing while n rows are stored.
StoreCall(n) == [pc: {"store"}, person: Persons, wish: AllWishes, email: BOOLEAN,
                 row: (1 .. n) \cup {None}, was: BOOLEAN, seen: 0 .. n]
AdmitCall == [pc: {"admit"}, person: Persons, wish: AllWishes]
RowCall(n) == [pc: {"write"}, wish: WishOf({"member", "organization"}),
               row: (1 .. n) \cup {None}, seen: 0 .. n]
SelectCall == [pc: {"write"}, wish: WishOf({"select"}), read: SubType]
UpdateCall == {c \in [pc: {"write"}, wish: WishOf({"update"}), read: SubType] :
                 None \in {c.wish.plan, c.wish.status} => c.read # NoSubscription}
OfferCall == [pc: {"write"}, wish: WishOf({"offer"})]

CallType(n) ==
  {Idle} \cup StoreCall(n) \cup AdmitCall \cup RowCall(n)
  \cup SelectCall \cup UpdateCall \cup OfferCall

RestType ==
  /\ member \in [Rows \X Orgs -> MemberType]
  /\ orgs \in Orgs
  /\ sub \in [Orgs -> SubType]
  /\ offered \subseteq Plans
  /\ now \in 1 .. MaxTime
  /\ bare \subseteq Persons /\ raced \subseteq Persons /\ demoted \subseteq Persons
  /\ requests \in [Persons -> Nat]

\* What TypeOK needs to be inductive.
TypeInv ==
  /\ rows \in Seq(RowType) /\ Len(rows) <= MaxRows
  /\ call \in [Replicas -> CallType(Len(rows))]
  /\ RestType

LEMMA TypeInvSuffices == TypeInv => TypeOK
<1> SUFFICES ASSUME TypeInv PROVE TypeOK
  OBVIOUS
<1>1. \A r \in Replicas : call[r].pc \in {"idle", "store", "admit", "write"}
  BY DEF TypeInv, CallType, StoreCall, AdmitCall, RowCall, SelectCall, UpdateCall,
         OfferCall, Idle
<1>2. ASSUME NEW o \in Orgs
      PROVE  /\ sub[o] \in [status: {"NONE", "TRIALING", "ACTIVE", "CANCELED"},
                            plan: Plans \cup {None}, ends: Nat \cup {None}]
             /\ sub[o].status = "TRIALING" => sub[o].ends # None
             /\ sub[o].plan = None <=> sub[o].status = "NONE"
  <2>1. sub[o] \in SubType
    BY DEF TypeInv, RestType
  <2>2. CASE sub[o] = NoSubscription
    BY <2>2 DEF NoSubscription
  <2>3. CASE sub[o] \in [status: {"TRIALING"}, plan: Plans, ends: Nat]
    BY <2>3, ConstantsAssumption
  <2>4. CASE sub[o] \in [status: {"ACTIVE", "CANCELED"}, plan: Plans, ends: Nat \cup {None}]
    BY <2>4, ConstantsAssumption
  <2>5. QED
    BY <2>1, <2>2, <2>3, <2>4 DEF SubType
<1>3. sub \in [Orgs -> [status: {"NONE", "TRIALING", "ACTIVE", "CANCELED"},
                        plan: Plans \cup {None}, ends: Nat \cup {None}]]
  BY <1>2 DEF TypeInv, RestType
<1>4. QED
  BY <1>1, <1>2, <1>3 DEF TypeInv, RestType, TypeOK, RowType, MemberType

LEMMA TypeInit == Init => TypeInv
<1> SUFFICES ASSUME Init PROVE TypeInv
  OBVIOUS
<1>1. PICK o \in Owners :
        rows = <<[clerk |-> o, email |-> o, owner |-> FALSE],
                 [clerk |-> None, email |-> Invitee, owner |-> FALSE]>>
  BY DEF Init
<1>2. o \in Persons /\ Invitee \in Persons
  BY ConstantsAssumption
<1>3. /\ [clerk |-> o, email |-> o, owner |-> FALSE] \in RowType
      /\ [clerk |-> None, email |-> Invitee, owner |-> FALSE] \in RowType
  BY <1>2 DEF RowType
<1>4. rows \in Seq(RowType) /\ Len(rows) = 2
  BY <1>1, <1>3
<1>5. Len(rows) <= MaxRows /\ 1 \in Orgs /\ 1 \in 1 .. MaxTime
  BY <1>4, ConstantsAssumption DEF Orgs
<1>6. member \in [Rows \X Orgs -> MemberType]
  <2>1. /\ [role |-> "sales_user", status |-> "ACTIVE"] \in MemberType
        /\ NoMember \in MemberType
    BY DEF MemberType, NoMember, Roles
  <2>2. QED
    BY <2>1 DEF Init
<1>7. call \in [Replicas -> CallType(Len(rows))]
  BY DEF Init, CallType
<1>8. sub \in [Orgs -> SubType] /\ offered \subseteq Plans /\ requests \in [Persons -> Nat]
  BY DEF Init, SubType
<1>9. QED
  BY <1>4, <1>5, <1>6, <1>7, <1>8 DEF Init, TypeInv, RestType

(* What a wish of each kind names.                                         *)
LEMMA WishFields ==
  ASSUME NEW w \in AllWishes
  PROVE  /\ w.kind \in {"read", "work"} => w.org \in {None} \cup Orgs
         /\ w.kind = "member" =>
              /\ w.org \in Orgs /\ w.whose \in Persons
              /\ [role |-> w.role, status |-> w.status] \in MemberType
         /\ w.kind = "organization" => w.whose \in {None} \cup Persons
         /\ w.kind = "select" => w.org \in Orgs /\ w.plan \in Plans
         /\ w.kind = "update" =>
              /\ w.org \in Orgs /\ w.plan \in {None} \cup Plans
              /\ w.status \in {None, "ACTIVE", "CANCELED", "TRIALING"}
              /\ w.ends \in {Same, None} \cup Nat
         /\ w.kind = "offer" => w.plan \in Plans
         /\ w.kind \in {"read", "work", "member", "organization", "select", "update", "offer"}
<1>1. CASE w \in [kind: {"read", "work"}, org: {None} \cup Orgs]
  BY <1>1
<1>2. CASE w \in [kind: {"member"}, org: Orgs, whose: Persons, role: {"sales_user", "viewer"},
                  status: {"ACTIVE", "DISABLED"}]
  BY <1>2 DEF MemberType, Roles
<1>3. CASE w \in [kind: {"organization"}, whose: {None} \cup Persons]
  BY <1>3
<1>4. CASE w \in [kind: {"select"}, org: Orgs, plan: Plans]
  BY <1>4
<1>5. CASE w \in [kind: {"update"}, org: Orgs, plan: {None} \cup Plans,
                  status: {None, "ACTIVE", "CANCELED", "TRIALING"},
                  ends: {Same, None} \cup Nat]
  BY <1>5
<1>6. CASE w \in [kind: {"offer"}, plan: Plans]
  BY <1>6
<1>7. QED
  BY <1>1, <1>2, <1>3, <1>4, <1>5, <1>6 DEF AllWishes

(* What a replica is doing, by where it is.                                *)
LEMMA CallFields ==
  ASSUME TypeInv, NEW r \in Replicas
  PROVE  /\ call[r].pc = "store" => call[r] \in StoreCall(Len(rows))
         /\ call[r].pc = "admit" => call[r] \in AdmitCall
         /\ Writes(r, {"member", "organization"}) => call[r] \in RowCall(Len(rows))
         /\ Writes(r, {"select"}) => call[r] \in SelectCall
         /\ Writes(r, {"update"}) => call[r] \in UpdateCall
         /\ Writes(r, {"offer"}) => call[r] \in OfferCall
<1>1. call[r] \in CallType(Len(rows))
  BY DEF TypeInv
<1>2. CASE call[r] = Idle
  BY <1>2 DEF Idle, Writes
<1>3. CASE call[r] \in StoreCall(Len(rows))
  BY <1>3 DEF StoreCall, Writes
<1>4. CASE call[r] \in AdmitCall
  BY <1>4 DEF AdmitCall, Writes
<1>5. CASE call[r] \in RowCall(Len(rows))
  BY <1>5 DEF RowCall, Writes, WishOf
<1>6. CASE call[r] \in SelectCall
  BY <1>6 DEF SelectCall, Writes, WishOf
<1>7. CASE call[r] \in UpdateCall
  BY <1>7 DEF UpdateCall, Writes, WishOf
<1>8. CASE call[r] \in OfferCall
  BY <1>8 DEF OfferCall, Writes, WishOf
<1>9. QED
  BY <1>1, <1>2, <1>3, <1>4, <1>5, <1>6, <1>7, <1>8 DEF CallType

(* The calls stay what they are when rows are added.                       *)
LEMMA CallGrows ==
  ASSUME NEW n \in Nat, NEW k \in Nat, n <= k
  PROVE  CallType(n) \subseteq CallType(k)
<1>1. (1 .. n) \subseteq (1 .. k) /\ (0 .. n) \subseteq (0 .. k)
  OBVIOUS
<1>2. StoreCall(n) \subseteq StoreCall(k)
  BY <1>1 DEF StoreCall
<1>3. RowCall(n) \subseteq RowCall(k)
  BY <1>1 DEF RowCall
<1>4. QED
  BY <1>2, <1>3 DEF CallType

LEMMA GotoType ==
  ASSUME TypeInv, NEW r \in Replicas, NEW c, NEW n \in Nat, Len(rows) <= n,
         c \in CallType(n), Goto(r, c)
  PROVE  call' \in [Replicas -> CallType(n)]
<1>1. Len(rows) \in Nat
  BY DEF TypeInv
<1>2. CallType(Len(rows)) \subseteq CallType(n)
  BY <1>1, CallGrows
<1>3. call' = [call EXCEPT ![r] = c]
  BY DEF Goto
<1>4. QED
  BY <1>2, <1>3 DEF TypeInv

LEMMA RequestType ==
  ASSUME TypeInv, NEW r \in Replicas, NEW p \in Persons, NEW wish \in Wishes[p],
         NEW email \in Claims(p), Request(r, p, wish, email)
  PROVE  TypeInv'
<1>1. wish \in AllWishes /\ email \in BOOLEAN
  BY ConstantsAssumption DEF Claims
<1>2. UNCHANGED <<rows, member, orgs, sub, offered, now, raced, demoted>>
  BY DEF Request, database
<1>3. requests' \in [Persons -> Nat] /\ bare' \subseteq Persons
  BY DEF Request, TypeInv, RestType
<1>4. Len(rows) \in Nat /\ DOMAIN rows = 1 .. Len(rows)
  BY DEF TypeInv
<1>5. call' \in [Replicas -> CallType(Len(rows))]
  <2>1. CASE Fresh(cache[r].users[p])
    <3>1. [pc |-> "admit", person |-> p, wish |-> wish] \in CallType(Len(rows))
      BY <1>1 DEF CallType, AdmitCall
    <3>2. QED
      BY <1>4, <2>1, <3>1, GotoType DEF Request
  <2>2. CASE ~Fresh(cache[r].users[p])
    <3>1. PICK i \in IF FoundRows(p, email) = {} THEN {None} ELSE FoundRows(p, email) :
            Goto(r, [pc |-> "store", person |-> p, wish |-> wish, email |-> email, row |-> i,
                     was |-> i # None /\ rows[i].owner, seen |-> Len(rows)])
      BY <2>2 DEF Request
    <3>2. FoundRows(p, email) \subseteq DOMAIN rows
      BY DEF FoundRows, Find
    <3>3. i \in (1 .. Len(rows)) \cup {None} /\ Len(rows) \in 0 .. Len(rows)
      BY <1>4, <3>1, <3>2
    <3>4. [pc |-> "store", person |-> p, wish |-> wish, email |-> email, row |-> i,
           was |-> i # None /\ rows[i].owner, seen |-> Len(rows)] \in CallType(Len(rows))
      BY <1>1, <3>3 DEF CallType, StoreCall
    <3>5. QED
      BY <1>4, <3>1, <3>4, GotoType
  <2>3. QED
    BY <2>1, <2>2
<1>6. QED
  BY <1>2, <1>3, <1>5 DEF TypeInv, RestType

(* A row that is stored is one that was there, or the next.                *)
LEMMA StoredRows ==
  ASSUME TypeInv, NEW r \in Replicas, StoreUser(r), rows' # rows
  PROVE  /\ call[r] \in StoreCall(Len(rows))
         /\ demoted' \subseteq Persons /\ demoted \subseteq demoted'
         /\ \E row \in RowType :
              /\ row.clerk = call[r].person
              /\ row.email = IF call[r].email THEN call[r].person
                             ELSE IF call[r].row = None THEN None ELSE rows[call[r].row].email
              /\ \/ /\ call[r].row = None /\ Len(rows) < MaxRows
                    /\ rows' = Append(rows, row)
                    /\ raced' = IF Len(rows) > call[r].seen
                                THEN raced \cup {call[r].person} ELSE raced
                 \/ /\ call[r].row \in 1 .. Len(rows)
                    /\ rows' = [rows EXCEPT ![call[r].row] = row]
                    /\ call[r].was => row.owner
                    /\ rows[call[r].row].owner /\ ~row.owner => call[r].person \in demoted'
                    /\ raced' = raced
<1> DEFINE c == call[r]
           p == c.person
           email == IF c.email THEN p ELSE IF c.row = None THEN None ELSE rows[c.row].email
           row == [clerk |-> p, email |-> email, owner |-> StaysOwner(c.was, p, c.email)]
<1>1. c \in StoreCall(Len(rows))
  BY CallFields DEF StoreUser
<1>2. /\ c.person \in Persons /\ c.email \in BOOLEAN /\ c.row \in (1 .. Len(rows)) \cup {None}
      /\ c.was \in BOOLEAN
  BY <1>1 DEF StoreCall
<1>3. None \notin Nat /\ Len(rows) \in Nat /\ MaxRows \in Nat
  BY ConstantsAssumption DEF TypeInv
<1>4. email \in Persons \cup {None}
  <2>1. CASE c.row = None
    BY <1>2, <2>1
  <2>2. CASE c.row # None
    <3>1. c.row \in 1 .. Len(rows)
      BY <1>2, <2>2
    <3>2. rows[c.row] \in RowType
      BY <3>1 DEF TypeInv
    <3>3. QED
      BY <1>2, <2>2, <3>2 DEF RowType
  <2>3. QED
    BY <2>1, <2>2
<1>5. row \in RowType
  BY <1>2, <1>4 DEF RowType, StaysOwner
<1>6. /\ IF c.row = None THEN Len(rows) + 1 \in Rows ELSE c.row \in Rows
      /\ rows' = IF c.row = None THEN Append(rows, row) ELSE [rows EXCEPT ![c.row] = row]
      /\ raced' = IF c.row = None /\ Len(rows) > c.seen THEN raced \cup {p} ELSE raced
      /\ demoted' = IF c.row # None /\ rows[c.row].owner /\ ~row.owner
                    THEN demoted \cup {p} ELSE demoted
  BY DEF StoreUser
<1>7. /\ row.clerk = p /\ row.email = email
      /\ c.was => row.owner
  BY DEF StaysOwner
<1>8. demoted' \subseteq Persons /\ demoted \subseteq demoted'
  <2>1. demoted \subseteq Persons
    BY DEF TypeInv, RestType
  <2>2. demoted' = demoted \/ demoted' = demoted \cup {p}
    BY <1>6
  <2>3. QED
    BY <1>2, <2>1, <2>2
<1>9. CASE c.row = None
  <2>1. Len(rows) < MaxRows
    BY <1>3, <1>6, <1>9 DEF Rows
  <2> HIDE DEF row
  <2>2. QED
    BY <1>1, <1>5, <1>6, <1>7, <1>8, <1>9, <2>1
<1>10. CASE c.row # None
  <2>1. c.row \in 1 .. Len(rows)
    BY <1>2, <1>10
  <2> HIDE DEF row
  <2>2. rows[c.row].owner /\ ~row.owner => p \in demoted'
    BY <1>6, <1>10
  <2>3. QED
    BY <1>1, <1>5, <1>6, <1>7, <1>8, <1>10, <2>1, <2>2
<1>11. QED
  BY <1>9, <1>10

LEMMA StoreUserType ==
  ASSUME TypeInv, NEW r \in Replicas, StoreUser(r)
  PROVE  TypeInv'
<1>1. UNCHANGED <<member, orgs, sub, offered, now, bare, requests>>
  BY DEF StoreUser
<1>2. Len(rows) \in Nat /\ Len(rows) <= MaxRows /\ MaxRows \in Nat
  BY ConstantsAssumption DEF TypeInv
<1>3. call[r] \in StoreCall(Len(rows)) /\ call[r].person \in Persons
  BY CallFields DEF StoreUser, StoreCall
<1>4. /\ rows' \in Seq(RowType) /\ Len(rows') <= MaxRows /\ Len(rows) <= Len(rows')
      /\ Len(rows') \in Nat /\ raced' \subseteq Persons /\ demoted' \subseteq Persons
  <2>1. CASE rows' = rows
    <3>1. raced' \subseteq Persons /\ demoted' \subseteq Persons
      BY <1>3 DEF StoreUser, TypeInv, RestType
    <3>2. QED
      BY <1>2, <2>1, <3>1 DEF TypeInv
  <2>2. CASE rows' # rows
    <3>1. PICK row \in RowType :
            \/ /\ Len(rows) < MaxRows /\ rows' = Append(rows, row)
               /\ raced' \subseteq raced \cup {call[r].person}
            \/ /\ call[r].row \in 1 .. Len(rows)
               /\ rows' = [rows EXCEPT ![call[r].row] = row]
               /\ raced' = raced
      BY <2>2, StoredRows
    <3>2. rows \in Seq(RowType) /\ raced \subseteq Persons
      BY DEF TypeInv, RestType
    <3>3. demoted' \subseteq Persons
      BY <2>2, StoredRows
    <3>4. QED
      BY <1>2, <1>3, <3>1, <3>2, <3>3
  <2>3. QED
    BY <2>1, <2>2
<1>5. call' \in [Replicas -> CallType(Len(rows'))]
  <2>1. \/ Goto(r, Idle)
        \/ Goto(r, [pc |-> "admit", person |-> call[r].person, wish |-> call[r].wish])
    BY DEF StoreUser
  <2>2. /\ Idle \in CallType(Len(rows'))
        /\ [pc |-> "admit", person |-> call[r].person, wish |-> call[r].wish]
             \in CallType(Len(rows'))
    BY <1>3 DEF CallType, AdmitCall, StoreCall
  <2>3. QED
    BY <1>4, <2>1, <2>2, GotoType
<1>6. QED
  BY <1>1, <1>4, <1>5 DEF TypeInv, RestType

LEMMA AdmitType ==
  ASSUME TypeInv, NEW r \in Replicas, Admit(r)
  PROVE  TypeInv'
<1>1. UNCHANGED <<rows, member, orgs, sub, offered, now, bare, raced, demoted, requests>>
  BY DEF Admit, database
<1>2. Idle \in CallType(Len(rows)) /\ Goto(r, Idle) /\ Len(rows) \in Nat
  BY DEF Admit, CallType, TypeInv
<1>3. call' \in [Replicas -> CallType(Len(rows))]
  BY <1>2, GotoType
<1>4. QED
  BY <1>1, <1>3 DEF TypeInv, RestType

(* What an administrator is about to write.                                *)
LEMMA AdmitMemberType ==
  ASSUME TypeInv, NEW r \in Replicas, AdmitMember(r)
  PROVE  TypeInv'
<1> DEFINE wish == call[r].wish
<1>1. UNCHANGED <<rows, member, orgs, sub, offered, now, bare, raced, demoted, requests>>
  BY DEF AdmitMember, database, history
<1>2. Len(rows) \in Nat /\ DOMAIN rows = 1 .. Len(rows) /\ Len(rows) \in 0 .. Len(rows)
  BY DEF TypeInv
<1>3. wish \in WishOf({"member", "organization"})
  BY CallFields DEF AdmitMember, AdmitCall, WishOf
<1>4. call' \in [Replicas -> CallType(Len(rows))]
  <2>1. CASE Goto(r, Idle)
    <3>1. Idle \in CallType(Len(rows))
      BY DEF CallType
    <3>2. QED
      BY <1>2, <2>1, <3>1, GotoType
  <2>2. CASE ~Goto(r, Idle)
    <3>1. PICK i \in IF RowsOf(wish.whose) = {} THEN {None} ELSE RowsOf(wish.whose) :
            Goto(r, [pc |-> "write", wish |-> wish, row |-> i, seen |-> Len(rows)])
      BY <2>2 DEF AdmitMember
    <3>2. i \in (1 .. Len(rows)) \cup {None}
      BY <1>2, <3>1 DEF RowsOf
    <3> HIDE DEF wish
    <3>3. [pc |-> "write", wish |-> wish, row |-> i, seen |-> Len(rows)]
            \in CallType(Len(rows))
      BY <1>2, <1>3, <3>2 DEF CallType, RowCall
    <3>4. QED
      BY <1>2, <3>1, <3>3, GotoType
  <2>3. QED
    BY <2>1, <2>2
<1>5. QED
  BY <1>1, <1>4 DEF TypeInv, RestType

(* What an owner is about to write.                                        *)
LEMMA AdmitOwnerType ==
  ASSUME TypeInv, NEW r \in Replicas, AdmitOwner(r)
  PROVE  TypeInv'
<1> DEFINE wish == call[r].wish
<1>1. UNCHANGED <<rows, member, orgs, sub, offered, now, bare, raced, demoted, requests>>
  BY DEF AdmitOwner, database, history
<1>2. Len(rows) \in Nat /\ DOMAIN rows = 1 .. Len(rows) /\ Len(rows) \in 0 .. Len(rows)
  BY DEF TypeInv
<1>3. wish \in AllWishes
  BY CallFields DEF AdmitOwner, AdmitCall
<1>4. call' \in [Replicas -> CallType(Len(rows))]
  <2>1. CASE Goto(r, Idle)
    <3>1. Idle \in CallType(Len(rows))
      BY DEF CallType
    <3>2. QED
      BY <1>2, <2>1, <3>1, GotoType
  <2>2. ASSUME wish.kind = "organization",
               NEW i \in IF RowsOf(wish.whose) = {} THEN {None} ELSE RowsOf(wish.whose),
               Goto(r, [pc |-> "write", wish |-> wish, row |-> i, seen |-> Len(rows)])
        PROVE  call' \in [Replicas -> CallType(Len(rows))]
    <3>1. i \in (1 .. Len(rows)) \cup {None}
      BY <1>2, <2>2 DEF RowsOf
    <3>2. wish \in WishOf({"member", "organization"})
      BY <1>3, <2>2 DEF WishOf
    <3> HIDE DEF wish
    <3>3. [pc |-> "write", wish |-> wish, row |-> i, seen |-> Len(rows)]
            \in CallType(Len(rows))
      BY <1>2, <3>1, <3>2 DEF CallType, RowCall
    <3>4. QED
      BY <1>2, <2>2, <3>3, GotoType
  <2>3. ASSUME wish.kind \in {"select", "update"},
               Goto(r, [pc |-> "write", wish |-> wish, read |-> sub[wish.org]]),
               ~(/\ wish.kind = "update" /\ sub[wish.org] = NoSubscription
                 /\ None \in {wish.plan, wish.status})
        PROVE  call' \in [Replicas -> CallType(Len(rows))]
    <3>1. wish.org \in Orgs /\ sub[wish.org] \in SubType
      BY <1>3, <2>3, WishFields DEF TypeInv, RestType
    <3>2. wish \in WishOf({"select"}) \/ wish \in WishOf({"update"})
      BY <1>3, <2>3 DEF WishOf
    <3>3. wish \in WishOf({"update"}) => wish.kind = "update"
      BY DEF WishOf
    <3> DEFINE x == [pc |-> "write", wish |-> wish, read |-> sub[wish.org]]
    <3>4. x.wish = wish /\ x.read = sub[wish.org]
      OBVIOUS
    <3>5. x \in SelectCall \cup UpdateCall
      <4> HIDE DEF wish
      <4>1. CASE wish \in WishOf({"select"})
        BY <3>1, <4>1 DEF SelectCall
      <4>2. CASE wish \in WishOf({"update"})
        <5>1. x \in [pc: {"write"}, wish: WishOf({"update"}), read: SubType]
          BY <3>1, <4>2
        <5>2. None \in {x.wish.plan, x.wish.status} => x.read # NoSubscription
          BY <2>3, <3>3, <3>4, <4>2
        <5>3. QED
          BY <5>1, <5>2 DEF UpdateCall
      <4>3. QED
        BY <3>2, <4>1, <4>2
    <3>6. x \in CallType(Len(rows))
      BY <3>5 DEF CallType
    <3>7. QED
      BY <1>2, <2>3, <3>6, GotoType
  <2>4. ASSUME wish.kind = "offer", Goto(r, [pc |-> "write", wish |-> wish])
        PROVE  call' \in [Replicas -> CallType(Len(rows))]
    <3>1. wish \in WishOf({"offer"})
      BY <1>3, <2>4 DEF WishOf
    <3> HIDE DEF wish
    <3>2. [pc |-> "write", wish |-> wish] \in CallType(Len(rows))
      BY <3>1 DEF CallType, OfferCall
    <3>3. QED
      BY <1>2, <2>4, <3>2, GotoType
  <2>5. QED
    BY <2>1, <2>2, <2>3, <2>4 DEF AdmitOwner
<1>5. QED
  BY <1>1, <1>4 DEF TypeInv, RestType

(* A write that is over.                                                   *)
LEMMA WrittenType ==
  ASSUME TypeInv, NEW r \in Replicas, Written(r) \/ Goto(r, Idle),
         NEW n \in Nat, Len(rows) <= n
  PROVE  call' \in [Replicas -> CallType(n)]
<1>1. Idle \in CallType(n) /\ Goto(r, Idle)
  BY DEF Written, CallType
<1>2. QED
  BY <1>1, GotoType

(* An invitation adds one row that waits for its owner, or none.           *)
LEMMA InviteType ==
  ASSUME TypeInv, NEW r \in Replicas, NEW q \in Persons,
         call[r].row \in (1 .. Len(rows)) \cup {None}, Invite(r, q, call[r].row)
  PROVE  /\ rows' \in Seq(RowType) /\ Len(rows') <= MaxRows /\ Len(rows') \in Nat
         /\ Len(rows) <= Len(rows')
         /\ raced' \subseteq Persons
         /\ IF call[r].row = None THEN Len(rows) + 1 \in Rows ELSE call[r].row \in Rows
<1>1. rows \in Seq(RowType) /\ Len(rows) <= MaxRows /\ MaxRows \in Nat /\ Len(rows) \in Nat
  BY ConstantsAssumption DEF TypeInv
<1>2. CASE call[r].row # None
  BY <1>1, <1>2 DEF Invite, TypeInv, RestType, Rows
<1>3. CASE call[r].row = None
  <2> DEFINE new == [clerk |-> None, email |-> q, owner |-> FALSE]
  <2>1. new \in RowType
    BY DEF RowType
  <2>2. Len(rows) < MaxRows /\ rows' = Append(rows, new)
    BY <1>3 DEF Invite
  <2>3. raced' \subseteq Persons
    BY <1>3 DEF Invite, TypeInv, RestType
  <2> HIDE DEF new
  <2>4. rows' \in Seq(RowType) /\ Len(rows') = Len(rows) + 1
    BY <1>1, <2>1, <2>2
  <2>5. QED
    BY <1>1, <1>3, <2>2, <2>3, <2>4 DEF Rows
<1>4. QED
  BY <1>2, <1>3

LEMMA WriteMemberType ==
  ASSUME TypeInv, NEW r \in Replicas, WriteMember(r)
  PROVE  TypeInv'
<1> DEFINE wish == call[r].wish
           row == call[r].row
           i == IF row = None THEN Len(rows) + 1 ELSE row
<1>1. UNCHANGED <<orgs, sub, offered, now, bare, demoted, requests>> /\ Len(rows) \in Nat
  BY DEF WriteMember, TypeInv
<1>2. wish \in AllWishes /\ wish.kind = "member" /\ row \in (1 .. Len(rows)) \cup {None}
  BY CallFields DEF WriteMember, RowCall, WishOf, Writes
<1>3. /\ wish.org \in Orgs /\ wish.whose \in Persons
      /\ [role |-> wish.role, status |-> wish.status] \in MemberType
  BY <1>2, WishFields
<1>4. CASE Clashes(wish.whose, row)
  <2>1. Goto(r, Idle) /\ UNCHANGED <<rows, member, raced>>
    BY <1>4 DEF WriteMember
  <2>2. call' \in [Replicas -> CallType(Len(rows))]
    BY <1>1, <2>1, WrittenType
  <2>3. QED
    BY <1>1, <2>1, <2>2 DEF TypeInv, RestType
<1>5. CASE ~Clashes(wish.whose, row)
  <2>1. /\ Invite(r, wish.whose, row) /\ Written(r)
        /\ member' = [member EXCEPT ![<<i, wish.org>>] =
                        [role |-> wish.role, status |-> wish.status]]
    BY <1>5 DEF WriteMember
  <2>2. /\ rows' \in Seq(RowType) /\ Len(rows') <= MaxRows /\ Len(rows') \in Nat
        /\ Len(rows) <= Len(rows') /\ raced' \subseteq Persons /\ i \in Rows
    BY <1>2, <1>3, <2>1, InviteType
  <2>3. member' \in [Rows \X Orgs -> MemberType]
    BY <1>3, <2>1 DEF TypeInv, RestType
  <2>4. call' \in [Replicas -> CallType(Len(rows'))]
    BY <2>1, <2>2, WrittenType
  <2>5. QED
    BY <1>1, <2>2, <2>3, <2>4 DEF TypeInv, RestType
<1>6. QED
  BY <1>4, <1>5

LEMMA WriteOrganizationType ==
  ASSUME TypeInv, NEW r \in Replicas, WriteOrganization(r)
  PROVE  TypeInv'
<1> DEFINE q == call[r].wish.whose
           row == call[r].row
           i == IF row = None THEN Len(rows) + 1 ELSE row
<1>1. UNCHANGED <<sub, offered, now, bare, demoted, requests>> /\ Len(rows) \in Nat
  BY DEF WriteOrganization, TypeInv
<1>2. q \in {None} \cup Persons /\ row \in (1 .. Len(rows)) \cup {None}
  BY CallFields, WishFields DEF WriteOrganization, RowCall, WishOf, Writes
<1>3. CASE q # None /\ Clashes(q, row)
  <2>1. Goto(r, Idle) /\ UNCHANGED <<rows, member, orgs, raced>>
    BY <1>3 DEF WriteOrganization
  <2>2. call' \in [Replicas -> CallType(Len(rows))]
    BY <1>1, <2>1, WrittenType
  <2>3. QED
    BY <1>1, <2>1, <2>2 DEF TypeInv, RestType
<1>4. CASE ~(q # None /\ Clashes(q, row))
  <2>1. orgs < MaxOrgs /\ orgs' = orgs + 1 /\ Written(r)
    BY <1>4 DEF WriteOrganization
  <2>2. orgs' \in Orgs
    BY <2>1, ConstantsAssumption DEF TypeInv, RestType, Orgs
  <2>3. CASE q = None
    <3>1. UNCHANGED <<rows, member, raced>>
      BY <1>4, <2>3 DEF WriteOrganization
    <3>2. call' \in [Replicas -> CallType(Len(rows))]
      BY <1>1, <2>1, WrittenType
    <3>3. QED
      BY <1>1, <2>2, <3>1, <3>2 DEF TypeInv, RestType
  <2>4. CASE q # None
    <3>1. /\ Invite(r, q, row)
          /\ member' = [member EXCEPT ![<<i, orgs + 1>>] =
                          [role |-> "org_admin", status |-> "ACTIVE"]]
      BY <1>4, <2>4 DEF WriteOrganization
    <3>2. /\ rows' \in Seq(RowType) /\ Len(rows') <= MaxRows /\ Len(rows') \in Nat
          /\ Len(rows) <= Len(rows') /\ raced' \subseteq Persons /\ i \in Rows
      BY <1>2, <2>4, <3>1, InviteType
    <3>3. [role |-> "org_admin", status |-> "ACTIVE"] \in MemberType
      BY DEF MemberType, Roles
    <3>4. member' \in [Rows \X Orgs -> MemberType]
      BY <2>1, <2>2, <3>1, <3>3 DEF TypeInv, RestType
    <3>5. call' \in [Replicas -> CallType(Len(rows'))]
      BY <2>1, <3>2, WrittenType
    <3>6. QED
      BY <1>1, <2>2, <3>2, <3>4, <3>5 DEF TypeInv, RestType
  <2>5. QED
    BY <2>3, <2>4
<1>5. QED
  BY <1>3, <1>4

(* What a selection makes of a subscription.                               *)
LEMMA SelectedType ==
  ASSUME TypeInv, NEW plan \in Plans
  PROVE  SelectedPlan(plan) \in SubType
<1>1. TrialDays[plan] \in Nat /\ now \in Nat
  BY ConstantsAssumption DEF TypeInv, RestType
<1>2. now + TrialDays[plan] \in Nat
  BY <1>1
<1>3. CASE TrialDays[plan] > 0
  BY <1>2, <1>3 DEF SelectedPlan, SubType
<1>4. CASE ~(TrialDays[plan] > 0)
  BY <1>4 DEF SelectedPlan, SubType
<1>5. QED
  BY <1>3, <1>4

(* What an update makes of the subscription it has read.                   *)
LEMMA UpdatedType ==
  ASSUME TypeInv, NEW current \in SubType, NEW wish \in WishOf({"update"}),
         None \in {wish.plan, wish.status} => current # NoSubscription
  PROVE  UpdatedSubscription(current, wish) \in SubType
<1> DEFINE next == NextStatus(current, wish.status)
           chosen == IF wish.plan # None THEN wish.plan ELSE current.plan
           named == IF wish.ends = Same THEN current.ends ELSE wish.ends
           ends == IF next = "TRIALING" /\ named = None THEN TrialEnd(chosen) ELSE named
<1>1. /\ current.status \in {"NONE", "TRIALING", "ACTIVE", "CANCELED"}
      /\ current # NoSubscription => current.plan \in Plans /\ current.status # "NONE"
      /\ current.ends \in Nat \cup {None}
  BY DEF SubType, NoSubscription
<1>2. /\ wish.plan \in {None} \cup Plans
      /\ wish.status \in {None, "ACTIVE", "CANCELED", "TRIALING"}
      /\ wish.ends \in {Same, None} \cup Nat
  BY WishFields DEF WishOf
<1>3. next \in {"TRIALING", "ACTIVE", "CANCELED"}
  BY <1>1, <1>2 DEF NextStatus
<1>4. chosen \in Plans
  BY <1>1, <1>2
<1>5. named \in Nat \cup {None}
  BY <1>1, <1>2
<1>6. TrialEnd(chosen) \in Nat
  <2>1. TrialDays[chosen] \in Nat /\ now \in Nat /\ DefaultTrial \in Nat
    BY <1>4, ConstantsAssumption DEF TypeInv, RestType
  <2> HIDE DEF chosen
  <2>2. QED
    BY <2>1 DEF TrialEnd
<1>7. ends \in Nat \cup {None} /\ (next = "TRIALING" => ends \in Nat)
  <2> HIDE DEF next, chosen, named
  <2>1. QED
    BY <1>5, <1>6
<1>8. UpdatedSubscription(current, wish) =
        [status |-> next, plan |-> chosen, ends |-> ends]
  BY DEF UpdatedSubscription
<1> HIDE DEF next, chosen, ends
<1>9. CASE next = "TRIALING"
  BY <1>4, <1>7, <1>8, <1>9 DEF SubType
<1>10. CASE next \in {"ACTIVE", "CANCELED"}
  BY <1>4, <1>7, <1>8, <1>10 DEF SubType
<1>11. QED
  BY <1>3, <1>9, <1>10

LEMMA WriteSubscriptionType ==
  ASSUME TypeInv, NEW r \in Replicas, WriteSelection(r) \/ WriteUpdate(r)
  PROVE  TypeInv'
<1> DEFINE wish == call[r].wish
<1>1. UNCHANGED <<rows, member, orgs, offered, now, bare, raced, demoted, requests>>
  BY DEF WriteSelection, WriteUpdate, history
<1>2. call' \in [Replicas -> CallType(Len(rows))]
  <2>1. (Written(r) \/ Goto(r, Idle)) /\ Len(rows) \in Nat
    BY DEF WriteSelection, WriteUpdate, TypeInv
  <2>2. QED
    BY <2>1, WrittenType
<1>3. sub' \in [Orgs -> SubType]
  <2>1. CASE WriteSelection(r)
    <3>1. wish.org \in Orgs /\ wish.plan \in Plans
      BY <2>1, CallFields, WishFields DEF WriteSelection, SelectCall, WishOf
    <3>2. SelectedPlan(wish.plan) \in SubType
      BY <3>1, SelectedType
    <3>3. sub' = [sub EXCEPT ![wish.org] = SelectedPlan(wish.plan)]
      BY <2>1 DEF WriteSelection
    <3>4. QED
      BY <3>2, <3>3 DEF TypeInv, RestType
  <2>2. CASE WriteUpdate(r)
    <3>1. call[r] \in UpdateCall
      BY <2>2, CallFields DEF WriteUpdate
    <3>2. /\ wish \in WishOf({"update"}) /\ call[r].read \in SubType
          /\ None \in {wish.plan, wish.status} => call[r].read # NoSubscription
      BY <3>1 DEF UpdateCall
    <3>4. UpdatedSubscription(call[r].read, wish) \in SubType
      BY <3>2, UpdatedType
    <3>5. \/ sub' = sub
          \/ sub' = [sub EXCEPT ![wish.org] = UpdatedSubscription(call[r].read, wish)]
      BY <2>2 DEF WriteUpdate
    <3>6. QED
      BY <3>4, <3>5 DEF TypeInv, RestType
  <2>3. QED
    BY <2>1, <2>2
<1>4. QED
  BY <1>1, <1>2, <1>3 DEF TypeInv, RestType

LEMMA WritePlanType ==
  ASSUME TypeInv, NEW r \in Replicas, WritePlan(r)
  PROVE  TypeInv'
<1>1. UNCHANGED <<rows, member, orgs, sub, now, bare, raced, demoted, requests>>
  BY DEF WritePlan, history
<1>2. call[r].wish.plan \in Plans
  BY CallFields, WishFields DEF WritePlan, OfferCall, WishOf
<1>3. offered' \subseteq Plans
  BY <1>2 DEF WritePlan, TypeInv, RestType
<1>4. Written(r) /\ Len(rows) \in Nat
  BY DEF WritePlan, TypeInv
<1>5. call' \in [Replicas -> CallType(Len(rows))]
  BY <1>4, WrittenType
<1>6. QED
  BY <1>1, <1>3, <1>5 DEF TypeInv, RestType

LEMMA TypeNext == TypeInv /\ [Next]_vars => TypeInv'
<1> SUFFICES ASSUME TypeInv, [Next]_vars PROVE TypeInv'
  OBVIOUS
<1>1. ASSUME NEW r \in Replicas, NEW p \in Persons, NEW wish \in Wishes[p],
             NEW email \in Claims(p), Request(r, p, wish, email)
      PROVE  TypeInv'
  BY <1>1, RequestType
<1>2. ASSUME NEW r \in Replicas,
             \/ StoreUser(r) \/ Admit(r) \/ AdmitMember(r) \/ AdmitOwner(r)
             \/ WriteMember(r) \/ WriteOrganization(r) \/ WriteSelection(r)
             \/ WriteUpdate(r) \/ WritePlan(r)
      PROVE  TypeInv'
  BY <1>2, StoreUserType, AdmitType, AdmitMemberType, AdmitOwnerType, WriteMemberType,
     WriteOrganizationType, WriteSubscriptionType, WritePlanType
<1>3. CASE Tick
  <2>1. now' \in 1 .. MaxTime
    BY <1>3, ConstantsAssumption DEF Tick, TypeInv, RestType
  <2>2. UNCHANGED <<rows, member, orgs, sub, offered, call, bare, raced, demoted, requests>>
    BY <1>3 DEF Tick, database, history
  <2>3. QED
    BY <2>1, <2>2 DEF TypeInv, RestType
<1>4. CASE UNCHANGED vars
  BY <1>4 DEF TypeInv, RestType, vars
<1>5. QED
  BY <1>1, <1>2, <1>3, <1>4 DEF Next

\* Users, memberships, plans and subscriptions keep their types, whichever replicas write
\* them in whatever order: a subscription that has a status has a plan, and a trial has an
\* end (update_organization_subscription, select_organization_plan).
THEOREM TypeCorrect == Spec => []TypeOK
BY TypeInit, TypeNext, TypeInvSuffices, PTL DEF Spec

-----------------------------------------------------------------------------
(* Rows stay, and owners stay owners.                                      *)

(* What a step can do to the rows.                                         *)
LEMMA RowsStep ==
  ASSUME TypeInv, [Next]_vars
  PROVE  \/ UNCHANGED <<rows, raced>>
         \/ \E r \in Replicas : StoreUser(r) /\ rows' # rows
         \/ \E r \in Replicas :
              /\ WriteMember(r) \/ WriteOrganization(r)
              /\ call[r] \in RowCall(Len(rows)) /\ call[r].row = None
              /\ call[r].wish.whose \in Persons
              /\ Invite(r, call[r].wish.whose, None)
<1>1. CASE \E r \in Replicas : StoreUser(r)
  <2>1. PICK r \in Replicas : StoreUser(r)
    BY <1>1
  <2>2. CASE rows' # rows
    BY <2>1, <2>2
  <2>3. CASE rows' = rows
    <3> DEFINE c == call[r]
               i == IF c.row = None THEN Len(rows) + 1 ELSE c.row
               row == [clerk |-> c.person,
                       email |-> IF c.email THEN c.person
                                 ELSE IF c.row = None THEN None ELSE rows[c.row].email,
                       owner |-> StaysOwner(c.was, c.person, c.email)]
    <3>1. \/ UNCHANGED <<rows, raced>>
          \/ /\ rows' = IF c.row = None THEN Append(rows, row) ELSE [rows EXCEPT ![i] = row]
             /\ raced' = IF c.row = None /\ Len(rows) > c.seen
                         THEN raced \cup {c.person} ELSE raced
      BY <2>1 DEF StoreUser
    <3> HIDE DEF row
    <3>2. ASSUME c.row = None, rows' = Append(rows, row) PROVE FALSE
      <4>1. Len(rows') = Len(rows) + 1 /\ Len(rows) \in Nat
        BY <3>2 DEF TypeInv
      <4>2. QED
        BY <2>3, <4>1
    <3>3. UNCHANGED <<rows, raced>>
      BY <2>3, <3>1, <3>2
    <3>4. QED
      BY <3>3
  <2>4. QED
    BY <2>2, <2>3
<1>2. ASSUME NEW r \in Replicas, WriteMember(r) \/ WriteOrganization(r),
             ~UNCHANGED <<rows, raced>>
      PROVE  /\ call[r] \in RowCall(Len(rows)) /\ call[r].row = None
             /\ call[r].wish.whose \in Persons
             /\ Invite(r, call[r].wish.whose, None)
  <2>1. call[r] \in RowCall(Len(rows))
    BY <1>2, CallFields DEF WriteMember, WriteOrganization, Writes
  <2>2. CASE WriteMember(r)
    <3>1. Invite(r, call[r].wish.whose, call[r].row)
      BY <1>2, <2>2 DEF WriteMember
    <3>2. call[r].row = None
      BY <1>2, <3>1 DEF Invite
    <3>3. call[r].wish \in AllWishes /\ call[r].wish.kind = "member"
      BY <2>1, <2>2 DEF RowCall, WishOf, WriteMember, Writes
    <3>4. QED
      BY <2>1, <3>1, <3>2, <3>3, WishFields
  <2>3. CASE WriteOrganization(r)
    <3>1. Invite(r, call[r].wish.whose, call[r].row) /\ call[r].wish.whose # None
      BY <1>2, <2>3 DEF WriteOrganization
    <3>2. call[r].row = None
      BY <1>2, <3>1 DEF Invite
    <3>3. call[r].wish \in AllWishes /\ call[r].wish.kind = "organization"
      BY <2>1, <2>3 DEF RowCall, WishOf, WriteOrganization, Writes
    <3>4. call[r].wish.whose \in Persons
      BY <3>1, <3>3, WishFields
    <3>5. QED
      BY <2>1, <3>1, <3>2, <3>4
  <2>4. QED
    BY <1>2, <2>2, <2>3
<1>3. CASE \E r \in Replicas, p \in Persons : \E wish \in Wishes[p], email \in Claims(p) :
             Request(r, p, wish, email)
  BY <1>3 DEF Request, database
<1>4. CASE \E r \in Replicas :
             \/ Admit(r) \/ AdmitMember(r) \/ AdmitOwner(r)
             \/ WriteSelection(r) \/ WriteUpdate(r) \/ WritePlan(r)
  BY <1>4 DEF Admit, AdmitMember, AdmitOwner, WriteSelection, WriteUpdate, WritePlan,
              database, history
<1>5. CASE Tick \/ UNCHANGED vars
  BY <1>5 DEF Tick, database, history, vars
<1>6. QED
  BY <1>1, <1>2, <1>3, <1>4, <1>5 DEF Next

\* An owner whom a step makes less of was not one when the sign-in looked up the row.
LEMMA OwnersStay ==
  ASSUME TypeInv, [Next]_vars, NEW i \in DOMAIN rows, rows[i].owner, ~rows'[i].owner
  PROVE  \E r \in Replicas :
           /\ StoreUser(r) /\ call[r].pc = "store" /\ call[r].row = i /\ ~call[r].was
           /\ call[r].person \in demoted'
<1>1. rows \in Seq(RowType) /\ Len(rows) \in Nat /\ i \in 1 .. Len(rows)
  BY DEF TypeInv
<1>2. ASSUME NEW row, rows' = Append(rows, row) PROVE FALSE
  <2>1. rows'[i] = rows[i]
    BY <1>1, <1>2
  <2>2. QED
    BY <2>1
<1>3. CASE rows' = rows
  BY <1>3
<1>4. ASSUME NEW r \in Replicas, StoreUser(r), rows' # rows
      PROVE  /\ call[r].pc = "store" /\ call[r].row = i /\ ~call[r].was
             /\ call[r].person \in demoted'
  <2>1. PICK row \in RowType :
          \/ rows' = Append(rows, row)
          \/ /\ call[r].row \in 1 .. Len(rows)
             /\ rows' = [rows EXCEPT ![call[r].row] = row]
             /\ call[r].was => row.owner
             /\ rows[call[r].row].owner /\ ~row.owner => call[r].person \in demoted'
    BY <1>4, StoredRows
  <2>2. rows' # Append(rows, row)
    BY <1>2
  <2>3. i = call[r].row
    BY <1>1, <2>1, <2>2
  <2>4. rows'[i] = row
    BY <1>1, <2>1, <2>2, <2>3
  <2>5. call[r].pc = "store"
    BY <1>4 DEF StoreUser
  <2>6. QED
    BY <2>1, <2>2, <2>3, <2>4, <2>5
<1>5. ASSUME NEW r \in Replicas, NEW q \in Persons, Invite(r, q, None)
      PROVE  FALSE
  BY <1>2, <1>5 DEF Invite
<1>6. QED
  BY <1>3, <1>4, <1>5, RowsStep

\* Who owns the platform is made less of only by a sign-in that had looked up the row
\* before that was so: what the row said then, or the claims say, makes an owner, and the
\* row is written from it whatever it says by now (ensure_app_user).
THEOREM OwnersAreKept == Spec => OwnerIsKept
<1>1. TypeInv /\ [Next]_vars =>
        [\A i \in DOMAIN rows : rows[i].owner /\ ~rows'[i].owner =>
           \E r \in Replicas : call[r].pc = "store" /\ call[r].row = i /\ ~call[r].was]_vars
  BY OwnersStay
<1>2. QED
  BY <1>1, TypeInit, TypeNext, PTL DEF Spec, OwnerIsKept

-----------------------------------------------------------------------------
(* Subscriptions.                                                          *)

(* Only the two writers of subscriptions change one.                       *)
LEMMA SubscriptionsStep ==
  ASSUME [Next]_vars
  PROVE  sub' = sub \/ \E r \in Replicas : WriteSelection(r) \/ WriteUpdate(r)
<1>1. CASE \E r \in Replicas, p \in Persons : \E wish \in Wishes[p], email \in Claims(p) :
             Request(r, p, wish, email)
  BY <1>1 DEF Request, database
<1>2. CASE \E r \in Replicas : StoreUser(r)
  BY <1>2 DEF StoreUser
<1>3. CASE \E r \in Replicas : Admit(r) \/ AdmitMember(r) \/ AdmitOwner(r)
  BY <1>3 DEF Admit, AdmitMember, AdmitOwner, database
<1>4. CASE \E r \in Replicas : WriteMember(r) \/ WriteOrganization(r) \/ WritePlan(r)
  BY <1>4 DEF WriteMember, WriteOrganization, WritePlan, database
<1>5. CASE Tick \/ UNCHANGED vars
  BY <1>5 DEF Tick, database, vars
<1>6. QED
  BY <1>1, <1>2, <1>3, <1>4, <1>5 DEF Next

(* An update that names no status and no end leaves what it has read as    *)
(* active or as over as it was.                                            *)
LEMMA UpdateKeepsActive ==
  ASSUME NEW s \in SubType, s # NoSubscription, NEW wish, wish.status = None, wish.ends = Same,
         NEW t, IsActive(UpdatedSubscription(s, wish), t)
  PROVE  IsActive(s, t)
<1> DEFINE u == UpdatedSubscription(s, wish)
<1>1. u.status = s.status
  BY DEF UpdatedSubscription, NextStatus
<1>2. s.status = "TRIALING" => s.ends # None
  BY ConstantsAssumption DEF SubType, NoSubscription
<1>3. u.ends = s.ends
  BY <1>2 DEF UpdatedSubscription, NextStatus
<1> HIDE DEF u
<1>4. IsActive(u, t)
  BY DEF u
<1>5. QED
  BY <1>1, <1>3, <1>4 DEF IsActive

Revival(o) ==
  \E r \in Replicas : /\ call[r].pc = "write"
                      /\ \/ call[r].wish.kind = "select"
                         \/ /\ call[r].wish.kind = "update"
                            /\ \/ call[r].wish.status # None
                               \/ call[r].wish.ends # Same
                               \/ call[r].read # sub[o]

LEMMA RevivalStep ==
  ASSUME TypeInv, [Next]_vars, NEW o \in Orgs,
         ~IsActive(sub[o], now), IsActive(sub'[o], now)
  PROVE  Revival(o)
<1>1. PICK r \in Replicas : WriteSelection(r) \/ WriteUpdate(r)
  BY SubscriptionsStep
<1>2. CASE WriteSelection(r)
  BY <1>2 DEF WriteSelection, Writes, Revival
<1>3. CASE WriteUpdate(r)
  <2> DEFINE wish == call[r].wish
  <2>1. call[r].pc = "write" /\ wish.kind = "update"
    BY <1>3 DEF WriteUpdate, Writes
  <2>2. SUFFICES ASSUME wish.status = None, wish.ends = Same, call[r].read = sub[o]
                 PROVE  FALSE
    BY <2>1 DEF Revival
  <2>3. sub[o] \in SubType
    BY DEF TypeInv, RestType
  <2>4. sub[o] # NoSubscription
    BY <1>3, <2>2, CallFields DEF WriteUpdate, UpdateCall
  <2>5. sub'[o] = UpdatedSubscription(sub[o], wish)
    <3>1. \/ sub' = sub
          \/ sub' = [sub EXCEPT ![wish.org] = UpdatedSubscription(call[r].read, wish)]
      BY <1>3 DEF WriteUpdate
    <3>2. sub'[o] # sub[o]
      OBVIOUS
    <3>3. QED
      BY <2>2, <3>1, <3>2 DEF TypeInv, RestType
  <2>6. QED
    BY <2>2, <2>3, <2>4, <2>5, UpdateKeepsActive
<1>4. QED
  BY <1>1, <1>2, <1>3

\* A subscription that is over comes back only when a plan is selected or an update names
\* a status or an end of the trial, or had read it before it was over: one that names
\* neither keeps the status and the end it has read (update_organization_subscription).
THEOREM RevivalIsExplicit == Spec => OnlyExplicitRevival
<1>1. TypeInv /\ [Next]_vars =>
        [\A o \in Orgs : ~IsActive(sub[o], now) /\ IsActive(sub'[o], now) => Revival(o)]_vars
  BY RevivalStep
<1>2. QED
  BY <1>1, TypeInit, TypeNext, PTL DEF Spec, OnlyExplicitRevival, Revival

-----------------------------------------------------------------------------
(* One row each.  As long as nothing excuses a person, all that is known   *)
(* of the person is in one row, which carries the address; and a request   *)
(* that found no row for the person is right as long as no row is added.   *)

IsOf(i, p) == rows[i].clerk = p \/ rows[i].email = p

NoRow(p) == \A i \in 1 .. Len(rows) : ~IsOf(i, p)

\* The request c is about to add a row for p.
NewFor(c, p) ==
  /\ \/ c.pc = "store" /\ c.person = p
     \/ c.pc = "write" /\ c.wish.kind \in {"member", "organization"} /\ c.wish.whose = p
  /\ c.row = None

OneRow(p) ==
  /\ \A i, j \in 1 .. Len(rows) : IsOf(i, p) /\ IsOf(j, p) => i = j
  /\ \A i \in 1 .. Len(rows) : rows[i].clerk = p => rows[i].email = p

\* No row is of two persons.
Matched ==
  \A i \in 1 .. Len(rows) :
    rows[i].clerk # None => rows[i].email \in {rows[i].clerk, None}

CallFits(c) ==
  /\ c.pc = "store" /\ c.row # None => IsOf(c.row, c.person)
  /\ \A p \in Persons \ (bare \cup raced) :
       /\ NewFor(c, p) /\ c.seen = Len(rows) => NoRow(p)
       /\ c.pc = "store" /\ c.person = p => c.email

\* What OneRowEach needs to be inductive.
RowInv ==
  /\ TypeInv
  /\ Matched
  /\ \A r \in Replicas : CallFits(call[r])
  /\ \A p \in Persons \ (bare \cup raced) : OneRow(p)

(* No step takes an excuse back.                                           *)
LEMMA ExcusesStay ==
  ASSUME [Next]_vars
  PROVE  bare \subseteq bare' /\ raced \subseteq raced'
<1>1. CASE \E r \in Replicas, p \in Persons : \E wish \in Wishes[p], email \in Claims(p) :
             Request(r, p, wish, email)
  BY <1>1 DEF Request
<1>2. CASE \E r \in Replicas : StoreUser(r)
  BY <1>2 DEF StoreUser
<1>3. CASE \E r \in Replicas : WriteMember(r) \/ WriteOrganization(r)
  BY <1>3 DEF WriteMember, WriteOrganization, Invite
<1>4. CASE \E r \in Replicas :
             \/ Admit(r) \/ AdmitMember(r) \/ AdmitOwner(r)
             \/ WriteSelection(r) \/ WriteUpdate(r) \/ WritePlan(r)
  BY <1>4 DEF Admit, AdmitMember, AdmitOwner, WriteSelection, WriteUpdate, WritePlan,
              history
<1>5. CASE Tick \/ UNCHANGED vars
  BY <1>5 DEF Tick, history, vars
<1>6. QED
  BY <1>1, <1>2, <1>3, <1>4, <1>5 DEF Next

(* A request that others leave alone still fits the rows: where some were  *)
(* added, it has seen fewer.                                               *)
LEMMA CallsStillFit ==
  ASSUME RowInv, bare \subseteq bare', raced \subseteq raced',
         Len(rows') \in Nat, Len(rows) <= Len(rows'),
         \A i \in 1 .. Len(rows), p \in Persons : IsOf(i, p)' <=> IsOf(i, p),
         NEW q \in Replicas, call'[q] = call[q]
  PROVE  CallFits(call[q])'
<1> DEFINE c == call[q]
<1>1. CallFits(c) /\ Len(rows) \in Nat
  BY DEF RowInv, TypeInv
<1>2. ASSUME c.pc = "store", c.row # None PROVE IsOf(c.row, c.person)'
  <2>1. c.row \in 1 .. Len(rows) /\ c.person \in Persons
    BY <1>2, CallFields DEF RowInv, StoreCall
  <2>2. IsOf(c.row, c.person)
    BY <1>1, <1>2 DEF CallFits
  <2>3. IsOf(c.row, c.person)' <=> (rows'[c.row].clerk = c.person \/ rows'[c.row].email = c.person)
    BY DEF IsOf
  <2> HIDE DEF c
  <2>4. \A i \in 1 .. Len(rows), p \in Persons :
          (rows'[i].clerk = p \/ rows'[i].email = p) <=> IsOf(i, p)
    BY DEF IsOf
  <2>5. rows'[c.row].clerk = c.person \/ rows'[c.row].email = c.person
    BY <2>1, <2>2, <2>4
  <2>6. QED
    BY <2>5 DEF IsOf, c
<1>3. ASSUME NEW p \in Persons \ (bare' \cup raced')
      PROVE  /\ NewFor(c, p) /\ c.seen = Len(rows') => NoRow(p)'
             /\ c.pc = "store" /\ c.person = p => c.email
  <2>1. p \in Persons \ (bare \cup raced)
    OBVIOUS
  <2>2. c.pc = "store" /\ c.person = p => c.email
    BY <1>1, <2>1 DEF CallFits
  <2>3. ASSUME NewFor(c, p), c.seen = Len(rows') PROVE NoRow(p)'
    <3>1. c \in StoreCall(Len(rows)) \cup RowCall(Len(rows))
      BY <2>3, CallFields DEF NewFor, RowInv, Writes
    <3>2. c.seen \in 0 .. Len(rows)
      BY <3>1 DEF StoreCall, RowCall
    <3>3. Len(rows') = Len(rows)
      BY <1>1, <2>3, <3>2
    <3>4. NoRow(p)
      BY <1>1, <2>1, <2>3, <3>3 DEF CallFits
    <3>5. QED
      BY <3>3, <3>4 DEF NoRow
  <2>4. QED
    BY <2>2, <2>3
<1>4. QED
  BY <1>2, <1>3 DEF CallFits, NewFor

(* A request that is over, or that is only to be admitted, fits.           *)
LEMMA QuietFits ==
  ASSUME NEW c, c.pc \in {"idle", "admit"}
  PROVE  CallFits(c)
BY DEF CallFits, NewFor

(* A step of r that leaves the rows alone.                                 *)
LEMMA SameRows ==
  ASSUME RowInv, TypeInv', [Next]_vars, rows' = rows, NEW r \in Replicas,
         \A q \in Replicas \ {r} : call'[q] = call[q],
         CallFits(call[r])'
  PROVE  RowInv'
<1>1. bare \subseteq bare' /\ raced \subseteq raced'
  BY ExcusesStay
<1>2. ASSUME NEW q \in Replicas PROVE CallFits(call[q])'
  <2>1. CASE q = r
    BY <2>1
  <2>2. CASE q # r
    <3>1. \A i \in 1 .. Len(rows), p \in Persons : IsOf(i, p)' <=> IsOf(i, p)
      BY DEF IsOf
    <3>2. Len(rows') \in Nat /\ Len(rows) <= Len(rows')
      BY DEF RowInv, TypeInv
    <3>3. QED
      BY <1>1, <2>2, <3>1, <3>2, CallsStillFit
  <2>3. QED
    BY <2>1, <2>2
<1>3. Matched'
  BY DEF RowInv, Matched
<1>4. \A p \in Persons \ (bare' \cup raced') : OneRow(p)'
  BY <1>1 DEF RowInv, OneRow, IsOf
<1>5. QED
  BY <1>2, <1>3, <1>4 DEF RowInv

(* The look-up of a sign-in finds the row of the person, if it can.        *)
LEMMA RequestRows ==
  ASSUME RowInv, TypeInv', [Next]_vars,
         NEW r \in Replicas, NEW p \in Persons, NEW wish \in Wishes[p],
         NEW email \in Claims(p), Request(r, p, wish, email)
  PROVE  RowInv'
<1>1. rows' = rows /\ raced' = raced /\ Len(rows) \in Nat /\ DOMAIN rows = 1 .. Len(rows)
  BY DEF Request, database, RowInv, TypeInv
<1>2. CASE Fresh(cache[r].users[p])
  <2>1. call' = [call EXCEPT ![r] = [pc |-> "admit", person |-> p, wish |-> wish]]
    BY <1>2 DEF Request, Goto
  <2>2. call'[r].pc = "admit" /\ \A q \in Replicas \ {r} : call'[q] = call[q]
    BY <2>1 DEF RowInv, TypeInv
  <2>3. CallFits(call[r])'
    BY <2>2 DEF CallFits, NewFor
  <2>4. QED
    BY <1>1, <2>2, <2>3, SameRows
<1>3. CASE ~Fresh(cache[r].users[p])
  <2>1. PICK i \in IF FoundRows(p, email) = {} THEN {None} ELSE FoundRows(p, email) :
          Goto(r, [pc |-> "store", person |-> p, wish |-> wish, email |-> email, row |-> i,
                   was |-> i # None /\ rows[i].owner, seen |-> Len(rows)])
    BY <1>3 DEF Request
  <2>2. bare' = IF email THEN bare ELSE bare \cup {p}
    BY <1>3 DEF Request
  <2> DEFINE c == [pc |-> "store", person |-> p, wish |-> wish, email |-> email, row |-> i,
                   was |-> i # None /\ rows[i].owner, seen |-> Len(rows)]
  <2>3. call'[r] = c /\ \A q \in Replicas \ {r} : call'[q] = call[q]
    BY <2>1 DEF Goto, RowInv, TypeInv
  <2>4. i # None => IsOf(i, p)
    BY <2>1 DEF FoundRows, Find, IsOf
  <2>5. ASSUME email, i = None PROVE NoRow(p)
    <3>1. \A k \in FoundRows(p, email) : k \in Nat
      BY <1>1 DEF FoundRows, Find
    <3>2. None \notin Nat
      BY ConstantsAssumption
    <3>3. FoundRows(p, email) = {}
      BY <2>1, <2>5, <3>1, <3>2
    <3>4. QED
      BY <1>1, <2>5, <3>3 DEF FoundRows, Find, NoRow, IsOf
  <2>6. c.pc = "store" /\ c.person = p /\ c.email = email /\ c.row = i
    OBVIOUS
  <2> HIDE DEF c
  <2>7. email \in BOOLEAN
    BY DEF Claims
  <2>8. (c.pc = "store" /\ c.row # None => IsOf(c.row, c.person))'
    BY <1>1, <2>4, <2>6 DEF c, IsOf
  <2>9. ASSUME NEW k \in Persons \ (bare' \cup raced')
        PROVE  /\ NewFor(c, k) => NoRow(k)'
               /\ c.pc = "store" /\ c.person = k => c.email
    <3>1. k = p => email
      BY <2>2
    <3>2. NewFor(c, k) => k = p /\ i = None
      BY <2>6 DEF NewFor
    <3>3. NoRow(k)' <=> NoRow(k)
      BY <1>1 DEF NoRow, IsOf
    <3>4. QED
      BY <2>5, <2>6, <3>1, <3>2, <3>3
  <2>10. CallFits(call[r])'
    BY <2>3, <2>8, <2>9 DEF CallFits, NewFor, c
  <2>11. QED
    BY <1>1, <2>3, <2>10, SameRows
<1>4. QED
  BY <1>2, <1>3

(* An administrator or owner looks for the row of an address.              *)
LEMMA LookupRows ==
  ASSUME RowInv, TypeInv', [Next]_vars, NEW r \in Replicas, rows' = rows,
         UNCHANGED <<bare, raced>>,
         NEW w, NEW i \in IF RowsOf(w.whose) = {} THEN {None} ELSE RowsOf(w.whose),
         Goto(r, [pc |-> "write", wish |-> w, row |-> i, seen |-> Len(rows)])
  PROVE  RowInv'
<1> DEFINE c == [pc |-> "write", wish |-> w, row |-> i, seen |-> Len(rows)]
<1>1. call'[r] = c /\ \A q \in Replicas \ {r} : call'[q] = call[q]
  BY DEF Goto, RowInv, TypeInv
<1>2. c.pc = "write" /\ c.wish = w /\ c.row = i
  OBVIOUS
<1> HIDE DEF c
<1>3. ASSUME NEW k \in Persons \ (bare \cup raced), NewFor(c, k) PROVE NoRow(k)
  <2>1. i = None /\ w.whose = k
    BY <1>2, <1>3 DEF NewFor
  <2>2. DOMAIN rows = 1 .. Len(rows) /\ None \notin Nat
    BY ConstantsAssumption DEF RowInv, TypeInv
  <2>3. RowsOf(k) = {}
    BY <2>1, <2>2 DEF RowsOf
  <2>4. OneRow(k)
    BY DEF RowInv
  <2>5. QED
    BY <2>2, <2>3, <2>4 DEF RowsOf, NoRow, OneRow, IsOf
<1>4. ASSUME NEW k \in Persons \ (bare' \cup raced'), NewFor(c, k) PROVE NoRow(k)'
  BY <1>3, <1>4 DEF NoRow, IsOf
<1>5. CallFits(c)'
  <2>1. (c.pc = "store" /\ c.row # None => IsOf(c.row, c.person))'
    BY <1>2 DEF c
  <2>2. QED
    BY <1>2, <1>4, <2>1 DEF CallFits, NewFor, c
<1>6. CallFits(call[r])'
  BY <1>1, <1>5 DEF CallFits, NewFor, c
<1>7. QED
  BY <1>1, <1>6, SameRows

(* Rows are added or overwritten: whoever's a row was, it still is.        *)
LEMMA GrownRows ==
  ASSUME RowInv, TypeInv', [Next]_vars, NEW r \in Replicas,
         \A q \in Replicas \ {r} : call'[q] = call[q],
         call'[r].pc \in {"idle", "admit"},
         Len(rows) <= Len(rows'),
         \A i \in 1 .. Len(rows), p \in Persons : IsOf(i, p)' <=> IsOf(i, p),
         Matched',
         \A p \in Persons \ (bare' \cup raced') : OneRow(p)'
  PROVE  RowInv'
<1>1. bare \subseteq bare' /\ raced \subseteq raced' /\ Len(rows') \in Nat
  BY ExcusesStay DEF TypeInv
<1>2. CallFits(call[r])'
  BY DEF CallFits, NewFor
<1>3. ASSUME NEW q \in Replicas PROVE CallFits(call[q])'
  <2>1. CASE q = r
    BY <1>2, <2>1
  <2>2. CASE q # r
    <3>1. call'[q] = call[q]
      BY <2>2
    <3>2. QED
      BY <1>1, <3>1, CallsStillFit
  <2>3. QED
    BY <2>1, <2>2
<1>4. QED
  BY <1>3 DEF RowInv

(* A row that is added belongs to one person, who had none.                *)
LEMMA AddedRow ==
  ASSUME RowInv, NEW q \in Persons, NEW row \in RowType, rows' = Append(rows, row),
         row.clerk \in {q, None}, row.email \in {q, None},
         bare \subseteq bare', raced \subseteq raced',
         q \notin bare' \cup raced' => NoRow(q) /\ row.email = q
  PROVE  /\ Len(rows) <= Len(rows')
         /\ \A i \in 1 .. Len(rows), p \in Persons : IsOf(i, p)' <=> IsOf(i, p)
         /\ Matched'
         /\ \A p \in Persons \ (bare' \cup raced') : OneRow(p)'
<1>1. /\ Len(rows) \in Nat /\ Len(rows') = Len(rows) + 1
      /\ \A i \in 1 .. Len(rows) : rows'[i] = rows[i]
      /\ rows'[Len(rows) + 1] = row
  BY DEF RowInv, TypeInv
<1>2. \A i \in 1 .. Len(rows), p \in Persons : IsOf(i, p)' <=> IsOf(i, p)
  BY <1>1 DEF IsOf
<1>3. Matched'
  <2>1. ASSUME NEW i \in 1 .. Len(rows'), rows'[i].clerk # None
        PROVE  rows'[i].email \in {rows'[i].clerk, None}
    <3>1. CASE i \in 1 .. Len(rows)
      BY <1>1, <2>1, <3>1 DEF RowInv, Matched
    <3>2. CASE i = Len(rows) + 1
      BY <1>1, <2>1, <3>2
    <3>3. QED
      BY <1>1, <3>1, <3>2
  <2>2. QED
    BY <2>1 DEF Matched
<1>4. ASSUME NEW p \in Persons \ (bare' \cup raced') PROVE OneRow(p)'
  <2>1. OneRow(p)
    BY DEF RowInv
  <2>2. p # None
    BY ConstantsAssumption
  <2>3. CASE p # q
    <3>1. \A i \in 1 .. Len(rows') : IsOf(i, p)' => i \in 1 .. Len(rows) /\ IsOf(i, p)
      BY <1>1, <2>2, <2>3 DEF IsOf
    <3>2. \A i, j \in 1 .. Len(rows') : IsOf(i, p)' /\ IsOf(j, p)' => i = j
      BY <2>1, <3>1 DEF OneRow
    <3>3. \A i \in 1 .. Len(rows') : rows'[i].clerk = p => rows'[i].email = p
      BY <1>1, <2>1, <2>2, <2>3 DEF OneRow
    <3>4. QED
      BY <3>2, <3>3 DEF OneRow, IsOf
  <2>4. CASE p = q
    <3>1. NoRow(p) /\ row.email = p
      BY <2>4
    <3>2. \A i \in 1 .. Len(rows') : IsOf(i, p)' => i = Len(rows) + 1
      BY <1>1, <1>2, <3>1 DEF NoRow
    <3>3. \A i, j \in 1 .. Len(rows') : IsOf(i, p)' /\ IsOf(j, p)' => i = j
      BY <3>2
    <3>4. \A i \in 1 .. Len(rows') : rows'[i].clerk = p => rows'[i].email = p
      BY <1>1, <3>1, <3>2 DEF IsOf
    <3>5. QED
      BY <3>3, <3>4 DEF OneRow, IsOf
  <2>5. QED
    BY <2>3, <2>4
<1>5. QED
  BY <1>1, <1>2, <1>3, <1>4

(* A row that is overwritten was the one of the person, and of no other.   *)
LEMMA OverwrittenRow ==
  ASSUME RowInv, NEW q \in Persons, NEW row \in RowType, NEW k \in 1 .. Len(rows),
         rows' = [rows EXCEPT ![k] = row], IsOf(k, q),
         row.clerk = q, row.email \in {q, rows[k].email},
         q \notin bare' \cup raced' => row.email = q,
         bare \subseteq bare', raced \subseteq raced'
  PROVE  /\ Len(rows) <= Len(rows')
         /\ \A i \in 1 .. Len(rows), p \in Persons : IsOf(i, p)' <=> IsOf(i, p)
         /\ Matched'
         /\ \A p \in Persons \ (bare' \cup raced') : OneRow(p)'
<1>1. /\ Len(rows) \in Nat /\ Len(rows') = Len(rows)
      /\ \A i \in 1 .. Len(rows) : i # k => rows'[i] = rows[i]
      /\ rows'[k] = row
  BY DEF RowInv, TypeInv
<1>2. rows[k] \in RowType
  BY DEF RowInv, TypeInv
<1>3. rows[k].email \in {q, None} /\ rows[k].clerk \in {q, None}
  <2>1. q # None
    BY ConstantsAssumption
  <2>2. rows[k].clerk # None => rows[k].email \in {rows[k].clerk, None}
    BY DEF RowInv, Matched
  <2>3. QED
    BY <2>1, <2>2 DEF IsOf
<1>4. ASSUME NEW i \in 1 .. Len(rows), NEW p \in Persons PROVE IsOf(i, p)' <=> IsOf(i, p)
  <2>1. CASE i # k
    BY <1>1, <2>1 DEF IsOf
  <2>2. CASE i = k
    <3>1. p # None
      BY ConstantsAssumption
    <3>2. IsOf(k, p) <=> p = q
      BY <1>3, <3>1 DEF IsOf
    <3>3. IsOf(k, p)' <=> p = q
      BY <1>1, <1>3, <3>1 DEF IsOf
    <3>4. QED
      BY <2>2, <3>2, <3>3
  <2>3. QED
    BY <2>1, <2>2
<1>5. Matched'
  <2>1. ASSUME NEW i \in 1 .. Len(rows'), rows'[i].clerk # None
        PROVE  rows'[i].email \in {rows'[i].clerk, None}
    <3>1. CASE i # k
      BY <1>1, <2>1, <3>1 DEF RowInv, Matched
    <3>2. CASE i = k
      BY <1>1, <1>3, <3>2
    <3>3. QED
      BY <3>1, <3>2
  <2>2. QED
    BY <2>1 DEF Matched
<1>6. ASSUME NEW p \in Persons \ (bare' \cup raced') PROVE OneRow(p)'
  <2>1. OneRow(p)
    BY DEF RowInv
  <2>2. \A i, j \in 1 .. Len(rows') : IsOf(i, p)' /\ IsOf(j, p)' => i = j
    BY <1>1, <1>4, <2>1 DEF OneRow
  <2>3. \A i \in 1 .. Len(rows') : rows'[i].clerk = p => rows'[i].email = p
    BY <1>1, <2>1 DEF OneRow
  <2>4. QED
    BY <2>2, <2>3 DEF OneRow, IsOf
<1>7. QED
  BY <1>1, <1>4, <1>5, <1>6

LEMMA StoreUserRows ==
  ASSUME RowInv, TypeInv', [Next]_vars, NEW r \in Replicas, StoreUser(r), rows' # rows
  PROVE  RowInv'
<1> DEFINE c == call[r]
           q == c.person
<1>1. /\ bare \subseteq bare' /\ raced \subseteq raced' /\ TypeInv
      /\ c \in StoreCall(Len(rows)) /\ c.pc = "store"
  BY ExcusesStay, StoredRows DEF RowInv, StoreUser
<1>2. q \in Persons /\ c.email \in BOOLEAN /\ c.seen \in 0 .. Len(rows) /\ Len(rows) \in Nat
  BY <1>1 DEF StoreCall, TypeInv
<1>3. CallFits(c)
  BY DEF RowInv
<1>4. q \notin bare \cup raced => c.email
  BY <1>1, <1>2, <1>3 DEF CallFits
<1>5. \A p \in Replicas \ {r} : call'[p] = call[p]
  BY DEF StoreUser, Goto, RowInv, TypeInv
<1>6. call'[r].pc \in {"idle", "admit"}
  BY DEF StoreUser, Goto, RowInv, TypeInv, Idle
<1>7. PICK row \in RowType :
        /\ row.clerk = q
        /\ row.email = IF c.email THEN q
                       ELSE IF c.row = None THEN None ELSE rows[c.row].email
        /\ \/ /\ c.row = None /\ Len(rows) < MaxRows
              /\ rows' = Append(rows, row)
              /\ raced' = IF Len(rows) > c.seen THEN raced \cup {q} ELSE raced
           \/ /\ c.row \in 1 .. Len(rows)
              /\ rows' = [rows EXCEPT ![c.row] = row]
              /\ raced' = raced
  BY <1>1, StoredRows
<1>8. CASE /\ c.row = None
           /\ rows' = Append(rows, row)
           /\ raced' = IF Len(rows) > c.seen THEN raced \cup {q} ELSE raced
  <2>1. ASSUME q \notin bare' \cup raced' PROVE NoRow(q) /\ row.email = q
    <3>1. q \notin bare \cup raced
      BY <1>1, <2>1
    <3>2. c.seen = Len(rows)
      BY <1>2, <1>8, <2>1
    <3>3. NoRow(q)
      BY <1>1, <1>2, <1>3, <1>8, <3>1, <3>2 DEF CallFits, NewFor
    <3>4. row.email = q
      BY <1>4, <1>7, <3>1
    <3>5. QED
      BY <3>3, <3>4
  <2>2. row.clerk \in {q, None} /\ row.email \in {q, None}
    BY <1>7, <1>8
  <2>3. /\ Len(rows) <= Len(rows')
        /\ \A i \in 1 .. Len(rows), p \in Persons : IsOf(i, p)' <=> IsOf(i, p)
        /\ Matched'
        /\ \A p \in Persons \ (bare' \cup raced') : OneRow(p)'
    <3> HIDE DEF q
    <3>1. QED
      BY <1>1, <1>2, <1>8, <2>1, <2>2, AddedRow
  <2>4. QED
    BY <1>5, <1>6, <2>3, GrownRows
<1>9. CASE /\ c.row \in 1 .. Len(rows)
           /\ rows' = [rows EXCEPT ![c.row] = row]
           /\ raced' = raced
  <2>1. c.row # None
    BY <1>9, ConstantsAssumption
  <2>2. IsOf(c.row, q)
    BY <1>1, <1>3, <2>1 DEF CallFits
  <2>3. row.email \in {q, rows[c.row].email} /\ (q \notin bare' \cup raced' => row.email = q)
    BY <1>1, <1>4, <1>7, <2>1
  <2> DEFINE k == c.row
  <2>4. k \in 1 .. Len(rows) /\ rows' = [rows EXCEPT ![k] = row] /\ IsOf(k, q)
        /\ row.email \in {q, rows[k].email}
    BY <1>9, <2>2, <2>3
  <2>5. /\ Len(rows) <= Len(rows')
        /\ \A i \in 1 .. Len(rows), p \in Persons : IsOf(i, p)' <=> IsOf(i, p)
        /\ Matched'
        /\ \A p \in Persons \ (bare' \cup raced') : OneRow(p)'
    <3> HIDE DEF q, k
    <3>1. QED
      BY <1>1, <1>2, <1>7, <2>3, <2>4, OverwrittenRow
  <2>6. QED
    BY <1>5, <1>6, <2>5, GrownRows
<1>10. QED
  BY <1>7, <1>8, <1>9

(* An invitation adds a row for an address that has none.                  *)
LEMMA InviteRows ==
  ASSUME RowInv, TypeInv', [Next]_vars, NEW r \in Replicas,
         WriteMember(r) \/ WriteOrganization(r),
         call[r] \in RowCall(Len(rows)), call[r].row = None,
         NEW q \in Persons, call[r].wish.whose = q,
         Invite(r, q, None)
  PROVE  RowInv'
<1> DEFINE c == call[r]
           row == [clerk |-> None, email |-> q, owner |-> FALSE]
<1>1. bare \subseteq bare' /\ raced \subseteq raced' /\ Len(rows) \in Nat
  BY ExcusesStay DEF RowInv, TypeInv
<1>2. rows' = Append(rows, row) /\ raced' = IF Len(rows) > c.seen THEN raced \cup {q} ELSE raced
  BY DEF Invite
<1>3. c.seen \in 0 .. Len(rows) /\ NewFor(c, q) /\ CallFits(c)
  BY DEF RowCall, WishOf, NewFor, RowInv
<1>4. ASSUME q \notin bare' \cup raced' PROVE NoRow(q)
  <2>1. c.seen = Len(rows)
    BY <1>1, <1>2, <1>3, <1>4
  <2>2. QED
    BY <1>1, <1>3, <1>4, <2>1 DEF CallFits
<1>5. call' = [call EXCEPT ![r] = Idle]
  BY DEF WriteMember, WriteOrganization, Written, Goto
<1>6. (\A p \in Replicas \ {r} : call'[p] = call[p]) /\ call'[r].pc = "idle"
  BY <1>5 DEF RowInv, TypeInv, Idle
<1>7. row \in RowType /\ row.clerk = None /\ row.email = q
  BY DEF RowType
<1> HIDE DEF row
<1>8. /\ Len(rows) <= Len(rows')
      /\ \A i \in 1 .. Len(rows), p \in Persons : IsOf(i, p)' <=> IsOf(i, p)
      /\ Matched'
      /\ \A p \in Persons \ (bare' \cup raced') : OneRow(p)'
  BY <1>1, <1>2, <1>4, <1>7, AddedRow
<1>9. QED
  BY <1>6, <1>8, GrownRows

LEMMA RowNext == RowInv /\ [Next]_vars => RowInv'
<1> SUFFICES ASSUME RowInv, [Next]_vars PROVE RowInv'
  OBVIOUS
<1>1. TypeInv /\ TypeInv'
  BY TypeNext DEF RowInv
<1>2. CASE UNCHANGED <<rows, raced>>
  <2>1. ASSUME NEW r \in Replicas, NEW p \in Persons, NEW wish \in Wishes[p],
               NEW email \in Claims(p), Request(r, p, wish, email)
        PROVE  RowInv'
    BY <1>1, <2>1, RequestRows
  <2>2. ASSUME NEW r \in Replicas, call' = [call EXCEPT ![r] = Idle] PROVE RowInv'
    <3>1. (\A q \in Replicas \ {r} : call'[q] = call[q]) /\ call'[r].pc = "idle"
      BY <1>1, <2>2 DEF TypeInv, Idle
    <3>2. CallFits(call[r])'
      BY <3>1 DEF CallFits, NewFor
    <3>3. QED
      BY <1>1, <1>2, <3>1, <3>2, SameRows
  <2>3. ASSUME NEW r \in Replicas, StoreUser(r) PROVE RowInv'
    <3>1. (\A q \in Replicas \ {r} : call'[q] = call[q]) /\ call'[r].pc \in {"idle", "admit"}
      BY <1>1, <2>3 DEF StoreUser, Goto, TypeInv, Idle
    <3>2. CallFits(call[r])'
      BY <3>1 DEF CallFits, NewFor
    <3>3. QED
      BY <1>1, <1>2, <3>1, <3>2, SameRows
  <2>4. ASSUME NEW r \in Replicas,
               \/ Admit(r) \/ WriteMember(r) \/ WriteOrganization(r) \/ WriteSelection(r)
               \/ WriteUpdate(r) \/ WritePlan(r)
        PROVE  RowInv'
    <3>1. Goto(r, Idle)
      BY <2>4 DEF Admit, WriteMember, WriteOrganization, WriteSelection, WriteUpdate,
                  WritePlan, Written
    <3>2. QED
      BY <2>2, <3>1 DEF Goto
  <2>5. ASSUME NEW r \in Replicas, AdmitMember(r) PROVE RowInv'
    <3>1. CASE Goto(r, Idle)
      BY <2>2, <3>1 DEF Goto
    <3>2. CASE ~Goto(r, Idle)
      <4>1. PICK i \in IF RowsOf(call[r].wish.whose) = {} THEN {None}
                       ELSE RowsOf(call[r].wish.whose) :
              Goto(r, [pc |-> "write", wish |-> call[r].wish, row |-> i, seen |-> Len(rows)])
        BY <2>5, <3>2 DEF AdmitMember
      <4>2. UNCHANGED <<bare, raced>>
        BY <2>5 DEF AdmitMember, history
      <4> DEFINE w == call[r].wish
      <4>3. i \in (IF RowsOf(w.whose) = {} THEN {None} ELSE RowsOf(w.whose))
            /\ Goto(r, [pc |-> "write", wish |-> w, row |-> i, seen |-> Len(rows)])
        BY <4>1
      <4> HIDE DEF w
      <4>4. QED
        BY <1>1, <1>2, <4>2, <4>3, LookupRows
    <3>3. QED
      BY <3>1, <3>2
  <2>6. ASSUME NEW r \in Replicas, AdmitOwner(r) PROVE RowInv'
    <3> DEFINE w == call[r].wish
    <3>1. CASE Goto(r, Idle)
      BY <2>2, <3>1 DEF Goto
    <3>2. ASSUME NEW x, Goto(r, x), x.pc = "write",
                 x.wish.kind \in {"select", "update", "offer"}
          PROVE  RowInv'
      <4>1. (\A q \in Replicas \ {r} : call'[q] = call[q]) /\ call'[r] = x
        BY <1>1, <3>2 DEF Goto, TypeInv
      <4>2. CallFits(call[r])'
        BY <3>2, <4>1 DEF CallFits, NewFor
      <4>3. QED
        BY <1>1, <1>2, <4>1, <4>2, SameRows
    <3>3. ASSUME NEW i \in IF RowsOf(w.whose) = {} THEN {None} ELSE RowsOf(w.whose),
                 Goto(r, [pc |-> "write", wish |-> w, row |-> i, seen |-> Len(rows)])
          PROVE  RowInv'
      <4>1. UNCHANGED <<bare, raced>>
        BY <2>6 DEF AdmitOwner, history
      <4> HIDE DEF w
      <4>2. QED
        BY <1>1, <1>2, <3>3, <4>1, LookupRows
    <3>4. CASE w.kind \in {"select", "update"}
               /\ Goto(r, [pc |-> "write", wish |-> w, read |-> sub[w.org]])
      <4> DEFINE x == [pc |-> "write", wish |-> w, read |-> sub[w.org]]
      <4>1. x.pc = "write" /\ x.wish = w
        OBVIOUS
      <4>2. Goto(r, x)
        BY <3>4
      <4> HIDE DEF x
      <4>3. QED
        BY <3>2, <3>4, <4>1, <4>2
    <3>5. CASE w.kind = "offer" /\ Goto(r, [pc |-> "write", wish |-> w])
      <4> DEFINE x == [pc |-> "write", wish |-> w]
      <4>1. x.pc = "write" /\ x.wish = w
        OBVIOUS
      <4>2. Goto(r, x)
        BY <3>5
      <4> HIDE DEF x
      <4>3. QED
        BY <3>2, <3>5, <4>1, <4>2
    <3>6. QED
      BY <2>6, <3>1, <3>3, <3>4, <3>5 DEF AdmitOwner
  <2>7. CASE Tick \/ UNCHANGED vars
    <3>1. UNCHANGED <<rows, call, bare, raced>>
      BY <2>7 DEF Tick, database, history, vars
    <3>2. QED
      BY <1>1, <3>1 DEF RowInv, Matched, CallFits, NewFor, NoRow, OneRow, IsOf
  <2>8. QED
    BY <2>1, <2>3, <2>4, <2>5, <2>6, <2>7 DEF Next
<1>3. ASSUME NEW r \in Replicas, StoreUser(r), rows' # rows PROVE RowInv'
  BY <1>1, <1>3, StoreUserRows
<1>4. ASSUME NEW r \in Replicas, WriteMember(r) \/ WriteOrganization(r),
             call[r] \in RowCall(Len(rows)), call[r].row = None,
             call[r].wish.whose \in Persons, Invite(r, call[r].wish.whose, None)
      PROVE  RowInv'
  BY <1>1, <1>4, InviteRows
<1>5. QED
  BY <1>1, <1>2, <1>3, <1>4, RowsStep

LEMMA RowInit == Init => RowInv
<1> SUFFICES ASSUME Init PROVE RowInv
  OBVIOUS
<1>1. PICK o \in Owners :
        rows = <<[clerk |-> o, email |-> o, owner |-> FALSE],
                 [clerk |-> None, email |-> Invitee, owner |-> FALSE]>>
  BY DEF Init
<1>2. o \in Persons /\ o # Invitee /\ None \notin Persons
  BY ConstantsAssumption
<1>3. /\ Len(rows) = 2
      /\ rows[1].clerk = o /\ rows[1].email = o
      /\ rows[2].clerk = None /\ rows[2].email = Invitee
  BY <1>1
<1>4. \A i \in 1 .. Len(rows) : i = 1 \/ i = 2
  BY <1>3
<1>5. Matched
  BY <1>3, <1>4 DEF Matched
<1>6. ASSUME NEW p \in Persons PROVE OneRow(p)
  BY <1>2, <1>3, <1>4 DEF OneRow, IsOf
<1>7. ASSUME NEW r \in Replicas PROVE CallFits(call[r])
  BY DEF Init, Idle, CallFits, NewFor
<1>8. QED
  BY <1>5, <1>6, <1>7, TypeInit DEF RowInv

(* A set with at most one element.                                         *)
LEMMA AtMostOne ==
  ASSUME NEW S, \A i, j \in S : i = j
  PROVE  Cardinality(S) <= 1
<1>1. CASE S = {}
  BY <1>1, FS_EmptySet
<1>2. CASE S # {}
  <2>1. PICK i \in S : TRUE
    BY <1>2
  <2>2. S = {i}
    BY <2>1
  <2>3. Cardinality({i}) = 1
    BY FS_Singleton
  <2>4. QED
    BY <2>2, <2>3
<1>3. QED
  BY <1>1, <1>2

\* A person has one row, the row of an invitation included, whichever replicas sign the
\* person in, invite and write at the same time, unless the person was looked up without
\* the address or two replicas stored a row after both had found none
\* (upsert_user_from_claims, upsert_org_user).
THEOREM RowsAreShared == Spec => []OneRowEach
<1>1. RowInv => OneRowEach
  <2> SUFFICES ASSUME RowInv, NEW p \in Persons \ (bare \cup raced)
               PROVE  Cardinality({i \in DOMAIN rows : rows[i].clerk = p \/ rows[i].email = p}) <= 1
    BY DEF OneRowEach
  <2> DEFINE S == {i \in DOMAIN rows : rows[i].clerk = p \/ rows[i].email = p}
  <2>1. OneRow(p) /\ DOMAIN rows = 1 .. Len(rows)
    BY DEF RowInv, TypeInv
  <2>2. \A i, j \in S : i = j
    BY <2>1 DEF OneRow, IsOf
  <2> HIDE DEF S
  <2>3. Cardinality(S) <= 1
    BY <2>2, AtMostOne
  <2>4. QED
    BY <2>3 DEF S
<1>2. QED
  BY <1>1, RowInit, RowNext, PTL DEF Spec

-----------------------------------------------------------------------------
(* Caches.  What a replica has cached of a right is either true, or the    *)
(* right was lost after it was read, and not through this replica: one     *)
(* that takes a right away clears its caches in the same step.  Who has    *)
(* been made less of as an owner may still be cached as one when the list  *)
(* of organizations is cached, which adds a lifetime.                      *)

UserEntry == {Stale} \cup [row: Rows, owner: BOOLEAN, expires: Nat]

MemberEntry == {Stale} \cup [role: Roles, expires: Nat]

ListEntry == {Stale} \cup [org: Orgs \cup {None}, expires: Nat]

ResolvedEntry == {Stale} \cup [org: Orgs, expires: Nat]

Resolvable == Persons \X ({None} \cup Orgs) \X {"read", "work"}

CacheType ==
  [users: [Persons -> UserEntry], members: [Rows \X Orgs -> MemberEntry],
   lists: [Persons -> ListEntry], resolved: [Resolvable -> ResolvedEntry]]

\* The person has the right, or lost it at that time or later, not through r.
Due(r, p, o, kind, since) ==
  \/ Entitled(rows, member, p, o, kind)
  \/ lost[<<p, o, kind>>].at >= since /\ lost[<<p, o, kind>>].by # r

\* The entry u is about the row of p, and what it says of the owner is so, or was.
GoodUser(r, u, p) ==
  /\ u.row \in 1 .. Len(rows) /\ rows[u.row].clerk = p
  /\ u.expires <= Expiry
  /\ u.owner =>
       /\ p \notin demoted => rows[u.row].owner
       /\ \A o \in Orgs, kind \in {"read", "work"} :
            kind = "read" \/ o = Platform => Due(r, p, o, kind, u.expires - TTL)

UsersOK(r, c) == \A p \in Persons : Fresh(c.users[p]) => GoodUser(r, c.users[p], p)

\* How much longer the caches may know an owner.
Slack(p) == IF p \in demoted THEN TTL ELSE 0

\* What a fresh entry says of row i in o was so when it was read.
GoodMember(r, e, i, o) ==
  /\ e.expires <= Expiry
  /\ i \in 1 .. Len(rows) /\ rows[i].clerk \in Persons
  /\ \A kind \in {"read", "work"} : e.role \in Allowed[kind] =>
       Due(r, rows[i].clerk, o, kind, e.expires - TTL)

MembersOK(r, c) ==
  \A i \in Rows, o \in Orgs : Fresh(c.members[<<i, o>>]) => GoodMember(r, c.members[<<i, o>>], i, o)

GoodList(r, e, p) ==
  /\ e.expires <= Expiry
  /\ e.org = None \/ Due(r, p, e.org, "read", e.expires - TTL - Slack(p))

ListsOK(r, c) ==
  \A p \in Persons : Fresh(c.lists[p]) => GoodList(r, c.lists[p], p)

\* An organization is resolved from entries that may be about to expire.
GoodResolved(r, e, p) ==
  /\ e.expires <= Expiry
  /\ Due(r, p, e.org, "read", e.expires - 2 * TTL + 1 - Slack(p))

ResolvedOK(r, c) ==
  \A p \in Persons, q \in {None} \cup Orgs :
    Fresh(c.resolved[<<p, q, "read">>]) => GoodResolved(r, c.resolved[<<p, q, "read">>], p)

CacheOK(r, c) == UsersOK(r, c) /\ MembersOK(r, c) /\ ListsOK(r, c) /\ ResolvedOK(r, c)

LostType == lost \in [Rights -> [at: Int, by: Replicas \cup {None}]]

\* A person whose request is to be admitted has just been looked up.
SignedIn(r) == call[r].pc = "admit" => Fresh(cache[r].users[call[r].person])

\* What StaleAccessIsBounded needs to be inductive.
AccessInv ==
  /\ RowInv
  /\ LostType
  /\ cache \in [Replicas -> CacheType]
  /\ \A r \in Replicas : CacheOK(r, cache[r])
  /\ \A r \in Replicas : SignedIn(r)
  /\ StaleAccessIsBounded

LEMMA TimeFacts ==
  ASSUME TypeInv
  PROVE  /\ now \in Nat /\ now > 0 /\ TTL \in Nat /\ TTL > 0 /\ Expiry \in Nat
         /\ ~Fresh(Stale)
BY ConstantsAssumption DEF TypeInv, RestType, Expiry, Fresh, Stale

(* A set of natural numbers up to n that is not empty has a greatest one:  *)
(* the distances from n have a least one, since < is well founded.         *)
LEMMA HasGreatest ==
  ASSUME NEW n \in Nat, NEW S \in SUBSET (1 .. n), S # {}
  PROVE  \E o \in S : \A k \in S : k <= o
<1> DEFINE R == OpToRel(<, Nat)
           T == {n - k : k \in S}
<1>1. ASSUME NEW a \in Nat, NEW b \in Nat, a < b PROVE <<a, b>> \in R
  BY <1>1 DEF OpToRel
<1>2. IsWellFoundedOn(R, Nat)
  BY NatLessThanWellFounded
<1>3. T \subseteq Nat /\ T # {}
  <2>1. \A k \in S : n - k \in Nat
    OBVIOUS
  <2>2. QED
    BY <2>1
<1> HIDE DEF R
<1>4. \E x \in T : \A y \in T : ~(<<y, x>> \in R)
  <2> HIDE DEF T
  <2>1. QED
    BY <1>2, <1>3, WFMin
<1>5. PICK x \in T : \A y \in T : ~(<<y, x>> \in R)
  BY <1>4
<1>6. PICK o \in S : x = n - o
  BY <1>5
<1>7. ASSUME NEW k \in S PROVE k <= o
  <2>1. n - k \in T /\ n - k \in Nat /\ n - o \in Nat
    BY <1>3
  <2>2. ~(<<n - k, n - o>> \in R)
    BY <1>5, <1>6, <2>1
  <2>3. ~(n - k < n - o)
    BY <1>1, <2>1, <2>2
  <2>4. k \in Int /\ o \in Int
    OBVIOUS
  <2>5. QED
    BY <2>3, <2>4
<1>8. QED
  BY <1>7

LEMMA NewestIsOne ==
  ASSUME NEW n \in Nat, NEW S \in SUBSET (1 .. n)
  PROVE  IF S = {} THEN Newest(S) = None ELSE Newest(S) \in S
<1>1. CASE S = {}
  BY <1>1 DEF Newest
<1>2. CASE S # {}
  <2>1. \E o \in S : \A k \in S : k <= o
    BY <1>2, HasGreatest
  <2>2. QED
    BY <1>2, <2>1 DEF Newest
<1>3. QED
  BY <1>1, <1>2

(* What the database says of a person is what the person is entitled to.   *)
LEMMA EntitledByRole ==
  ASSUME NEW i \in DOMAIN rows, NEW p, rows[i].clerk = p, NEW o, NEW kind,
         RoleIn(i, o) \in Allowed[kind], kind \in {"read", "work", "admin"}
  PROVE  Entitled(rows, member, p, o, kind)
<1>1. RoleIn(i, o) # None
  BY ConstantsAssumption DEF Allowed, Roles
<1>2. Active(member[<<i, o>>]) /\ member[<<i, o>>].role = RoleIn(i, o)
  BY <1>1 DEF RoleIn
<1>3. QED
  BY <1>2 DEF Entitled

LEMMA RoleType ==
  ASSUME TypeInv, NEW i \in Rows, NEW o \in Orgs
  PROVE  RoleIn(i, o) \in Roles \cup {None}
BY DEF TypeInv, RestType, MemberType, RoleIn

(* What is due since some time is due since any time before.               *)
LEMMA DueSince ==
  ASSUME LostType, NEW r, NEW p \in Persons, NEW o \in Orgs, NEW kind \in {"read", "work"},
         NEW s \in Int, NEW t \in Int, t <= s, Due(r, p, o, kind, s)
  PROVE  Due(r, p, o, kind, t)
<1>1. CASE Entitled(rows, member, p, o, kind)
  BY <1>1 DEF Due
<1>2. CASE lost[<<p, o, kind>>].at >= s /\ lost[<<p, o, kind>>].by # r
  <2>1. lost[<<p, o, kind>>].at \in Int
    BY DEF LostType, Rights
  <2>2. QED
    BY <1>2, <2>1 DEF Due
<1>3. QED
  BY <1>1, <1>2 DEF Due

LEMMA SlackType == ASSUME TypeInv, NEW p PROVE Slack(p) \in Nat
BY TimeFacts DEF Slack

(* A cached owner is one, or has been made less of.                        *)
LEMMA OwnerDue ==
  ASSUME TypeInv, LostType, NEW r, NEW c \in CacheType, UsersOK(r, c),
         NEW p \in Persons, Fresh(c.users[p]), c.users[p].owner,
         NEW o \in Orgs, NEW kind \in {"read", "work"}, kind = "read" \/ o = Platform
  PROVE  /\ Due(r, p, o, kind, now - TTL + 1)
         /\ Due(r, p, o, kind, now - Slack(p))
<1> DEFINE u == c.users[p]
<1>1. GoodUser(r, u, p) /\ now \in Nat /\ TTL \in Nat /\ ~Fresh(Stale)
  BY TimeFacts DEF UsersOK
<1>2. u \in UserEntry
  BY DEF CacheType
<1>3. u.expires \in Nat /\ u.expires > now /\ u.owner
  BY <1>1, <1>2 DEF UserEntry, Fresh
<1>4. Due(r, p, o, kind, u.expires - TTL)
  BY <1>1, <1>3 DEF GoodUser
<1>5. p \notin demoted => Entitled(rows, member, p, o, kind)
  <2>1. p \notin demoted => rows[u.row].owner
    BY <1>1, <1>3 DEF GoodUser
  <2>2. u.row \in DOMAIN rows /\ rows[u.row].clerk = p
    BY <1>1 DEF GoodUser, TypeInv
  <2>3. QED
    BY <2>1, <2>2 DEF Entitled
<1>6. /\ u.expires - TTL \in Int /\ now - TTL + 1 \in Int /\ now - TTL \in Int
      /\ now - TTL + 1 <= u.expires - TTL /\ now - TTL <= u.expires - TTL
  BY <1>1, <1>3
<1> HIDE DEF u
<1>7. Due(r, p, o, kind, now - TTL + 1) /\ Due(r, p, o, kind, now - TTL)
  BY <1>4, <1>6, DueSince
<1>8. CASE p \in demoted
  BY <1>7, <1>8 DEF Slack
<1>9. CASE p \notin demoted
  BY <1>5, <1>7, <1>9 DEF Due
<1>10. QED
  BY <1>8, <1>9

(* The role of a row as a replica sees it.                                 *)
LEMMA RoleSeenDue ==
  ASSUME TypeInv, LostType, NEW r, NEW c \in CacheType, MembersOK(r, c),
         NEW i \in 1 .. Len(rows), NEW p \in Persons, rows[i].clerk = p, NEW o \in Orgs,
         NEW kind \in {"read", "work"}, RoleSeen(c, i, o) \in Allowed[kind]
  PROVE  Due(r, p, o, kind, now - TTL + 1)
<1> DEFINE e == c.members[<<i, o>>]
<1>1. i \in Rows /\ i \in DOMAIN rows
  BY ConstantsAssumption DEF TypeInv, Rows
<1>2. now \in Nat /\ TTL \in Nat /\ ~Fresh(Stale)
  BY TimeFacts
<1>3. CASE Fresh(e)
  <2>1. e \in MemberEntry
    BY <1>1 DEF CacheType
  <2>2. e.expires \in Nat /\ e.expires > now
    BY <1>2, <1>3, <2>1 DEF MemberEntry, Fresh
  <2>3. GoodMember(r, e, i, o) /\ e.role \in Allowed[kind]
    BY <1>1, <1>3 DEF MembersOK, RoleSeen
  <2>4. Due(r, p, o, kind, e.expires - TTL)
    BY <2>3 DEF GoodMember
  <2>5. /\ e.expires - TTL \in Int /\ now - TTL + 1 \in Int
        /\ now - TTL + 1 <= e.expires - TTL
    BY <1>2, <2>2
  <2> HIDE DEF e
  <2>6. QED
    BY <2>4, <2>5, DueSince
<1>4. CASE ~Fresh(e)
  <2>1. RoleIn(i, o) \in Allowed[kind]
    BY <1>4 DEF RoleSeen
  <2>2. QED
    BY <1>1, <2>1, EntitledByRole DEF Due
<1>5. QED
  BY <1>3, <1>4

(* A membership that is cached is read from the database.                  *)
LEMMA AfterMemberOK ==
  ASSUME TypeInv, LostType, NEW r, NEW c \in CacheType, CacheOK(r, c),
         NEW i \in 1 .. Len(rows), rows[i].clerk \in Persons, NEW o \in Orgs
  PROVE  /\ AfterMember(c, i, o) \in CacheType
         /\ CacheOK(r, AfterMember(c, i, o))
         /\ AfterMember(c, i, o).users = c.users
<1> DEFINE e == [role |-> RoleIn(i, o), expires |-> Expiry]
           d == AfterMember(c, i, o)
<1>1. i \in Rows /\ i \in DOMAIN rows
  BY ConstantsAssumption DEF TypeInv, Rows
<1>2. CASE d = c
  BY <1>2
<1>3. CASE d # c
  <2>1. /\ RoleIn(i, o) # None
        /\ d = [c EXCEPT !.members = [c.members EXCEPT ![<<i, o>>] = e]]
    BY <1>3 DEF AfterMember
  <2>2. RoleIn(i, o) \in Roles /\ Expiry \in Nat
    BY <1>1, <2>1, RoleType, TimeFacts
  <2>3. e \in MemberEntry
    BY <2>2 DEF MemberEntry
  <2>4. GoodMember(r, e, i, o)
    <3>1. \A kind \in {"read", "work"} : RoleIn(i, o) \in Allowed[kind] =>
            Entitled(rows, member, rows[i].clerk, o, kind)
      BY <1>1, EntitledByRole
    <3>2. e.role = RoleIn(i, o) /\ e.expires = Expiry
      OBVIOUS
    <3> HIDE DEF e
    <3>3. QED
      BY <2>2, <3>1, <3>2 DEF GoodMember, Due
  <2> HIDE DEF e, d
  <2>5. /\ d.members = [c.members EXCEPT ![<<i, o>>] = e]
        /\ d.users = c.users /\ d.lists = c.lists /\ d.resolved = c.resolved
    BY <2>1 DEF CacheType
  <2>6. d \in CacheType
    <3>1. [c.members EXCEPT ![<<i, o>>] = e] \in [Rows \X Orgs -> MemberEntry]
      BY <2>3 DEF CacheType
    <3>2. QED
      BY <2>1, <3>1 DEF CacheType
  <2>7. MembersOK(r, d)
    <3>1. ASSUME NEW k \in Rows, NEW n \in Orgs, Fresh(d.members[<<k, n>>])
          PROVE  GoodMember(r, d.members[<<k, n>>], k, n)
      <4>1. CASE k = i /\ n = o
        <5>1. d.members[<<k, n>>] = e
          BY <2>5, <4>1 DEF CacheType
        <5>2. QED
          BY <2>4, <4>1, <5>1
      <4>2. CASE ~(k = i /\ n = o)
        <5>1. d.members[<<k, n>>] = c.members[<<k, n>>]
          BY <2>5, <4>2 DEF CacheType
        <5>2. QED
          BY <3>1, <5>1 DEF CacheOK, MembersOK
      <4>3. QED
        BY <4>1, <4>2
    <3>2. QED
      BY <3>1 DEF MembersOK
  <2>8. UsersOK(r, d) /\ ListsOK(r, d) /\ ResolvedOK(r, d)
    BY <2>5 DEF CacheOK, UsersOK, ListsOK, ResolvedOK
  <2>9. QED
    BY <2>5, <2>6, <2>7, <2>8 DEF CacheOK, d
<1>4. QED
  BY <1>2, <1>3

(* The newest organization a person sees.                                  *)
LEMMA ListedDue ==
  ASSUME TypeInv, LostType, NEW r, NEW c \in CacheType, UsersOK(r, c), ListsOK(r, c),
         NEW p \in Persons, Fresh(c.users[p])
  PROVE  /\ Listed(c, p) \in Orgs \cup {None}
         /\ Listed(c, p) # None => Due(r, p, Listed(c, p), "read", now - TTL + 1 - Slack(p))
         /\ ~Fresh(c.lists[p]) /\ Listed(c, p) # None =>
              Due(r, p, Listed(c, p), "read", now - Slack(p))
<1> DEFINE e == c.lists[p]
           u == User(c, p)
           S == {o \in 1 .. orgs : u.owner \/ RoleIn(u.row, o) # None}
<1>1. now \in Nat /\ TTL \in Nat /\ TTL > 0 /\ ~Fresh(Stale) /\ Slack(p) \in Nat
  BY TimeFacts, SlackType
<1>2. GoodUser(r, u, p)
  BY DEF UsersOK, User
<1>3. CASE Fresh(e)
  <2>1. e \in [org: Orgs \cup {None}, expires: Nat]
    BY <1>1, <1>3 DEF CacheType, ListEntry
  <2>2. Listed(c, p) = e.org /\ e.org \in Orgs \cup {None} /\ e.expires \in Nat
    BY <1>3, <2>1 DEF Listed
  <2>3. ASSUME e.org # None PROVE Due(r, p, e.org, "read", now - TTL + 1 - Slack(p))
    <3>1. GoodList(r, e, p) /\ e.expires > now
      BY <1>3 DEF ListsOK, Fresh
    <3>2. Due(r, p, e.org, "read", e.expires - TTL - Slack(p)) /\ e.org \in Orgs
      BY <2>2, <2>3, <3>1 DEF GoodList
    <3>3. /\ e.expires - TTL - Slack(p) \in Int /\ now - TTL + 1 - Slack(p) \in Int
          /\ now - TTL + 1 - Slack(p) <= e.expires - TTL - Slack(p)
      BY <1>1, <2>2, <3>1
    <3> DEFINE o == e.org
    <3> HIDE DEF e
    <3>4. o \in Orgs /\ Due(r, p, o, "read", e.expires - TTL - Slack(p))
      BY <3>2
    <3> HIDE DEF o
    <3>5. Due(r, p, o, "read", now - TTL + 1 - Slack(p))
      BY <3>3, <3>4, DueSince
    <3>6. QED
      BY <3>5 DEF o
  <2>4. QED
    BY <1>3, <2>2, <2>3
<1>4. CASE ~Fresh(e)
  <2>1. Listed(c, p) = Newest(S)
    BY <1>4 DEF Listed
  <2>2. orgs \in Nat /\ 1 .. orgs \subseteq Orgs /\ S \in SUBSET (1 .. orgs)
    BY ConstantsAssumption DEF TypeInv, RestType, Orgs
  <2> DEFINE l == Newest(S)
  <2>3. l = None \/ l \in S
    <3> HIDE DEF S
    <3>1. QED
      BY <2>2, NewestIsOne
  <2>4. ASSUME l # None PROVE l \in Orgs /\ Due(r, p, l, "read", now - Slack(p))
    <3>1. l \in S
      BY <2>3, <2>4
    <3> HIDE DEF l
    <3>2. l \in Orgs /\ (u.owner \/ RoleIn(u.row, l) # None)
      BY <2>2, <3>1
    <3>3. CASE u.owner
      BY <3>2, <3>3, OwnerDue DEF User
    <3>4. CASE RoleIn(u.row, l) # None
      <4>1. u.row \in Rows /\ u.row \in DOMAIN rows /\ rows[u.row].clerk = p
        BY <1>2, ConstantsAssumption DEF GoodUser, TypeInv, Rows
      <4>2. RoleIn(u.row, l) \in Allowed["read"]
        BY <3>2, <3>4, <4>1, RoleType DEF Allowed
      <4>3. QED
        BY <3>2, <4>1, <4>2, EntitledByRole DEF Due
    <3>5. QED
      BY <3>2, <3>3, <3>4
  <2>5. ASSUME l # None PROVE Due(r, p, l, "read", now - TTL + 1 - Slack(p))
    <3>1. l \in Orgs /\ Due(r, p, l, "read", now - Slack(p))
      BY <2>4, <2>5
    <3>2. /\ now - Slack(p) \in Int /\ now - TTL + 1 - Slack(p) \in Int
          /\ now - TTL + 1 - Slack(p) <= now - Slack(p)
      BY <1>1
    <3> HIDE DEF l
    <3>3. QED
      BY <3>1, <3>2, DueSince
  <2>6. l = None \/ l \in Orgs
    BY <2>4
  <2> HIDE DEF l
  <2>7. QED
    BY <1>4, <2>1, <2>4, <2>5, <2>6 DEF l
<1>5. QED
  BY <1>3, <1>4

LEMMA AfterListOK ==
  ASSUME TypeInv, LostType, NEW r, NEW c \in CacheType, CacheOK(r, c),
         NEW p \in Persons, Fresh(c.users[p])
  PROVE  /\ AfterList(c, p) \in CacheType
         /\ CacheOK(r, AfterList(c, p))
         /\ AfterList(c, p).users = c.users
<1> DEFINE e == [org |-> Listed(c, p), expires |-> Expiry]
           d == AfterList(c, p)
<1>1. CASE Fresh(c.lists[p])
  BY <1>1 DEF AfterList
<1>2. CASE ~Fresh(c.lists[p])
  <2>1. d = [c EXCEPT !.lists = [c.lists EXCEPT ![p] = e]]
    BY <1>2 DEF AfterList
  <2>2. /\ Listed(c, p) \in Orgs \cup {None}
        /\ Listed(c, p) # None => Due(r, p, Listed(c, p), "read", now - Slack(p))
    BY <1>2, ListedDue DEF CacheOK
  <2>3. Expiry \in Nat /\ now - Slack(p) = Expiry - TTL - Slack(p)
    BY TimeFacts, SlackType DEF Expiry
  <2>4. e \in ListEntry /\ e.org = Listed(c, p) /\ e.expires = Expiry
    BY <2>2, <2>3 DEF ListEntry
  <2> HIDE DEF e, d
  <2>5. GoodList(r, e, p)
    BY <2>2, <2>3, <2>4 DEF GoodList
  <2>6. /\ d.lists = [c.lists EXCEPT ![p] = e]
        /\ d.users = c.users /\ d.members = c.members /\ d.resolved = c.resolved
    BY <2>1 DEF CacheType
  <2>7. d \in CacheType
    <3>1. [c.lists EXCEPT ![p] = e] \in [Persons -> ListEntry]
      BY <2>4 DEF CacheType
    <3>2. QED
      BY <2>1, <3>1 DEF CacheType
  <2>8. ListsOK(r, d)
    <3>1. ASSUME NEW q \in Persons, Fresh(d.lists[q]) PROVE GoodList(r, d.lists[q], q)
      <4>1. CASE q = p
        BY <2>5, <2>6, <4>1 DEF CacheType
      <4>2. CASE q # p
        <5>1. d.lists[q] = c.lists[q]
          BY <2>6, <4>2 DEF CacheType
        <5>2. QED
          BY <3>1, <5>1 DEF CacheOK, ListsOK
      <4>3. QED
        BY <4>1, <4>2
    <3>2. QED
      BY <3>1 DEF ListsOK
  <2>9. UsersOK(r, d) /\ MembersOK(r, d) /\ ResolvedOK(r, d)
    BY <2>6 DEF CacheOK, UsersOK, MembersOK, ResolvedOK
  <2>10. QED
    BY <2>6, <2>7, <2>8, <2>9 DEF CacheOK, d
<1>3. QED
  BY <1>1, <1>2

(* Looking up the role of a person in an organization.                     *)
LEMMA RoleLookups ==
  ASSUME TypeInv, LostType, NEW r, NEW c \in CacheType, CacheOK(r, c),
         NEW p \in Persons, Fresh(c.users[p]), NEW o \in Orgs
  PROVE  /\ AfterOrgRole(c, p, o) \in CacheType
         /\ CacheOK(r, AfterOrgRole(c, p, o))
         /\ AfterOrgRole(c, p, o).users = c.users
         /\ AfterMemberRole(c, p, o) \in CacheType
         /\ CacheOK(r, AfterMemberRole(c, p, o))
         /\ AfterMemberRole(c, p, o).users = c.users
<1> DEFINE i == User(c, p).row
<1>1. i \in 1 .. Len(rows) /\ rows[i].clerk = p
  BY DEF CacheOK, UsersOK, GoodUser, User
<1> HIDE DEF i
<1>2. /\ AfterMember(c, i, o) \in CacheType
      /\ CacheOK(r, AfterMember(c, i, o))
      /\ AfterMember(c, i, o).users = c.users
  BY <1>1, AfterMemberOK
<1>3. /\ AfterOrgRole(c, p, o) = c \/ AfterOrgRole(c, p, o) = AfterMember(c, i, o)
      /\ AfterMemberRole(c, p, o) = c \/ AfterMemberRole(c, p, o) = AfterMember(c, i, o)
  BY DEF AfterOrgRole, AfterMemberRole, i
<1>4. QED
  BY <1>2, <1>3

(* The organization of a request.  A cached role may decide it just before *)
(* it expires, and the decision is cached in turn.                         *)
LEMMA ResolveDue ==
  ASSUME TypeInv, LostType, NEW r, NEW c \in CacheType, CacheOK(r, c),
         NEW p \in Persons, Fresh(c.users[p]), NEW q \in {None} \cup Orgs,
         NEW kind \in {"read", "work"}
  PROVE  /\ Resolve(c, p, q, kind) \in Orgs \cup {None}
         /\ kind = "read" /\ Resolve(c, p, q, kind) # None =>
              /\ Due(r, p, Resolve(c, p, q, kind), "read", now - 2 * TTL + 1 - Slack(p))
              /\ ~Fresh(c.resolved[<<p, q, kind>>]) =>
                   Due(r, p, Resolve(c, p, q, kind), "read", now - TTL + 1 - Slack(p))
<1> DEFINE e == c.resolved[<<p, q, kind>>]
           o == Resolve(c, p, q, kind)
           u == User(c, p)
<1>1. now \in Nat /\ TTL \in Nat /\ ~Fresh(Stale) /\ Slack(p) \in Nat
  BY TimeFacts, SlackType
<1>2. /\ now - TTL + 1 - Slack(p) \in Int /\ now - 2 * TTL + 1 - Slack(p) \in Int
      /\ now - TTL + 1 \in Int /\ now - TTL + 1 - Slack(p) <= now - TTL + 1
      /\ now - 2 * TTL + 1 - Slack(p) <= now - TTL + 1 - Slack(p)
  BY <1>1
<1>3. CASE Fresh(e)
  <2>1. <<p, q, kind>> \in Resolvable
    BY DEF Resolvable
  <2>2. e \in [org: Orgs, expires: Nat]
    BY <1>1, <1>3, <2>1 DEF CacheType, ResolvedEntry
  <2>3. o = e.org /\ o \in Orgs /\ e.expires \in Nat /\ e.expires > now
    BY <1>3, <2>2 DEF Resolve, Fresh
  <2>4. ASSUME kind = "read" PROVE Due(r, p, o, "read", now - 2 * TTL + 1 - Slack(p))
    <3>1. GoodResolved(r, e, p)
      BY <1>3, <2>4 DEF CacheOK, ResolvedOK
    <3>2. Due(r, p, o, "read", e.expires - 2 * TTL + 1 - Slack(p))
      BY <2>3, <3>1 DEF GoodResolved
    <3>3. /\ e.expires - 2 * TTL + 1 - Slack(p) \in Int
          /\ now - 2 * TTL + 1 - Slack(p) <= e.expires - 2 * TTL + 1 - Slack(p)
      BY <1>1, <2>3
    <3>4. o \in Orgs
      BY <2>3
    <3> HIDE DEF e, o
    <3>5. QED
      BY <1>2, <3>2, <3>3, <3>4, DueSince
  <2>5. QED
    BY <1>3, <2>3, <2>4
<1>4. CASE ~Fresh(e) /\ q # None
  <2>1. o = IF HasOrgRole(c, p, q, kind) THEN q ELSE None
    BY <1>4 DEF Resolve
  <2>2. q \in Orgs /\ GoodUser(r, u, p)
    BY <1>4 DEF CacheOK, UsersOK, User
  <2>3. ASSUME HasOrgRole(c, p, q, kind), kind = "read"
        PROVE  Due(r, p, q, "read", now - TTL + 1)
    <3>1. CASE u.owner
      BY <2>2, <3>1, OwnerDue DEF CacheOK, User
    <3>2. CASE ~u.owner
      <4> DEFINE i == u.row
      <4>1. i \in 1 .. Len(rows) /\ rows[i].clerk = p
        BY <2>2 DEF GoodUser
      <4>2. RoleSeen(c, i, q) \in Allowed[kind]
        BY <2>3, <3>2 DEF HasOrgRole
      <4> HIDE DEF i
      <4>3. Due(r, p, q, kind, now - TTL + 1)
        BY <2>2, <4>1, <4>2, RoleSeenDue DEF CacheOK
      <4>4. QED
        BY <2>3, <4>3
    <3>3. QED
      BY <3>1, <3>2
  <2>4. HasOrgRole(c, p, q, kind) /\ kind = "read" =>
          Due(r, p, q, "read", now - TTL + 1 - Slack(p))
    BY <1>2, <2>2, <2>3, DueSince
  <2>5. HasOrgRole(c, p, q, kind) /\ kind = "read" =>
          Due(r, p, q, "read", now - 2 * TTL + 1 - Slack(p))
    BY <1>2, <2>2, <2>4, DueSince
  <2>6. QED
    BY <2>1, <2>2, <2>4, <2>5
<1>5. CASE ~Fresh(e) /\ q = None
  <2>1. o = Listed(c, p)
    BY <1>5 DEF Resolve
  <2>2. /\ Listed(c, p) \in Orgs \cup {None}
        /\ Listed(c, p) # None => Due(r, p, Listed(c, p), "read", now - TTL + 1 - Slack(p))
    BY ListedDue DEF CacheOK
  <2> DEFINE l == Listed(c, p)
  <2>3. l \in Orgs \cup {None} /\ (l # None => Due(r, p, l, "read", now - TTL + 1 - Slack(p)))
    BY <2>2
  <2>4. o = l
    BY <2>1
  <2> HIDE DEF l, o
  <2>5. l # None => Due(r, p, l, "read", now - 2 * TTL + 1 - Slack(p))
    BY <1>2, <2>3, DueSince
  <2>6. QED
    BY <2>3, <2>4, <2>5 DEF o
<1>6. QED
  BY <1>3, <1>4, <1>5

LEMMA AfterResolveOK ==
  ASSUME TypeInv, LostType, NEW r, NEW c \in CacheType, CacheOK(r, c),
         NEW p \in Persons, Fresh(c.users[p]), NEW q \in {None} \cup Orgs,
         NEW kind \in {"read", "work"}
  PROVE  /\ AfterResolve(c, p, q, kind) \in CacheType
         /\ CacheOK(r, AfterResolve(c, p, q, kind))
         /\ AfterResolve(c, p, q, kind).users = c.users
<1> DEFINE x == <<p, q, kind>>
           o == Resolve(c, p, q, kind)
           l == IF q # None THEN AfterOrgRole(c, p, q) ELSE AfterList(c, p)
           e == [org |-> o, expires |-> Expiry]
           d == AfterResolve(c, p, q, kind)
<1>1. l \in CacheType /\ CacheOK(r, l) /\ l.users = c.users
  <2>1. CASE q # None
    BY <2>1, RoleLookups
  <2>2. CASE q = None
    BY <2>2, AfterListOK
  <2>3. QED
    BY <2>1, <2>2
<1>2. \/ d = c \/ d = l
      \/ /\ ~Fresh(c.resolved[x]) /\ o # None
         /\ d = [l EXCEPT !.resolved = [l.resolved EXCEPT ![x] = e]]
  BY DEF AfterResolve
<1>3. ASSUME ~Fresh(c.resolved[x]), o # None,
             d = [l EXCEPT !.resolved = [l.resolved EXCEPT ![x] = e]]
      PROVE  d \in CacheType /\ CacheOK(r, d) /\ d.users = c.users
  <2>1. o \in Orgs /\ (kind = "read" => Due(r, p, o, "read", now - TTL + 1 - Slack(p)))
    BY <1>3, ResolveDue
  <2>2. Expiry \in Nat /\ now \in Nat /\ TTL \in Nat /\ Slack(p) \in Nat
    BY TimeFacts, SlackType
  <2>3. now - TTL + 1 - Slack(p) = Expiry - 2 * TTL + 1 - Slack(p) /\ Expiry \in Nat
    BY <2>2 DEF Expiry
  <2>4. e \in ResolvedEntry /\ e.org = o /\ e.expires = Expiry
    BY <2>1, <2>2 DEF ResolvedEntry
  <2> HIDE DEF e, d, l
  <2>5. /\ d.resolved = [l.resolved EXCEPT ![x] = e]
        /\ d.users = l.users /\ d.members = l.members /\ d.lists = l.lists
    BY <1>1, <1>3 DEF CacheType
  <2>6. d \in CacheType
    <3>1. [l.resolved EXCEPT ![x] = e] \in [Resolvable -> ResolvedEntry]
      BY <1>1, <2>4 DEF CacheType
    <3>2. QED
      BY <1>1, <1>3, <3>1 DEF CacheType
  <2>7. UsersOK(r, d) /\ MembersOK(r, d) /\ ListsOK(r, d)
    BY <1>1, <2>5 DEF CacheOK, UsersOK, MembersOK, ListsOK
  <2>8. ResolvedOK(r, d)
    <3>1. ASSUME NEW k \in Persons, NEW n \in {None} \cup Orgs,
                 Fresh(d.resolved[<<k, n, "read">>])
          PROVE  GoodResolved(r, d.resolved[<<k, n, "read">>], k)
      <4> DEFINE y == <<k, n, "read">>
      <4>1. y \in Resolvable /\ l.resolved \in [Resolvable -> ResolvedEntry]
        BY <1>1 DEF CacheType, Resolvable
      <4>2. CASE y = x
        <5>1. k = p /\ kind = "read"
          BY <4>2
        <5>2. d.resolved[y] = e
          BY <2>5, <4>1, <4>2
        <5>3. GoodResolved(r, e, p)
          BY <2>1, <2>2, <2>3, <2>4, <5>1 DEF GoodResolved
        <5>4. QED
          BY <5>1, <5>2, <5>3
      <4>3. CASE y # x
        <5>1. d.resolved[y] = l.resolved[y]
          BY <2>5, <4>1, <4>3
        <5>2. QED
          BY <1>1, <3>1, <5>1 DEF CacheOK, ResolvedOK
      <4>4. QED
        BY <4>2, <4>3
    <3>2. QED
      BY <3>1 DEF ResolvedOK
  <2>9. QED
    BY <1>1, <2>5, <2>6, <2>7, <2>8 DEF CacheOK
<1>4. QED
  BY <1>1, <1>2, <1>3

LEMMA MemberRoleDue ==
  ASSUME TypeInv, LostType, NEW r, NEW c \in CacheType, CacheOK(r, c),
         NEW p \in Persons, Fresh(c.users[p]), NEW o \in Orgs, HasMemberRole(c, p, o, "work")
  PROVE  Due(r, p, o, "work", now - TTL + 1)
<1> DEFINE u == User(c, p)
           i == u.row
<1>1. GoodUser(r, u, p)
  BY DEF CacheOK, UsersOK, User
<1>2. CASE u.owner /\ o = Platform
  BY <1>2, OwnerDue DEF CacheOK, User
<1>3. CASE ~(u.owner /\ o = Platform)
  <2>1. RoleSeen(c, i, o) \in Allowed["work"]
    BY <1>3 DEF HasMemberRole
  <2>2. i \in 1 .. Len(rows) /\ rows[i].clerk = p
    BY <1>1 DEF GoodUser
  <2> HIDE DEF i
  <2>3. QED
    BY <2>1, <2>2, RoleSeenDue DEF CacheOK
<1>4. QED
  BY <1>2, <1>3

-----------------------------------------------------------------------------
(* What the steps do to what the caches say.                               *)

\* Rows stay, with whom they belong to and with what they own, unless an owner is made
\* less of, which is noted for good.
RowsKept ==
  /\ Len(rows) <= Len(rows') /\ Len(rows) \in Nat /\ Len(rows') \in Nat
  /\ demoted \subseteq demoted'
  /\ \A i \in 1 .. Len(rows) : rows[i].clerk \in Persons =>
       /\ rows'[i].clerk = rows[i].clerk
       /\ rows[i].owner => rows'[i].owner \/ rows[i].clerk \in demoted'

\* No right is lost through r: what is lost is noted, with another replica.
LossesNoted(r) ==
  \A x \in Rights :
    \/ /\ lost'[x] = lost[x]
       /\ Entitled(rows, member, x[1], x[2], x[3]) => Entitled(rows', member', x[1], x[2], x[3])
    \/ lost'[x].at = now /\ lost'[x].by # r

DueNext(r, p, o, kind, since) ==
  \/ Entitled(rows', member', p, o, kind)
  \/ lost'[<<p, o, kind>>].at >= since /\ lost'[<<p, o, kind>>].by # r

LEMMA DueStays ==
  ASSUME NEW r, LossesNoted(r), now \in Nat, NEW p \in Persons, NEW o \in Orgs,
         NEW kind \in {"read", "work"}, NEW s \in Int, s <= now, Due(r, p, o, kind, s)
  PROVE  DueNext(r, p, o, kind, s)
<1> DEFINE x == <<p, o, kind>>
<1>1. x \in Rights /\ x[1] = p /\ x[2] = o /\ x[3] = kind
  BY DEF Rights
<1>2. \/ Entitled(rows, member, p, o, kind)
      \/ lost[x].at >= s /\ lost[x].by # r
  BY DEF Due
<1> HIDE DEF x
<1>3. \/ /\ lost'[x] = lost[x]
         /\ Entitled(rows, member, p, o, kind) => Entitled(rows', member', p, o, kind)
      \/ lost'[x].at = now /\ lost'[x].by # r
  BY <1>1 DEF LossesNoted
<1>4. \/ Entitled(rows', member', p, o, kind)
      \/ lost'[x].at >= s /\ lost'[x].by # r
  BY <1>2, <1>3
<1>5. QED
  BY <1>4 DEF DueNext, x

\* The same with the slack that the next state allows.
LEMMA SlackStays ==
  ASSUME TypeInv, LostType, NEW r, LossesNoted(r), RowsKept, NEW p \in Persons, NEW o \in Orgs,
         NEW s \in Int, s <= now, Due(r, p, o, "read", s - Slack(p))
  PROVE  DueNext(r, p, o, "read", s - Slack(p)')
<1>1. now \in Nat /\ TTL \in Nat /\ Slack(p) \in Nat
  BY TimeFacts, SlackType
<1>2. Slack(p)' \in Nat /\ Slack(p) <= Slack(p)'
  BY <1>1 DEF Slack, RowsKept
<1> DEFINE t == s - Slack(p)'
<1>3. t \in Int /\ s - Slack(p) \in Int /\ t <= s - Slack(p) /\ t <= now
  BY <1>1, <1>2
<1> HIDE DEF t
<1>4. Due(r, p, o, "read", t)
  BY <1>3, DueSince
<1>5. DueNext(r, p, o, "read", t)
  BY <1>1, <1>3, <1>4, DueStays
<1>6. QED
  BY <1>5 DEF t

LEMMA MembersStay ==
  ASSUME TypeInv, NEW r \in Replicas, NEW c \in CacheType, MembersOK(r, c),
         RowsKept, LossesNoted(r), now \in Nat, now' \in Nat, now <= now',
         cache'[r].members = c.members
  PROVE  MembersOK(r, cache[r])'
<1>1. now \in Nat /\ TTL \in Nat /\ ~Fresh(Stale)
  BY TimeFacts
<1>2. ASSUME NEW i \in Rows, NEW o \in Orgs, c.members[<<i, o>>].expires > now'
      PROVE  /\ c.members[<<i, o>>].expires <= now' + TTL
             /\ i \in 1 .. Len(rows') /\ rows'[i].clerk \in Persons
             /\ \A kind \in {"read", "work"} : c.members[<<i, o>>].role \in Allowed[kind] =>
                  DueNext(r, rows'[i].clerk, o, kind, c.members[<<i, o>>].expires - TTL)
  <2> DEFINE e == c.members[<<i, o>>]
  <2>1. e \in MemberEntry
    BY DEF CacheType
  <2>2. e.expires \in Nat
    BY <1>1, <2>1 DEF MemberEntry, Stale
  <2>3. Fresh(e)
    BY <1>2, <2>2 DEF Fresh
  <2>4. GoodMember(r, e, i, o)
    BY <2>3 DEF MembersOK
  <2> HIDE DEF e
  <2>5. e.expires <= now + TTL /\ i \in 1 .. Len(rows) /\ rows[i].clerk \in Persons
    BY <2>4 DEF GoodMember, Expiry
  <2>6. i \in 1 .. Len(rows') /\ rows'[i].clerk = rows[i].clerk
    BY <2>5 DEF RowsKept
  <2>7. e.expires <= now' + TTL /\ e.expires - TTL \in Int /\ e.expires - TTL <= now
    BY <1>1, <2>2, <2>5
  <2>8. ASSUME NEW kind \in {"read", "work"}, e.role \in Allowed[kind]
        PROVE  DueNext(r, rows'[i].clerk, o, kind, e.expires - TTL)
    <3>1. Due(r, rows[i].clerk, o, kind, e.expires - TTL)
      BY <2>4, <2>8 DEF GoodMember
    <3>2. DueNext(r, rows[i].clerk, o, kind, e.expires - TTL)
      BY <1>1, <2>5, <2>7, <3>1, DueStays
    <3>3. QED
      BY <2>6, <3>2
  <2>9. QED
    BY <2>5, <2>6, <2>7, <2>8 DEF e
<1>3. QED
  BY <1>2 DEF MembersOK, GoodMember, Fresh, Expiry, Due, DueNext

LEMMA ListsStay ==
  ASSUME TypeInv, NEW r \in Replicas, NEW c \in CacheType, ListsOK(r, c),
         LostType, RowsKept, LossesNoted(r), now \in Nat, now' \in Nat, now <= now',
         cache'[r].lists = c.lists
  PROVE  ListsOK(r, cache[r])'
<1>1. now \in Nat /\ TTL \in Nat /\ ~Fresh(Stale)
  BY TimeFacts
<1>2. ASSUME NEW p \in Persons, c.lists[p].expires > now'
      PROVE  /\ c.lists[p].expires <= now' + TTL
             /\ \/ c.lists[p].org = None
                \/ DueNext(r, p, c.lists[p].org, "read", c.lists[p].expires - TTL - Slack(p)')
  <2> DEFINE e == c.lists[p]
  <2>1. e \in ListEntry
    BY DEF CacheType
  <2>2. e.expires \in Nat
    BY <1>1, <2>1 DEF ListEntry, Stale
  <2>3. Fresh(e)
    BY <1>2, <2>2 DEF Fresh
  <2>4. e.org \in Orgs \cup {None}
    BY <1>1, <2>1, <2>3 DEF ListEntry
  <2>5. GoodList(r, e, p)
    BY <2>3 DEF ListsOK
  <2> HIDE DEF e
  <2>6. e.expires <= now + TTL /\ (e.org = None \/ Due(r, p, e.org, "read", e.expires - TTL - Slack(p)))
    BY <2>5 DEF GoodList, Expiry
  <2>7. e.expires <= now' + TTL /\ e.expires - TTL \in Int /\ e.expires - TTL <= now
    BY <1>1, <2>2, <2>6
  <2>8. ASSUME e.org # None PROVE DueNext(r, p, e.org, "read", e.expires - TTL - Slack(p)')
    <3> DEFINE o == e.org
    <3>1. o \in Orgs /\ Due(r, p, o, "read", e.expires - TTL - Slack(p))
      BY <2>4, <2>6, <2>8
    <3> HIDE DEF o
    <3>2. DueNext(r, p, o, "read", e.expires - TTL - Slack(p)')
      BY <2>7, <3>1, SlackStays
    <3>3. QED
      BY <3>2 DEF o
  <2>9. QED
    BY <2>7, <2>8 DEF e
<1>3. QED
  BY <1>2 DEF ListsOK, GoodList, Fresh, Expiry, Due, DueNext, Slack

LEMMA ResolvedStay ==
  ASSUME TypeInv, NEW r \in Replicas, NEW c \in CacheType, ResolvedOK(r, c),
         LostType, RowsKept, LossesNoted(r), now \in Nat, now' \in Nat, now <= now',
         cache'[r].resolved = c.resolved
  PROVE  ResolvedOK(r, cache[r])'
<1>1. now \in Nat /\ TTL \in Nat /\ ~Fresh(Stale)
  BY TimeFacts
<1>2. ASSUME NEW p \in Persons, NEW q \in {None} \cup Orgs,
             c.resolved[<<p, q, "read">>].expires > now'
      PROVE  /\ c.resolved[<<p, q, "read">>].expires <= now' + TTL
             /\ DueNext(r, p, c.resolved[<<p, q, "read">>].org, "read",
                        c.resolved[<<p, q, "read">>].expires - 2 * TTL + 1 - Slack(p)')
  <2> DEFINE x == <<p, q, "read">>
             e == c.resolved[x]
             o == e.org
  <2>1. x \in Resolvable
    BY DEF Resolvable
  <2>2. e \in ResolvedEntry
    BY <2>1 DEF CacheType
  <2>3. e.expires \in Nat
    BY <1>1, <2>2 DEF ResolvedEntry, Stale
  <2>4. Fresh(e)
    BY <1>2, <2>3 DEF Fresh
  <2>5. o \in Orgs
    BY <1>1, <2>2, <2>4 DEF ResolvedEntry
  <2>6. GoodResolved(r, e, p)
    BY <2>4 DEF ResolvedOK
  <2>7. e.expires <= now + TTL /\ Due(r, p, o, "read", e.expires - 2 * TTL + 1 - Slack(p))
    BY <2>6 DEF GoodResolved, Expiry
  <2>8. e.expires > now
    BY <2>4 DEF Fresh
  <2> HIDE DEF e, o
  <2>9. /\ e.expires <= now' + TTL /\ e.expires - 2 * TTL + 1 \in Int
        /\ e.expires - 2 * TTL + 1 <= now
    BY <1>1, <2>3, <2>7, <2>8
  <2>10. DueNext(r, p, o, "read", e.expires - 2 * TTL + 1 - Slack(p)')
    <3>1. PICK s \in Int : s = e.expires - 2 * TTL + 1
      BY <2>9
    <3>2. s <= now
      BY <2>9, <3>1
    <3>3. Slack(p) \in Nat /\ Slack(p)' \in Nat
      BY <1>1 DEF Slack
    <3>4. /\ s - Slack(p) = e.expires - 2 * TTL + 1 - Slack(p)
          /\ s - Slack(p)' = e.expires - 2 * TTL + 1 - Slack(p)'
      BY <1>1, <2>3, <3>1, <3>3
    <3>5. Due(r, p, o, "read", s - Slack(p))
      BY <2>7, <3>4, Zenon
    <3>6. DueNext(r, p, o, "read", s - Slack(p)')
      BY <2>5, <3>2, <3>5, SlackStays
    <3>7. QED
      BY <3>4, <3>6, Zenon
  <2>11. QED
    BY <2>9, <2>10 DEF e, o, x
<1>3. QED
  BY <1>2 DEF ResolvedOK, GoodResolved, Fresh, Expiry, Due, DueNext, Slack

\* What an entry says of a person when the rows are the next ones.
GoodUserNext(r, u, p) ==
  /\ u.row \in 1 .. Len(rows') /\ rows'[u.row].clerk = p
  /\ u.expires <= now' + TTL
  /\ u.owner =>
       /\ p \notin demoted' => rows'[u.row].owner
       /\ \A o \in Orgs, kind \in {"read", "work"} :
            kind = "read" \/ o = Platform => DueNext(r, p, o, kind, u.expires - TTL)

LEMMA UserStays ==
  ASSUME TypeInv, NEW r, NEW p \in Persons, NEW u \in UserEntry, Fresh(u),
         GoodUser(r, u, p), RowsKept, LossesNoted(r),
         now \in Nat, now' \in Nat, now <= now'
  PROVE  GoodUserNext(r, u, p)
<1>1. now \in Nat /\ TTL \in Nat /\ ~Fresh(Stale)
  BY TimeFacts
<1>2. u.expires \in Nat /\ u.owner \in BOOLEAN
  BY <1>1 DEF UserEntry
<1>3. u.row \in 1 .. Len(rows) /\ rows[u.row].clerk = p /\ u.expires <= now + TTL
  BY DEF GoodUser, Expiry
<1>4. /\ u.row \in 1 .. Len(rows') /\ rows'[u.row].clerk = p
      /\ rows[u.row].owner => rows'[u.row].owner \/ p \in demoted'
      /\ demoted \subseteq demoted'
  BY <1>3 DEF RowsKept
<1>5. u.expires <= now' + TTL /\ u.expires - TTL \in Int /\ u.expires - TTL <= now
  BY <1>1, <1>2, <1>3
<1>6. ASSUME u.owner PROVE p \notin demoted' => rows'[u.row].owner
  BY <1>4, <1>6 DEF GoodUser
<1>7. ASSUME u.owner, NEW o \in Orgs, NEW kind \in {"read", "work"},
             kind = "read" \/ o = Platform
      PROVE  DueNext(r, p, o, kind, u.expires - TTL)
  <2>1. Due(r, p, o, kind, u.expires - TTL)
    BY <1>7 DEF GoodUser
  <2>2. QED
    BY <1>1, <1>5, <2>1, DueStays
<1>8. QED
  BY <1>4, <1>5, <1>6, <1>7 DEF GoodUserNext

LEMMA UsersStay ==
  ASSUME TypeInv, NEW r \in Replicas, NEW c \in CacheType, UsersOK(r, c), RowsKept,
         LossesNoted(r), now \in Nat, now' \in Nat, now <= now',
         cache'[r].users = c.users
  PROVE  UsersOK(r, cache[r])'
<1>1. ASSUME NEW p \in Persons, c.users[p].expires > now'
      PROVE  GoodUserNext(r, c.users[p], p)
  <2>1. c.users[p] \in UserEntry
    BY DEF CacheType
  <2>2. c.users[p].expires \in Nat
    BY <2>1 DEF UserEntry, Stale
  <2>3. Fresh(c.users[p])
    BY <1>1, <2>2 DEF Fresh
  <2>4. QED
    BY <2>1, <2>3, UserStays DEF UsersOK
<1>2. QED
  BY <1>1 DEF UsersOK, GoodUser, GoodUserNext, Fresh, Expiry, Due, DueNext

LEMMA CacheStays ==
  ASSUME TypeInv, LostType, NEW r \in Replicas, NEW c \in CacheType, CacheOK(r, c),
         RowsKept, LossesNoted(r), now \in Nat, now' \in Nat, now <= now', cache'[r] = c
  PROVE  CacheOK(r, cache[r])'
<1>1. MembersOK(r, cache[r])'
  BY MembersStay DEF CacheOK
<1>2. ListsOK(r, cache[r])'
  BY ListsStay DEF CacheOK
<1>3. ResolvedOK(r, cache[r])'
  BY ResolvedStay DEF CacheOK
<1>4. UsersOK(r, cache[r])'
  BY UsersStay DEF CacheOK
<1>5. QED
  BY <1>1, <1>2, <1>3, <1>4 DEF CacheOK

LEMMA DemotedStay ==
  ASSUME [Next]_vars
  PROVE  demoted \subseteq demoted'
<1>1. CASE \E r \in Replicas, p \in Persons : \E wish \in Wishes[p], email \in Claims(p) :
             Request(r, p, wish, email)
  BY <1>1 DEF Request
<1>2. CASE \E r \in Replicas : StoreUser(r)
  BY <1>2 DEF StoreUser
<1>3. CASE \E r \in Replicas : Admit(r) \/ AdmitMember(r) \/ AdmitOwner(r)
  BY <1>3 DEF Admit, AdmitMember, AdmitOwner, history
<1>4. CASE \E r \in Replicas :
             \/ WriteMember(r) \/ WriteOrganization(r)
             \/ WriteSelection(r) \/ WriteUpdate(r) \/ WritePlan(r)
  BY <1>4 DEF WriteMember, WriteOrganization, WriteSelection, WriteUpdate, WritePlan, history
<1>5. CASE Tick \/ UNCHANGED vars
  BY <1>5 DEF Tick, history, vars
<1>6. QED
  BY <1>1, <1>2, <1>3, <1>4, <1>5 DEF Next

LEMMA RowsStay ==
  ASSUME RowInv, [Next]_vars
  PROVE  RowsKept
<1>1. TypeInv /\ TypeInv' /\ Matched
  BY TypeNext DEF RowInv
<1>2. Len(rows) \in Nat /\ Len(rows') \in Nat /\ rows \in Seq(RowType)
  BY <1>1 DEF TypeInv
<1>3. demoted \subseteq demoted'
  BY DemotedStay
<1>4. /\ Len(rows) <= Len(rows')
      /\ \A i \in 1 .. Len(rows) : rows[i].clerk \in Persons => rows'[i].clerk = rows[i].clerk
  <2>1. CASE rows' = rows
    BY <1>2, <2>1
  <2>2. ASSUME NEW row, rows' = Append(rows, row)
        PROVE  Len(rows) <= Len(rows') /\ \A i \in 1 .. Len(rows) : rows'[i] = rows[i]
    BY <1>2, <2>2
  <2>3. ASSUME NEW r \in Replicas, StoreUser(r), rows' # rows
        PROVE  /\ Len(rows) <= Len(rows')
               /\ \A i \in 1 .. Len(rows) :
                    rows[i].clerk \in Persons => rows'[i].clerk = rows[i].clerk
    <3> DEFINE c == call[r]
               k == c.row
               q == c.person
    <3>1. /\ c \in StoreCall(Len(rows))
          /\ \E row \in RowType :
               /\ row.clerk = q
               /\ \/ rows' = Append(rows, row)
                  \/ k \in 1 .. Len(rows) /\ rows' = [rows EXCEPT ![k] = row]
      BY <1>1, <2>3, StoredRows
    <3>2. CallFits(c) /\ c.pc = "store" /\ q \in Persons
      BY <3>1 DEF RowInv, StoreCall
    <3>3. ASSUME k \in 1 .. Len(rows), rows[k].clerk \in Persons PROVE rows[k].clerk = q
      <4>1. k # None
        BY <3>3, ConstantsAssumption
      <4>2. rows[k].clerk = q \/ rows[k].email = q
        BY <3>2, <4>1 DEF CallFits, IsOf
      <4>3. rows[k].email \in {rows[k].clerk, None}
        BY <1>1, <3>3, ConstantsAssumption DEF Matched
      <4>4. QED
        BY <3>2, <4>2, <4>3, ConstantsAssumption
    <3> HIDE DEF c, k, q
    <3>4. PICK row \in RowType :
            /\ row.clerk = q
            /\ \/ rows' = Append(rows, row)
               \/ k \in 1 .. Len(rows) /\ rows' = [rows EXCEPT ![k] = row]
      BY <3>1
    <3>5. CASE rows' = Append(rows, row)
      BY <2>2, <3>5
    <3>6. CASE k \in 1 .. Len(rows) /\ rows' = [rows EXCEPT ![k] = row]
      <4>1. Len(rows') = Len(rows)
        BY <1>2, <3>6
      <4>2. \A i \in 1 .. Len(rows) : rows'[i] = IF i = k THEN row ELSE rows[i]
        BY <1>2, <3>6
      <4>3. ASSUME NEW i \in 1 .. Len(rows), rows[i].clerk \in Persons
            PROVE  rows'[i].clerk = rows[i].clerk
        <5>1. CASE i = k
          BY <3>3, <3>4, <4>2, <4>3, <5>1
        <5>2. CASE i # k
          BY <4>2, <5>2
        <5>3. QED
          BY <5>1, <5>2
      <4>4. QED
        BY <1>2, <4>1, <4>3
    <3>7. QED
      BY <3>4, <3>5, <3>6
  <2>4. ASSUME NEW r \in Replicas, NEW q \in Persons, Invite(r, q, None)
        PROVE  Len(rows) <= Len(rows') /\ \A i \in 1 .. Len(rows) : rows'[i] = rows[i]
    BY <2>2, <2>4 DEF Invite
  <2>5. QED
    BY <1>1, <2>1, <2>3, <2>4, RowsStep
<1>5. ASSUME NEW i \in 1 .. Len(rows), rows[i].clerk \in Persons, rows[i].owner, ~rows'[i].owner
      PROVE  rows[i].clerk \in demoted'
  <2>1. DOMAIN rows = 1 .. Len(rows)
    BY <1>2
  <2>2. PICK r \in Replicas :
          StoreUser(r) /\ call[r].row = i /\ call[r].person \in demoted'
    BY <1>1, <1>5, <2>1, OwnersStay
  <2>3. rows' # rows
    BY <1>5
  <2>4. PICK row \in RowType :
          /\ row.clerk = call[r].person
          /\ \/ call[r].row = None
             \/ rows' = [rows EXCEPT ![call[r].row] = row]
    BY <1>1, <2>2, <2>3, StoredRows
  <2>5. call[r].row # None
    BY <2>2, ConstantsAssumption
  <2>6. rows'[i].clerk = call[r].person
    BY <1>2, <2>2, <2>4, <2>5
  <2>7. QED
    BY <1>4, <1>5, <2>2, <2>6
<1>6. QED
  BY <1>2, <1>3, <1>4, <1>5 DEF RowsKept

\* As long as memberships stay, nobody loses a right when rows and owners stay.
LEMMA RowsKeepRights ==
  ASSUME TypeInv, RowsKept, TypeInv', \A i \in 1 .. Len(rows) : rows[i].owner => rows'[i].owner,
         NEW p \in Persons, NEW o, NEW kind,
         NEW mem, \A i \in 1 .. Len(rows) : mem[<<i, o>>] = member[<<i, o>>],
         Entitled(rows, member, p, o, kind)
  PROVE  Entitled(rows', mem, p, o, kind)
<1>1. DOMAIN rows = 1 .. Len(rows) /\ DOMAIN rows' = 1 .. Len(rows') /\ Len(rows) <= Len(rows')
      /\ Len(rows) \in Nat /\ Len(rows') \in Nat
  BY DEF TypeInv, RowsKept
<1>2. PICK i \in 1 .. Len(rows) :
        /\ rows[i].clerk = p
        /\ \/ rows[i].owner /\ (kind = "read" \/ o = Platform)
           \/ Active(member[<<i, o>>]) /\ member[<<i, o>>].role \in Allowed[kind]
  BY <1>1 DEF Entitled
<1>3. i \in 1 .. Len(rows') /\ rows'[i].clerk = p /\ (rows[i].owner => rows'[i].owner)
  BY <1>1, <1>2 DEF RowsKept
<1>4. QED
  BY <1>1, <1>2, <1>3 DEF Entitled

LEMMA RightParts ==
  ASSUME NEW x \in Rights
  PROVE  x[1] \in Persons /\ x[2] \in Orgs /\ x[3] \in {"read", "work"}
BY DEF Rights

\* What a sign-in takes away is noted without a replica.
LEMMA StoreUserLoses ==
  ASSUME RowInv, [Next]_vars, LostType, NEW w \in Replicas, StoreUser(w), NEW r \in Replicas
  PROVE  LossesNoted(r) /\ LostType'
<1>1. TypeInv /\ member' = member /\ None \notin Replicas
  BY ConstantsAssumption DEF RowInv, StoreUser
<1>2. (UNCHANGED <<rows, lost>>) \/ Lose(None, rows', member)
  BY DEF StoreUser
<1>3. CASE UNCHANGED <<rows, lost>>
  BY <1>1, <1>3 DEF LossesNoted, LostType
<1>4. CASE Lose(None, rows', member)
  <2>1. ASSUME NEW x \in Rights
        PROVE  \/ lost'[x] = [at |-> now, by |-> None]
               \/ /\ lost'[x] = lost[x]
                  /\ Entitled(rows, member, x[1], x[2], x[3]) =>
                       Entitled(rows', member, x[1], x[2], x[3])
    BY <1>4 DEF Lose
  <2>2. LossesNoted(r)
    BY <1>1, <2>1 DEF LossesNoted
  <2>3. [at |-> now, by |-> None] \in [at: Int, by: Replicas \cup {None}]
    BY <1>1, TimeFacts
  <2>4. \A x \in Rights : lost'[x] \in [at: Int, by: Replicas \cup {None}]
    BY <2>1, <2>3 DEF LostType
  <2>5. lost' = [x \in Rights |-> lost'[x]]
    BY <1>4 DEF Lose
  <2>6. QED
    BY <2>2, <2>4, <2>5 DEF LostType
<1>5. QED
  BY <1>2, <1>3, <1>4

\* Only the replica that writes a membership takes rights away.
LEMMA WriteMemberLoses ==
  ASSUME RowInv, [Next]_vars, LostType, NEW w \in Replicas, WriteMember(w)
  PROVE  /\ LostType'
         /\ \A r \in Replicas \ {w} : LossesNoted(r)
         /\ call' = [call EXCEPT ![w] = Idle]
         /\ \/ cache' = [cache EXCEPT ![w] = EmptyCaches]
            \/ UNCHANGED cache /\ LossesNoted(w)
<1> DEFINE wish == call[w].wish
           row == call[w].row
           i == IF row = None THEN Len(rows) + 1 ELSE row
           mem == [member EXCEPT ![<<i, wish.org>>] = [role |-> wish.role, status |-> wish.status]]
<1>1. TypeInv /\ TypeInv' /\ RowsKept /\ call' = [call EXCEPT ![w] = Idle]
  BY TypeNext, RowsStay DEF RowInv, WriteMember, Written, Goto
<1>2. CASE Clashes(wish.whose, row)
  <2>1. UNCHANGED <<rows, member, cache, lost>>
    BY <1>2 DEF WriteMember
  <2>2. \A r : LossesNoted(r)
    BY <2>1 DEF LossesNoted
  <2>3. QED
    BY <1>1, <2>1, <2>2 DEF LostType
<1>3. CASE ~Clashes(wish.whose, row)
  <2>1. member' = mem /\ Lose(w, rows, mem) /\ cache' = [cache EXCEPT ![w] = EmptyCaches]
    BY <1>3 DEF WriteMember, Written, Cleared
  <2>2. Invite(w, wish.whose, row)
    BY <1>3 DEF WriteMember
  <2>3. \A k \in 1 .. Len(rows) : rows'[k] = rows[k]
    <3> DEFINE new == [clerk |-> None, email |-> wish.whose, owner |-> FALSE]
    <3>1. rows' = rows \/ rows' = Append(rows, new)
      BY <2>2 DEF Invite
    <3> HIDE DEF new
    <3>2. rows \in Seq(RowType)
      BY <1>1 DEF TypeInv
    <3>3. QED
      BY <3>1, <3>2
  <2> HIDE DEF mem
  <2>4. ASSUME NEW p \in Persons, NEW o, NEW kind, Entitled(rows, mem, p, o, kind)
        PROVE  Entitled(rows', member', p, o, kind)
    <3>1. DOMAIN rows = 1 .. Len(rows) /\ DOMAIN rows' = 1 .. Len(rows')
          /\ 1 .. Len(rows) \subseteq 1 .. Len(rows')
      BY <1>1 DEF TypeInv, RowsKept
    <3>2. QED
      BY <2>1, <2>3, <2>4, <3>1 DEF Entitled
  <2>5. ASSUME NEW x \in Rights
        PROVE  \/ lost'[x] = [at |-> now, by |-> w]
               \/ /\ lost'[x] = lost[x]
                  /\ Entitled(rows, member, x[1], x[2], x[3]) =>
                       Entitled(rows', member', x[1], x[2], x[3])
    <3>1. lost'[x] = IF Entitled(rows, member, x[1], x[2], x[3]) /\ ~Entitled(rows, mem, x[1], x[2], x[3])
                     THEN [at |-> now, by |-> w] ELSE lost[x]
      BY <2>1 DEF Lose
    <3>2. x[1] \in Persons
      BY RightParts
    <3>3. QED
      BY <2>4, <3>1, <3>2
  <2>6. LostType'
    <3>1. [at |-> now, by |-> w] \in [at: Int, by: Replicas \cup {None}]
      BY <1>1, TimeFacts
    <3>2. \A x \in Rights : lost'[x] \in [at: Int, by: Replicas \cup {None}]
      BY <2>5, <3>1 DEF LostType
    <3>3. lost' = [x \in Rights |-> lost'[x]]
      BY <2>1 DEF Lose
    <3>4. QED
      BY <3>2, <3>3 DEF LostType
  <2>7. \A r \in Replicas \ {w} : LossesNoted(r)
    BY <2>5 DEF LossesNoted
  <2>8. QED
    BY <1>1, <2>1, <2>6, <2>7
<1>4. QED
  BY <1>2, <1>3

\* A new organization takes no right away.
LEMMA WriteOrganizationLoses ==
  ASSUME RowInv, [Next]_vars, NEW w \in Replicas, WriteOrganization(w), NEW r
  PROVE  LossesNoted(r) /\ UNCHANGED lost
<1> DEFINE q == call[w].wish.whose
           row == call[w].row
           i == IF row = None THEN Len(rows) + 1 ELSE row
           new == [role |-> "org_admin", status |-> "ACTIVE"]
<1>1. TypeInv /\ TypeInv' /\ RowsKept /\ UNCHANGED lost
  BY TypeNext, RowsStay DEF RowInv, WriteOrganization
<1>2. \A k \in 1 .. Len(rows) : rows'[k] = rows[k]
  <2> DEFINE invited == [clerk |-> None, email |-> q, owner |-> FALSE]
  <2>1. rows' = rows \/ rows' = Append(rows, invited)
    BY DEF WriteOrganization, Invite
  <2> HIDE DEF invited
  <2>2. rows \in Seq(RowType)
    BY <1>1 DEF TypeInv
  <2>3. QED
    BY <2>1, <2>2
<1>3. ASSUME NEW p \in Persons, NEW o \in Orgs, NEW kind \in {"read", "work"},
             Entitled(rows, member, p, o, kind)
      PROVE  Entitled(rows', member', p, o, kind)
  <2>1. CASE member' = member
    BY <1>1, <1>2, <1>3, <2>1, RowsKeepRights
  <2>2. CASE member' = [member EXCEPT ![<<i, orgs + 1>>] = new]
    <3>1. DOMAIN rows = 1 .. Len(rows) /\ DOMAIN rows' = 1 .. Len(rows')
          /\ 1 .. Len(rows) \subseteq 1 .. Len(rows') /\ Len(rows) <= MaxRows
          /\ MaxRows \in Nat /\ Len(rows) \in Nat
      BY <1>1, ConstantsAssumption DEF TypeInv, RowsKept
    <3>2. PICK k \in 1 .. Len(rows) :
            /\ rows[k].clerk = p
            /\ \/ rows[k].owner /\ (kind = "read" \/ o = Platform)
               \/ Active(member[<<k, o>>]) /\ member[<<k, o>>].role \in Allowed[kind]
      BY <1>3, <3>1 DEF Entitled
    <3>3. k \in DOMAIN rows' /\ rows'[k].clerk = p /\ (rows[k].owner => rows'[k].owner)
      BY <1>2, <3>1, <3>2
    <3>4. <<k, o>> \in Rows \X Orgs /\ member \in [Rows \X Orgs -> MemberType]
      BY <1>1, <3>1 DEF Rows, TypeInv, RestType
    <3>5. new.role = "org_admin" /\ new.status = "ACTIVE"
      OBVIOUS
    <3> HIDE DEF new
    <3>6. member'[<<k, o>>] = new \/ member'[<<k, o>>] = member[<<k, o>>]
      BY <2>2, <3>4
    <3>7. Active(new) /\ new.role \in Allowed[kind]
      BY <3>5, ConstantsAssumption DEF Active, Allowed, Roles
    <3>8. QED
      BY <3>2, <3>3, <3>6, <3>7 DEF Entitled
  <2>3. QED
    BY <2>1, <2>2 DEF WriteOrganization
<1>4. QED
  BY <1>1, <1>3, RightParts DEF LossesNoted

CachesFine == /\ cache \in [Replicas -> CacheType]
              /\ \A r \in Replicas : CacheOK(r, cache[r]) /\ SignedIn(r)

LEMMA TimeGoesOn ==
  ASSUME TypeInv, [Next]_vars
  PROVE  now \in Nat /\ now' \in Nat /\ now <= now' /\ now' > 0
<1>1. now \in Nat /\ now > 0
  BY TimeFacts
<1>2. now' = now \/ now' = now + 1
  BY DEF Next, Request, StoreUser, Admit, AdmitMember, AdmitOwner, WriteMember,
         WriteOrganization, WriteSelection, WriteUpdate, WritePlan, Tick, vars
<1>3. QED
  BY <1>1, <1>2

LEMMA NothingLost ==
  ASSUME UNCHANGED <<rows, member, lost>>, NEW r
  PROVE  LossesNoted(r)
BY DEF LossesNoted

LEMMA EmptyOK ==
  ASSUME NEW r \in Replicas, now' \in Nat, cache'[r] = EmptyCaches
  PROVE  cache'[r] \in CacheType /\ CacheOK(r, cache[r])'
<1>1. EmptyCaches \in CacheType
  BY DEF EmptyCaches, CacheType, UserEntry, MemberEntry, ListEntry, ResolvedEntry, Resolvable
<1>2. ~(Stale.expires > now')
  BY DEF Stale
<1>3. /\ \A p \in Persons : cache'[r].users[p] = Stale /\ cache'[r].lists[p] = Stale
      /\ \A i \in Rows, o \in Orgs : cache'[r].members[<<i, o>>] = Stale
      /\ \A p \in Persons, q \in {None} \cup Orgs : cache'[r].resolved[<<p, q, "read">>] = Stale
  BY DEF EmptyCaches
<1>4. UsersOK(r, cache[r])'
  BY <1>2, <1>3 DEF UsersOK, Fresh
<1>5. MembersOK(r, cache[r])'
  BY <1>2, <1>3 DEF MembersOK, Fresh
<1>6. ListsOK(r, cache[r])'
  BY <1>2, <1>3 DEF ListsOK, Fresh
<1>7. ResolvedOK(r, cache[r])'
  BY <1>2, <1>3 DEF ResolvedOK, Fresh
<1>8. QED
  BY <1>1, <1>4, <1>5, <1>6, <1>7 DEF CacheOK

\* The caches of the replicas that do not take the step.
LEMMA OthersStay ==
  ASSUME AccessInv, [Next]_vars, NEW w \in Replicas, now' = now,
         \E k : call' = [call EXCEPT ![w] = k],
         \E d \in CacheType : cache' = [cache EXCEPT ![w] = d],
         \A r \in Replicas \ {w} : LossesNoted(r),
         CacheOK(w, cache[w])', SignedIn(w)'
  PROVE  CachesFine'
<1>1. PICK k : call' = [call EXCEPT ![w] = k]
  OBVIOUS
<1>2. PICK d \in CacheType : cache' = [cache EXCEPT ![w] = d]
  OBVIOUS
<1>3. /\ call \in [Replicas -> CallType(Len(rows))] /\ cache \in [Replicas -> CacheType]
      /\ TypeInv /\ RowInv /\ LostType
  BY DEF AccessInv, RowInv, TypeInv
<1>4. cache' \in [Replicas -> CacheType]
  BY <1>2, <1>3
<1>5. ASSUME NEW r \in Replicas PROVE CacheOK(r, cache[r])' /\ SignedIn(r)'
  <2>1. CASE r = w
    BY <2>1
  <2>2. CASE r # w
    <3>1. cache'[r] = cache[r] /\ call'[r] = call[r] /\ LossesNoted(r)
      BY <1>1, <1>2, <1>3, <2>2
    <3>2. CacheOK(r, cache[r]) /\ SignedIn(r)
      BY DEF AccessInv
    <3>3. RowsKept /\ now \in Nat /\ now' \in Nat /\ now <= now'
      BY <1>3, RowsStay, TimeGoesOn
    <3>4. PICK c \in CacheType : c = cache[r]
      BY <1>3
    <3>5. CacheOK(r, c) /\ cache'[r] = c
      BY <3>1, <3>2, <3>4
    <3>6. CacheOK(r, cache[r])'
      BY <1>3, <3>1, <3>3, <3>5, CacheStays
    <3>7. QED
      BY <3>1, <3>2, <3>6 DEF SignedIn, Fresh
  <2>3. QED
    BY <2>1, <2>2
<1>6. QED
  BY <1>4, <1>5 DEF CachesFine

\* A step that leaves the caches alone.
LEMMA CachesStay ==
  ASSUME AccessInv, [Next]_vars, UNCHANGED cache, \A r \in Replicas : LossesNoted(r),
         \A r \in Replicas : SignedIn(r)'
  PROVE  CachesFine'
<1>1. cache \in [Replicas -> CacheType] /\ TypeInv /\ RowInv /\ LostType
  BY DEF AccessInv, RowInv
<1>2. RowsKept /\ now \in Nat /\ now' \in Nat /\ now <= now'
  BY <1>1, RowsStay, TimeGoesOn
<1>3. ASSUME NEW r \in Replicas PROVE CacheOK(r, cache[r])'
  <2>1. CacheOK(r, cache[r])
    BY DEF AccessInv
  <2>2. PICK c \in CacheType : c = cache[r]
    BY <1>1
  <2>3. CacheOK(r, c) /\ cache'[r] = c
    BY <2>1, <2>2
  <2>4. QED
    BY <1>1, <1>2, <2>3, CacheStays
<1>4. QED
  BY <1>1, <1>3 DEF CachesFine

LEMMA RequestCaches ==
  ASSUME AccessInv, [Next]_vars, NEW w \in Replicas, NEW p \in Persons, NEW wish \in Wishes[p],
         NEW email \in Claims(p), Request(w, p, wish, email)
  PROVE  CachesFine' /\ LostType'
<1>1. UNCHANGED <<rows, member, lost, cache, now>> /\ TypeInv
  BY DEF Request, database, AccessInv, RowInv
<1>2. ASSUME NEW r \in Replicas PROVE SignedIn(r)'
  <2>1. CASE r # w
    <3>1. call'[r] = call[r]
      BY <2>1 DEF Request, Goto, AccessInv, RowInv, TypeInv
    <3>2. SignedIn(r)
      BY DEF AccessInv
    <3>3. QED
      BY <1>1, <3>1, <3>2 DEF SignedIn, Fresh
  <2>2. CASE r = w
    <3>1. call \in [Replicas -> CallType(Len(rows))]
      BY <1>1 DEF TypeInv
    <3>2. CASE Fresh(cache[w].users[p])
      <4>1. call'[w] = [pc |-> "admit", person |-> p, wish |-> wish]
        BY <3>1, <3>2 DEF Request, Goto
      <4>2. Fresh(cache[w].users[p])
        BY <1>1, <3>2
      <4>3. QED
        BY <1>1, <2>2, <4>1, <4>2 DEF SignedIn, Fresh
    <3>3. CASE ~Fresh(cache[w].users[p])
      <4>1. PICK i : call' = [call EXCEPT ![w] =
                       [pc |-> "store", person |-> p, wish |-> wish, email |-> email, row |-> i,
                        was |-> i # None /\ rows[i].owner, seen |-> Len(rows)]]
        BY <3>3 DEF Request, Goto
      <4>2. call'[w].pc = "store"
        BY <3>1, <4>1
      <4>3. QED
        BY <2>2, <4>2 DEF SignedIn
    <3>4. QED
      BY <3>2, <3>3
  <2>3. QED
    BY <2>1, <2>2
<1>3. CachesFine'
  BY <1>1, <1>2, NothingLost, CachesStay
<1>4. QED
  BY <1>1, <1>3 DEF LostType, AccessInv

LEMMA StoreUserCaches ==
  ASSUME AccessInv, [Next]_vars, NEW w \in Replicas, StoreUser(w)
  PROVE  CachesFine' /\ LostType'
<1> DEFINE c == call[w]
           p == c.person
           taken == \E i \in DOMAIN rows : rows[i].clerk = p /\ i # c.row
           row == [clerk |-> p,
                   email |-> IF c.email THEN p ELSE IF c.row = None THEN None ELSE rows[c.row].email,
                   owner |-> StaysOwner(c.was, p, c.email)]
           i == IF c.row = None THEN Len(rows) + 1 ELSE c.row
           u == [row |-> i, owner |-> row.owner, expires |-> Expiry]
           d == [cache[w] EXCEPT !.users = [cache[w].users EXCEPT ![p] = u]]
<1>1. /\ RowInv /\ TypeInv /\ LostType /\ cache \in [Replicas -> CacheType]
      /\ call \in [Replicas -> CallType(Len(rows))] /\ now' = now
  BY DEF AccessInv, RowInv, TypeInv, StoreUser
<1>2. LostType' /\ \A r \in Replicas : LossesNoted(r)
  BY <1>1, StoreUserLoses
<1>3. TypeInv'
  BY <1>1, TypeNext
<1>4. CASE taken
  <2>1. UNCHANGED cache /\ call' = [call EXCEPT ![w] = Idle]
    BY <1>4 DEF StoreUser, Goto
  <2>2. ASSUME NEW r \in Replicas PROVE SignedIn(r)'
    <3>1. CASE r = w
      BY <1>1, <2>1, <3>1 DEF SignedIn, Idle
    <3>2. CASE r # w
      <4>1. call'[r] = call[r] /\ cache'[r] = cache[r] /\ SignedIn(r)
        BY <1>1, <2>1, <3>2 DEF AccessInv
      <4>2. QED
        BY <1>1, <4>1 DEF SignedIn, Fresh
    <3>3. QED
      BY <3>1, <3>2
  <2>3. QED
    BY <1>2, <2>1, <2>2, CachesStay
<1>5. CASE ~taken
  <2>1. /\ i \in Rows
        /\ rows' = IF c.row = None THEN Append(rows, row) ELSE [rows EXCEPT ![i] = row]
        /\ cache' = [cache EXCEPT ![w].users[p] = u]
        /\ call' = [call EXCEPT ![w] = [pc |-> "admit", person |-> p, wish |-> c.wish]]
    BY <1>5 DEF StoreUser, Goto
  <2>2. cache' = [cache EXCEPT ![w] = d]
    BY <2>1
  <2>3. c \in StoreCall(Len(rows))
    BY <1>1, CallFields DEF StoreUser
  <2>4. p \in Persons /\ c.row \in (1 .. Len(rows)) \cup {None} /\ c.email \in BOOLEAN
    BY <2>3 DEF StoreCall
  <2>5. row.owner \in BOOLEAN
    BY <2>3 DEF StaysOwner, StoreCall
  <2>6. row.clerk = p
    OBVIOUS
  <2>7. now \in Nat /\ now > 0 /\ TTL \in Nat /\ TTL > 0 /\ Expiry \in Nat /\ Expiry > 0 /\ ~Fresh(Stale)
    BY <1>1, TimeFacts DEF Expiry
  <2> HIDE DEF row, taken
  <2>8. i \in 1 .. Len(rows') /\ rows'[i] = row
    <3>1. rows \in Seq(RowType) /\ Len(rows) \in Nat
      BY <1>1 DEF TypeInv
    <3>2. CASE c.row = None
      BY <2>1, <3>1, <3>2
    <3>3. CASE c.row # None
      BY <2>1, <2>4, <3>1, <3>3
    <3>4. QED
      BY <3>2, <3>3
  <2> HIDE DEF i
  <2>9. /\ u \in UserEntry /\ u.expires = now + TTL /\ u.expires > now
        /\ u.row = i /\ u.owner = row.owner
    <3>1. u \in UserEntry
      BY <2>1, <2>5, <2>7 DEF UserEntry
    <3>2. u.expires = now + TTL /\ u.row = i /\ u.owner = row.owner
      BY DEF Expiry
    <3> HIDE DEF u
    <3>3. QED
      BY <2>7, <3>1, <3>2
  <2> HIDE DEF u
  <2>10. cache[w] \in CacheType
    BY <1>1
  <2>11. PICK b \in CacheType : b = cache[w]
    BY <2>10
  <2>12. /\ d.users = [b.users EXCEPT ![p] = u]
         /\ d.members = b.members /\ d.lists = b.lists /\ d.resolved = b.resolved
    BY <2>11 DEF CacheType
  <2>13. d \in CacheType
    <3>1. [b.users EXCEPT ![p] = u] \in [Persons -> UserEntry]
      BY <2>9, <2>11 DEF CacheType
    <3>2. QED
      BY <2>11, <3>1 DEF CacheType
  <2> HIDE DEF d
  <2>14. cache'[w] = d
    BY <1>1, <2>2
  <2>15. CacheOK(w, b)
    BY <2>11 DEF AccessInv
  <2>16. RowsKept /\ now' \in Nat /\ now <= now'
    BY <1>1, <2>7, RowsStay
  <2>17. MembersOK(w, cache[w])'
    BY <1>1, <1>2, <2>7, <2>12, <2>14, <2>15, <2>16, MembersStay DEF CacheOK
  <2>18. ListsOK(w, cache[w])'
    BY <1>1, <1>2, <2>7, <2>12, <2>14, <2>15, <2>16, ListsStay DEF CacheOK
  <2>19. ResolvedOK(w, cache[w])'
    BY <1>1, <1>2, <2>7, <2>12, <2>14, <2>15, <2>16, ResolvedStay DEF CacheOK
  <2>20. UsersOK(w, cache[w])'
    <3>1. ASSUME NEW q \in Persons, d.users[q].expires > now'
          PROVE  GoodUserNext(w, d.users[q], q)
      <4>1. CASE q = p
        <5>1. d.users[q] = u
          BY <2>11, <2>12, <4>1 DEF CacheType
        <5>2. rows'[i].clerk = p /\ rows'[i].owner = row.owner
          BY <2>6, <2>8
        <5>3. ASSUME row.owner, NEW o \in Orgs, NEW kind \in {"read", "work"},
                     kind = "read" \/ o = Platform
              PROVE  Entitled(rows', member', p, o, kind)
          <6>1. DOMAIN rows' = 1 .. Len(rows')
            BY <1>3 DEF TypeInv
          <6>2. QED
            BY <2>8, <5>2, <5>3, <6>1 DEF Entitled
        <5>4. /\ u.row \in 1 .. Len(rows') /\ rows'[u.row].clerk = p
              /\ u.expires <= now' + TTL /\ (u.owner => rows'[u.row].owner)
          BY <1>1, <2>7, <2>8, <2>9, <5>2
        <5>5. \A o \in Orgs, kind \in {"read", "work"} : u.owner /\ (kind = "read" \/ o = Platform) =>
                DueNext(w, p, o, kind, u.expires - TTL)
          BY <2>9, <5>3 DEF DueNext
        <5>6. GoodUserNext(w, u, p)
          BY <5>4, <5>5 DEF GoodUserNext
        <5>7. QED
          BY <4>1, <5>1, <5>6
      <4>2. CASE q # p
        <5>1. d.users[q] = b.users[q]
          BY <2>12, <4>2, <2>11 DEF CacheType
        <5>2. b.users[q] \in UserEntry /\ Fresh(b.users[q])
          BY <1>1, <2>11, <3>1, <5>1 DEF CacheType, Fresh
        <5>3. GoodUser(w, b.users[q], q)
          BY <2>15, <5>2 DEF CacheOK, UsersOK
        <5>4. GoodUserNext(w, b.users[q], q)
          BY <1>1, <1>2, <2>7, <2>16, <5>2, <5>3, UserStays
        <5>5. QED
          BY <5>1, <5>4
      <4>3. QED
        BY <4>1, <4>2
    <3>2. QED
      BY <2>14, <3>1 DEF UsersOK, GoodUser, GoodUserNext, Fresh, Expiry, Due, DueNext
  <2>21. CacheOK(w, cache[w])'
    BY <2>17, <2>18, <2>19, <2>20 DEF CacheOK
  <2>22. SignedIn(w)'
    <3>1. call'[w] = [pc |-> "admit", person |-> p, wish |-> c.wish]
      BY <1>1, <2>1
    <3>2. call'[w].person = p
      BY <3>1
    <3>3. d.users[p] = u
      BY <2>4, <2>11, <2>12 DEF CacheType
    <3>4. QED
      BY <1>1, <2>9, <2>14, <3>2, <3>3 DEF SignedIn, Fresh
  <2>23. QED
    BY <1>1, <1>2, <2>1, <2>2, <2>13, <2>21, <2>22, OthersStay
<1>6. QED
  BY <1>4, <1>5

\* The wish of a request that is to be admitted.
LEMMA AdmitFields ==
  ASSUME AccessInv, NEW w \in Replicas, call[w].pc = "admit"
  PROVE  /\ call[w].person \in Persons /\ call[w].wish \in AllWishes
         /\ cache[w] \in CacheType /\ CacheOK(w, cache[w])
         /\ Fresh(cache[w].users[call[w].person])
<1>1. TypeInv
  BY DEF AccessInv, RowInv
<1>2. call[w] \in AdmitCall
  BY <1>1, CallFields
<1>3. QED
  BY <1>2 DEF AccessInv, AdmitCall, SignedIn

\* A replica that has looked something up.
LEMMA LookedUp ==
  ASSUME AccessInv, [Next]_vars, NEW w \in Replicas, UNCHANGED <<rows, member, lost, now>>,
         NEW d \in CacheType, CacheOK(w, d), cache' = [cache EXCEPT ![w] = d],
         NEW k, call' = [call EXCEPT ![w] = k], k.pc # "admit"
  PROVE  CachesFine' /\ LostType'
<1>1. /\ TypeInv /\ RowInv /\ LostType /\ cache \in [Replicas -> CacheType]
      /\ call \in [Replicas -> CallType(Len(rows))]
  BY DEF AccessInv, RowInv, TypeInv
<1>2. \A r \in Replicas : LossesNoted(r)
  BY NothingLost
<1>3. cache'[w] = d /\ call'[w] = k
  BY <1>1
<1>4. RowsKept /\ now \in Nat /\ now' \in Nat /\ now <= now'
  BY <1>1, RowsStay, TimeGoesOn
<1>5. CacheOK(w, cache[w])'
  BY <1>1, <1>2, <1>3, <1>4, CacheStays
<1>6. SignedIn(w)'
  BY <1>3 DEF SignedIn
<1>7. CachesFine'
  BY <1>2, <1>5, <1>6, OthersStay
<1>8. QED
  BY <1>1, <1>7 DEF LostType

LEMMA AdmitMemberCaches ==
  ASSUME AccessInv, [Next]_vars, NEW w \in Replicas, AdmitMember(w)
  PROVE  CachesFine' /\ LostType'
<1> DEFINE p == call[w].person
           wish == call[w].wish
           d == AfterOrgRole(cache[w], p, wish.org)
<1>1. /\ call[w].pc = "admit" /\ wish.kind = "member" /\ UNCHANGED <<rows, member, lost, now>>
      /\ cache' = [cache EXCEPT ![w] = d]
  BY DEF AdmitMember, database, history
<1>2. /\ p \in Persons /\ wish \in AllWishes /\ cache[w] \in CacheType
      /\ CacheOK(w, cache[w]) /\ Fresh(cache[w].users[p])
  BY <1>1, AdmitFields
<1>3. wish.org \in Orgs
  BY <1>1, <1>2, WishFields
<1>4. TypeInv /\ LostType
  BY DEF AccessInv, RowInv
<1>5. d \in CacheType /\ CacheOK(w, d)
  BY <1>2, <1>3, <1>4, RoleLookups
<1>6. \E k : call' = [call EXCEPT ![w] = k] /\ k.pc # "admit"
  <2>1. CASE HasOrgRole(cache[w], p, wish.org, "admin") /\ wish.org <= orgs
    <3>1. PICK i : Goto(w, [pc |-> "write", wish |-> wish, row |-> i, seen |-> Len(rows)])
      BY <2>1 DEF AdmitMember
    <3> DEFINE k == [pc |-> "write", wish |-> wish, row |-> i, seen |-> Len(rows)]
    <3>2. call' = [call EXCEPT ![w] = k] /\ k.pc # "admit"
      BY <3>1 DEF Goto
    <3> HIDE DEF k
    <3>3. QED
      BY <3>2
  <2>2. CASE ~(HasOrgRole(cache[w], p, wish.org, "admin") /\ wish.org <= orgs)
    <3>1. call' = [call EXCEPT ![w] = Idle] /\ Idle.pc # "admit"
      BY <2>2 DEF AdmitMember, Goto, Idle
    <3>2. QED
      BY <3>1
  <2>3. QED
    BY <2>1, <2>2
<1> HIDE DEF d
<1>7. QED
  BY <1>1, <1>5, <1>6, LookedUp

\* What an admitted request is noted with.
LEMMA NoteBounded ==
  ASSUME TypeInv, LostType, NEW w \in Replicas, NEW p \in Persons, NEW o \in Orgs,
         NEW kind \in {"read", "work"}, Note(w, p, o, kind),
         Due(w, p, o, kind, IF kind = "work" THEN now - TTL + 1 ELSE now - 2 * TTL + 1 - Slack(p))
  PROVE  StaleAccessIsBounded'
<1> DEFINE x == <<p, o, kind>>
           e == Entitled(rows, member, p, o, kind)
           since == IF kind = "work" THEN now - TTL + 1 ELSE now - 2 * TTL + 1 - Slack(p)
<1>1. now \in Nat /\ TTL \in Nat
  BY TimeFacts
<1>2. lost[x].at \in Int
  BY DEF LostType, Rights
<1>3. e \/ (lost[x].at >= since /\ lost[x].by # w)
  BY DEF Due
<1>4. /\ admitted'.kind = kind /\ admitted'.entitled = e
      /\ admitted'.age = now - lost[x].at /\ admitted'.here = (lost[x].by = w)
      /\ admitted'.demoted = (p \in demoted)
  BY DEF Note
<1> HIDE DEF x, e
<1>5. ASSUME ~e
      PROVE  lost[x].by # w /\ now - lost[x].at < IF kind = "work" THEN TTL
                                           ELSE IF p \in demoted THEN 3 * TTL ELSE 2 * TTL
  BY <1>1, <1>2, <1>3, <1>5 DEF Slack
<1>6. QED
  BY <1>4, <1>5 DEF StaleAccessIsBounded

LEMMA AdmitCaches ==
  ASSUME AccessInv, [Next]_vars, NEW w \in Replicas, Admit(w)
  PROVE  CachesFine' /\ LostType' /\ StaleAccessIsBounded'
<1> DEFINE p == call[w].person
           wish == call[w].wish
           kind == wish.kind
           c == cache[w]
           org == Resolve(c, p, wish.org, kind)
           after == AfterResolve(c, p, wish.org, kind)
           worked == AfterMemberRole(after, p, org)
<1>1. /\ call[w].pc = "admit" /\ kind \in {"read", "work"}
      /\ UNCHANGED <<rows, member, lost, now>> /\ call' = [call EXCEPT ![w] = Idle]
  BY DEF Admit, database, Goto
<1>2. /\ p \in Persons /\ wish \in AllWishes /\ c \in CacheType
      /\ CacheOK(w, c) /\ Fresh(c.users[p])
  BY <1>1, AdmitFields
<1>3. wish.org \in {None} \cup Orgs
  BY <1>1, <1>2, WishFields
<1>4. TypeInv /\ LostType /\ StaleAccessIsBounded
  BY DEF AccessInv, RowInv
<1>5. /\ org \in Orgs \cup {None}
      /\ kind = "read" /\ org # None => Due(w, p, org, kind, now - 2 * TTL + 1 - Slack(p))
  BY <1>1, <1>2, <1>3, <1>4, ResolveDue
<1>6. after \in CacheType /\ CacheOK(w, after) /\ after.users = c.users
  BY <1>1, <1>2, <1>3, <1>4, AfterResolveOK
<1>7. org # None => worked \in CacheType /\ CacheOK(w, worked)
  BY <1>2, <1>4, <1>5, <1>6, RoleLookups
<1>8. org # None /\ HasMemberRole(after, p, org, kind) /\ kind = "work" =>
        Due(w, p, org, kind, now - TTL + 1)
  BY <1>2, <1>4, <1>5, <1>6, MemberRoleDue
<1>9. \/ admitted' = admitted
      \/ /\ org # None /\ Note(w, p, org, kind)
         /\ kind = "read" \/ HasMemberRole(after, p, org, kind)
  BY DEF Admit
<1>10. \E d \in CacheType : CacheOK(w, d) /\ cache' = [cache EXCEPT ![w] = d]
  <2>1. CASE org = None
    <3>1. cache' = [cache EXCEPT ![w] = after]
      BY <2>1 DEF Admit
    <3>2. QED
      BY <1>6, <3>1
  <2>2. CASE org # None /\ kind = "read"
    <3>1. cache' = [cache EXCEPT ![w] = after]
      BY <2>2 DEF Admit
    <3>2. QED
      BY <1>6, <3>1
  <2>3. CASE org # None /\ kind # "read"
    <3>1. cache' = [cache EXCEPT ![w] = worked]
      BY <2>3 DEF Admit
    <3>2. QED
      BY <1>7, <2>3, <3>1
  <2>4. QED
    BY <2>1, <2>2, <2>3
<1>11. Idle.pc # "admit"
  BY DEF Idle
<1>12. CachesFine' /\ LostType'
  BY <1>1, <1>10, <1>11, LookedUp
<1> HIDE DEF org, after, worked
<1>13. StaleAccessIsBounded'
  <2>1. CASE admitted' = admitted
    BY <1>4, <2>1 DEF StaleAccessIsBounded
  <2>2. CASE /\ org # None /\ Note(w, p, org, kind)
             /\ kind = "read" \/ HasMemberRole(after, p, org, kind)
    <3>1. Due(w, p, org, kind, IF kind = "work" THEN now - TTL + 1 ELSE now - 2 * TTL + 1 - Slack(p))
      BY <1>1, <1>5, <1>8, <2>2
    <3>2. org \in Orgs
      BY <1>5, <2>2
    <3> HIDE DEF p, kind
    <3>3. QED
      BY <1>1, <1>2, <1>4, <2>2, <3>1, <3>2, NoteBounded
  <2>3. QED
    BY <1>9, <2>1, <2>2
<1>14. QED
  BY <1>12, <1>13

\* A write ends with empty caches, or changes nothing.
LEMMA WriteCaches ==
  ASSUME AccessInv, [Next]_vars, NEW w \in Replicas, call' = [call EXCEPT ![w] = Idle],
         now' = now,
         \A r \in Replicas \ {w} : LossesNoted(r),
         \/ cache' = [cache EXCEPT ![w] = EmptyCaches]
         \/ UNCHANGED cache /\ LossesNoted(w)
  PROVE  CachesFine'
<1>1. /\ cache \in [Replicas -> CacheType] /\ call \in [Replicas -> CallType(Len(rows))]
      /\ TypeInv
  BY DEF AccessInv, RowInv, TypeInv
<1>2. SignedIn(w)'
  BY <1>1 DEF SignedIn, Idle
<1>3. CASE cache' = [cache EXCEPT ![w] = EmptyCaches]
  <2>1. cache'[w] = EmptyCaches /\ now' \in Nat
    BY <1>1, <1>3, TimeGoesOn
  <2>2. EmptyCaches \in CacheType /\ CacheOK(w, cache[w])'
    BY <2>1, EmptyOK
  <2>3. QED
    BY <1>2, <1>3, <2>2, OthersStay
<1>4. CASE UNCHANGED cache /\ LossesNoted(w)
  <2>1. ASSUME NEW r \in Replicas PROVE SignedIn(r)'
    <3>1. CASE r = w
      BY <1>2, <3>1
    <3>2. CASE r # w
      <4>1. call'[r] = call[r] /\ cache'[r] = cache[r] /\ SignedIn(r)
        BY <1>1, <1>4, <3>2 DEF AccessInv
      <4>2. QED
        BY <4>1 DEF SignedIn, Fresh
    <3>3. QED
      BY <3>1, <3>2
  <2>2. QED
    BY <1>4, <2>1, CachesStay
<1>5. QED
  BY <1>3, <1>4

LEMMA WritersCaches ==
  ASSUME AccessInv, [Next]_vars, NEW w \in Replicas,
         \/ WriteMember(w) \/ WriteOrganization(w)
         \/ WriteSelection(w) \/ WriteUpdate(w) \/ WritePlan(w)
  PROVE  CachesFine' /\ LostType'
<1>1. RowInv /\ LostType
  BY DEF AccessInv
<1>2. CASE WriteMember(w)
  <2>1. /\ LostType'
        /\ \A r \in Replicas \ {w} : LossesNoted(r)
        /\ call' = [call EXCEPT ![w] = Idle]
        /\ \/ cache' = [cache EXCEPT ![w] = EmptyCaches]
           \/ UNCHANGED cache /\ LossesNoted(w)
    BY <1>1, <1>2, WriteMemberLoses
  <2>2. QED
    BY <1>2, <2>1, WriteCaches DEF WriteMember
<1>3. CASE WriteOrganization(w)
  <2>1. UNCHANGED lost /\ \A r \in Replicas : LossesNoted(r)
    BY <1>1, <1>3, WriteOrganizationLoses DEF WriteOrganization
  <2>2. /\ call' = [call EXCEPT ![w] = Idle]
        /\ UNCHANGED cache \/ cache' = [cache EXCEPT ![w] = EmptyCaches]
    BY <1>3 DEF WriteOrganization, Written, Goto, Cleared
  <2>3. now' = now
    BY <1>3 DEF WriteOrganization
  <2>4. QED
    BY <1>1, <2>1, <2>2, <2>3, WriteCaches DEF LostType
<1>4. CASE WriteSelection(w) \/ WriteUpdate(w) \/ WritePlan(w)
  <2>1. UNCHANGED <<rows, member, lost>>
    BY <1>4 DEF WriteSelection, WriteUpdate, WritePlan, history
  <2>2. \A r \in Replicas : LossesNoted(r)
    BY <2>1, NothingLost
  <2>3. /\ call' = [call EXCEPT ![w] = Idle]
        /\ UNCHANGED cache \/ cache' = [cache EXCEPT ![w] = EmptyCaches]
    BY <1>4 DEF WriteSelection, WriteUpdate, WritePlan, Written, Goto, Cleared
  <2>4. now' = now
    BY <1>4 DEF WriteSelection, WriteUpdate, WritePlan
  <2>5. QED
    BY <1>1, <2>1, <2>2, <2>3, <2>4, WriteCaches DEF LostType
<1>5. QED
  BY <1>2, <1>3, <1>4

LEMMA AdmitOwnerCaches ==
  ASSUME AccessInv, [Next]_vars, NEW w \in Replicas, AdmitOwner(w)
  PROVE  CachesFine' /\ LostType'
<1>1. /\ UNCHANGED <<rows, member, lost, cache, now>> /\ RowInv /\ LostType
      /\ call \in [Replicas -> CallType(Len(rows))]
  BY DEF AdmitOwner, database, history, AccessInv, RowInv, TypeInv
<1>2. \E k : call' = [call EXCEPT ![w] = k] /\ k.pc # "admit"
  <2> DEFINE wish == call[w].wish
             K == {Idle, [pc |-> "write", wish |-> wish, read |-> sub[wish.org]],
                   [pc |-> "write", wish |-> wish]}
                  \cup {[pc |-> "write", wish |-> wish, row |-> i, seen |-> Len(rows)] :
                          i \in {None} \cup RowsOf(wish.whose)}
  <2>1. \E k \in K : Goto(w, k)
    BY DEF AdmitOwner
  <2>2. \A k \in K : k.pc # "admit"
    BY DEF Idle
  <2> HIDE DEF K
  <2>3. QED
    BY <2>1, <2>2 DEF Goto
<1>3. PICK k : call' = [call EXCEPT ![w] = k] /\ k.pc # "admit"
  BY <1>2
<1>4. ASSUME NEW r \in Replicas PROVE SignedIn(r)'
  <2>1. CASE r = w
    BY <1>1, <1>3, <2>1 DEF SignedIn
  <2>2. CASE r # w
    <3>1. call'[r] = call[r] /\ cache'[r] = cache[r] /\ SignedIn(r)
      BY <1>1, <1>3, <2>2 DEF AccessInv
    <3>2. QED
      BY <1>1, <3>1 DEF SignedIn, Fresh
  <2>3. QED
    BY <2>1, <2>2
<1>5. CachesFine'
  BY <1>1, <1>4, NothingLost, CachesStay
<1>6. QED
  BY <1>1, <1>5 DEF LostType

LEMMA QuietCaches ==
  ASSUME AccessInv, [Next]_vars, Tick \/ UNCHANGED vars
  PROVE  CachesFine' /\ LostType'
<1>1. UNCHANGED <<rows, member, lost, cache, call>> /\ LostType
  BY DEF Tick, database, history, vars, AccessInv
<1>2. ASSUME NEW r \in Replicas PROVE SignedIn(r)'
  <2>1. call'[r] = call[r] /\ cache'[r] = cache[r] /\ SignedIn(r)
    BY <1>1 DEF AccessInv
  <2>2. CASE Tick
    BY <2>1, <2>2 DEF SignedIn, Tick, Idle
  <2>3. CASE UNCHANGED vars
    BY <2>1, <2>3 DEF SignedIn, Fresh, vars
  <2>4. QED
    BY <2>2, <2>3
<1>3. CachesFine'
  BY <1>1, <1>2, NothingLost, CachesStay
<1>4. QED
  BY <1>1, <1>3 DEF LostType

LEMMA AccessNext == AccessInv /\ [Next]_vars => AccessInv'
<1> SUFFICES ASSUME AccessInv, [Next]_vars PROVE AccessInv'
  OBVIOUS
<1>1. RowInv'
  BY RowNext DEF AccessInv
<1>2. CachesFine' /\ LostType' /\ StaleAccessIsBounded'
  <2>1. ASSUME NEW w \in Replicas, Admit(w)
        PROVE  CachesFine' /\ LostType' /\ StaleAccessIsBounded'
    BY <2>1, AdmitCaches
  <2>2. ASSUME UNCHANGED admitted PROVE StaleAccessIsBounded'
    BY <2>2 DEF AccessInv, StaleAccessIsBounded
  <2>3. CASE \E r \in Replicas, p \in Persons : \E wish \in Wishes[p], email \in Claims(p) :
               Request(r, p, wish, email)
    <3>1. UNCHANGED admitted
      BY <2>3 DEF Request
    <3>2. CachesFine' /\ LostType'
      BY <2>3, RequestCaches
    <3>3. QED
      BY <2>2, <3>1, <3>2
  <2>4. CASE \E r \in Replicas : StoreUser(r)
    BY <2>2, <2>4, StoreUserCaches DEF StoreUser
  <2>5. CASE \E r \in Replicas : AdmitMember(r)
    BY <2>2, <2>5, AdmitMemberCaches DEF AdmitMember, history
  <2>6. CASE \E r \in Replicas : AdmitOwner(r)
    BY <2>2, <2>6, AdmitOwnerCaches DEF AdmitOwner, history
  <2>7. CASE \E r \in Replicas :
               \/ WriteMember(r) \/ WriteOrganization(r)
               \/ WriteSelection(r) \/ WriteUpdate(r) \/ WritePlan(r)
    <3>1. UNCHANGED admitted
      BY <2>7 DEF WriteMember, WriteOrganization, WriteSelection, WriteUpdate, WritePlan,
                  history
    <3>2. QED
      BY <2>2, <2>7, <3>1, WritersCaches
  <2>8. CASE Tick \/ UNCHANGED vars
    <3>1. UNCHANGED admitted
      BY <2>8 DEF Tick, history, vars
    <3>2. QED
      BY <2>2, <2>8, <3>1, QuietCaches
  <2>9. QED
    BY <2>1, <2>3, <2>4, <2>5, <2>6, <2>7, <2>8 DEF Next
<1>3. QED
  BY <1>1, <1>2 DEF AccessInv, CachesFine

LEMMA AccessInit == Init => AccessInv
<1> SUFFICES ASSUME Init PROVE AccessInv
  OBVIOUS
<1>1. RowInv /\ TypeInv /\ now = 1
  BY RowInit DEF RowInv, Init
<1>2. LostType
  <2>1. [at |-> 0 - 2 * TTL, by |-> None] \in [at: Int, by: Replicas \cup {None}]
    BY ConstantsAssumption
  <2>2. QED
    BY <2>1 DEF LostType, Init
<1>3. EmptyCaches \in CacheType
  BY DEF EmptyCaches, CacheType, UserEntry, MemberEntry, ListEntry, ResolvedEntry, Resolvable
<1>4. ASSUME NEW r \in Replicas PROVE CacheOK(r, cache[r]) /\ SignedIn(r)
  <2>1. cache[r] = EmptyCaches /\ call[r] = Idle /\ ~Fresh(Stale)
    BY <1>1, TimeFacts DEF Init
  <2>2. /\ \A p \in Persons : cache[r].users[p] = Stale /\ cache[r].lists[p] = Stale
        /\ \A i \in Rows, o \in Orgs : cache[r].members[<<i, o>>] = Stale
        /\ \A p \in Persons, q \in {None} \cup Orgs : cache[r].resolved[<<p, q, "read">>] = Stale
    BY <2>1 DEF EmptyCaches
  <2>3. UsersOK(r, cache[r]) /\ MembersOK(r, cache[r]) /\ ListsOK(r, cache[r])
    BY <2>1, <2>2 DEF UsersOK, MembersOK, ListsOK
  <2>4. ResolvedOK(r, cache[r])
    BY <2>1, <2>2 DEF ResolvedOK
  <2>5. SignedIn(r)
    BY <2>1 DEF SignedIn, Idle
  <2>6. QED
    BY <2>3, <2>4, <2>5 DEF CacheOK
<1>5. cache \in [Replicas -> CacheType]
  BY <1>3 DEF Init
<1>6. StaleAccessIsBounded
  <2>1. admitted.kind = None
    BY DEF Init
  <2>2. QED
    BY <2>1 DEF StaleAccessIsBounded
<1>7. QED
  BY <1>1, <1>2, <1>4, <1>5, <1>6 DEF AccessInv

\* A right that was taken away opens nothing any longer on the replica that took it,
\* and on the others for less than the lifetime of one cache entry, or of two where a
\* cached role decides and the decision is cached in turn, or of three for an owner whom
\* a sign-in has made less of, since the list such a person saw is cached as well
\* (resolve_current_organization, require_org_member_role, upsert_app_user, the clearing
\* of the caches after every write).
THEOREM StaleAccessEnds == Spec => []StaleAccessIsBounded
<1>1. AccessInv => StaleAccessIsBounded
  BY DEF AccessInv
<1>2. QED
  BY <1>1, AccessInit, AccessNext, PTL DEF Spec
=============================================================================
