------------------------------ MODULE Tenancy ------------------------------
(***************************************************************************)
(* Users, memberships, subscriptions and the short-lived caches in front   *)
(* of them (services/tenant_service.py, utils/auth.py, main.py).           *)
(*                                                                         *)
(* A handler never gives up its event loop, so a replica serves one        *)
(* request at a time.  Handlers of different replicas interleave: what one *)
(* has read from the database may be out of date when it writes, and the   *)
(* caches of a replica are cleared by its own writes only.                 *)
(***************************************************************************)
EXTENDS Integers, FiniteSets, Sequences, Functions

CONSTANTS
  Replicas,
  Persons,      \* who signs in; a person has one email address
  Owners,       \* persons whose address is among the platform owners
  Plans,        \* subscription plans
  TrialDays,    \* length of the trial of a plan, 0 if it has none
  DefaultTrial, \* length of a trial that an update starts on a plan that has none
  TTL,          \* tenant_cache_ttl_seconds: the caches are on
  Invitee,      \* who was invited before the first request
  Wishes,       \* what a person may ask for
  None,         \* no person, no plan, no value
  Same,         \* a value that an update does not name
  MaxTime,      \* bound: time
  MaxRows,      \* bound: rows of app_users
  MaxOrgs,      \* bound: organizations
  MaxAsked,     \* bound: requests of a person
  MaxRequests   \* bound: requests of all

Platform == 1
Orgs == 1 .. MaxOrgs
Rows == 1 .. MaxRows

Roles == {"org_admin", "sales_user", "viewer"}

\* The roles a kind of request asks for.
Allowed == [read |-> Roles, work |-> {"org_admin", "sales_user"}, admin |-> {"org_admin"}]

\* What a request may ask for.
AllWishes ==
  [kind: {"read", "work"}, org: {None} \cup Orgs]
  \cup [kind: {"member"}, org: Orgs, whose: Persons, role: {"sales_user", "viewer"},
        status: {"ACTIVE", "DISABLED"}]
  \cup [kind: {"organization"}, whose: {None} \cup Persons]
  \cup [kind: {"select"}, org: Orgs, plan: Plans]
  \cup [kind: {"update"}, org: Orgs, plan: {None} \cup Plans,
        status: {None, "ACTIVE", "CANCELED", "TRIALING"}, ends: {Same, None} \cup Nat]
  \cup [kind: {"offer"}, plan: Plans]

ASSUME ConstantsAssumption ==
  /\ Owners \subseteq Persons /\ Invitee \in Persons \ Owners
  /\ TrialDays \in [Plans -> Nat] /\ DefaultTrial \in Nat
  /\ None \notin Replicas \cup Persons \cup Plans /\ None \notin Roles /\ None \notin Nat
  /\ Same # None /\ Same \notin Nat
  /\ Wishes \in [Persons -> SUBSET AllWishes]
  /\ MaxAsked \in [Persons -> Nat] /\ MaxRequests \in Nat
  /\ {TTL, MaxTime} \subseteq Nat \ {0}
  /\ MaxRows \in Nat /\ MaxRows > 1 /\ MaxOrgs \in Nat \ {0}

VARIABLES
  rows,      \* app_users
  member,    \* organization_users: role of a row in an organization, and status
  orgs,      \* number of organizations
  sub,       \* organization_subscriptions
  offered,   \* plans that are active
  cache,     \* per replica: users, memberships, lists and resolved organizations
  call,      \* the request each replica serves
  now,
  lost,      \* history: when and where a person last lost a right
  admitted,  \* history: how the last admitted request stood to the database
  bare,      \* history: persons whose row was looked up without their address
  raced,     \* history: persons whose row was looked up before another was stored
  demoted,   \* history: owners whom a sign-in has made less of
  requests   \* requests of each person so far

vars == <<rows, member, orgs, sub, offered, cache, call, now, lost, admitted, bare,
          raced, demoted, requests>>
database == <<rows, member, orgs, sub, offered>>
history == <<lost, admitted, bare, raced, demoted>>

Idle == [pc |-> "idle"]

NoMember == [role |-> None, status |-> "DISABLED"]

-----------------------------------------------------------------------------
(* Rows and rights.                                                        *)

\* The rows a sign-in may be given: the one of the person, or one with the
\* address, if the claims carry it.
Find(p, email) ==
  LET own == {i \in DOMAIN rows : rows[i].clerk = p}
      same == {i \in DOMAIN rows : rows[i].email = p}
  IN IF own # {} THEN own ELSE IF email THEN same ELSE {}

\* Mutant: a row is looked up by the identity only.
FoundRows_ByIdentity(p, email) == {i \in DOMAIN rows : rows[i].clerk = p}

FoundRows(p, email) == Find(p, email)

\* Mutant: the role follows the claims of each sign-in.
StaysOwner_ByClaims(was, p, email) == email /\ p \in Owners

StaysOwner(was, p, email) == was \/ (email /\ p \in Owners)

Active(m) == m.role # None /\ m.status = "ACTIVE"

RoleIn(i, o) == IF Active(member[<<i, o>>]) THEN member[<<i, o>>].role ELSE None

\* A person really has a right, whatever caches say.
Entitled(rs, mem, p, o, kind) ==
  \E i \in DOMAIN rs : /\ rs[i].clerk = p
                       /\ \/ rs[i].owner /\ (kind = "read" \/ o = Platform)
                          \/ Active(mem[<<i, o>>]) /\ mem[<<i, o>>].role \in Allowed[kind]

Rights == Persons \X Orgs \X {"read", "work"}

\* Notes which rights are taken away, and by which replica if it clears its caches.
Lose(by, rs, mem) ==
  lost' = [x \in Rights |->
    IF Entitled(rows, member, x[1], x[2], x[3]) /\ ~Entitled(rs, mem, x[1], x[2], x[3])
    THEN [at |-> now, by |-> by] ELSE lost[x]]

-----------------------------------------------------------------------------
(* Subscriptions.                                                          *)

NoSubscription == [status |-> "NONE", plan |-> None, ends |-> None]

\* A trial is over when its end has passed; nothing else ends by time.
IsActive(s, t) == \/ s.status = "ACTIVE"
                  \/ s.status = "TRIALING" /\ ~(s.ends # None /\ s.ends < t)

SelectedPlan(plan) ==
  [status |-> IF TrialDays[plan] > 0 THEN "TRIALING" ELSE "ACTIVE",
   plan |-> plan,
   ends |-> IF TrialDays[plan] > 0 THEN now + TrialDays[plan] ELSE None]

\* Mutant: an update without a status makes the subscription active.
NextStatus_Active(current, status) == IF status # None THEN status ELSE "ACTIVE"

NextStatus(current, status) == IF status # None THEN status ELSE current.status

\* An update that makes a trial of a plan without one gives it the default length.
TrialEnd(plan) == now + (IF TrialDays[plan] > 0 THEN TrialDays[plan] ELSE DefaultTrial)

\* Mutant: an update that names no plan forgets the one of the subscription.
UpdatedSubscription_ForgetsPlan(current, wish) ==
  [status |-> NextStatus(current, wish.status), plan |-> wish.plan, ends |-> current.ends]

\* What an update makes of the subscription it has read: what it does not name stays,
\* and a trial that would be without end gets one.
UpdatedSubscription(current, wish) ==
  LET next == NextStatus(current, wish.status)
      chosen == IF wish.plan # None THEN wish.plan ELSE current.plan
      named == IF wish.ends = Same THEN current.ends ELSE wish.ends
  IN [status |-> next, plan |-> chosen,
      ends |-> IF next = "TRIALING" /\ named = None THEN TrialEnd(chosen) ELSE named]

-----------------------------------------------------------------------------
(* Caches.  An entry is used while it expires later than now.              *)

Expiry == now + TTL

Fresh(entry) == entry.expires > now

Stale == [expires |-> 0]

EmptyCaches == [users |-> [p \in Persons |-> Stale],
                members |-> [x \in Rows \X Orgs |-> Stale],
                lists |-> [p \in Persons |-> Stale],
                resolved |-> [x \in Persons \X ({None} \cup Orgs) \X {"read", "work"} |-> Stale]]

\* Mutant: a write leaves the resolved organizations alone.
Cleared_NotResolved(c) == [EmptyCaches EXCEPT !.resolved = c.resolved]

Cleared(c) == EmptyCaches

User(c, p) == c.users[p]

\* The role of a row in an organization as a replica sees it; only a membership
\* that exists is cached.
RoleSeen(c, i, o) == IF Fresh(c.members[<<i, o>>]) THEN c.members[<<i, o>>].role ELSE RoleIn(i, o)

AfterMember(c, i, o) ==
  IF Fresh(c.members[<<i, o>>]) \/ RoleIn(i, o) = None THEN c
  ELSE [c EXCEPT !.members[<<i, o>>] = [role |-> RoleIn(i, o), expires |-> Expiry]]

\* require_org_role: owners of the platform may enter everywhere.
HasOrgRole(c, p, o, kind) ==
  User(c, p).owner \/ RoleSeen(c, User(c, p).row, o) \in Allowed[kind]

AfterOrgRole(c, p, o) == IF User(c, p).owner THEN c ELSE AfterMember(c, User(c, p).row, o)

\* require_org_member_role: owners need a membership outside the platform.
HasMemberRole(c, p, o, kind) ==
  (User(c, p).owner /\ o = Platform) \/ RoleSeen(c, User(c, p).row, o) \in Allowed[kind]

AfterMemberRole(c, p, o) ==
  IF User(c, p).owner /\ o = Platform THEN c ELSE AfterMember(c, User(c, p).row, o)

\* The newest organization of the list a person sees; an empty list is cached too.
Newest(S) == IF S = {} THEN None ELSE CHOOSE o \in S : \A n \in S : n <= o

Listed(c, p) ==
  IF Fresh(c.lists[p]) THEN c.lists[p].org
  ELSE Newest({o \in 1 .. orgs : User(c, p).owner \/ RoleIn(User(c, p).row, o) # None})

AfterList(c, p) ==
  IF Fresh(c.lists[p]) THEN c
  ELSE [c EXCEPT !.lists[p] = [org |-> Listed(c, p), expires |-> Expiry]]

\* The organization of a request: the one it names, if the role fits, or the
\* newest of the list, whatever the role there.
Resolve(c, p, requested, kind) ==
  IF Fresh(c.resolved[<<p, requested, kind>>]) THEN c.resolved[<<p, requested, kind>>].org
  ELSE IF requested # None
       THEN IF HasOrgRole(c, p, requested, kind) THEN requested ELSE None
       ELSE Listed(c, p)

AfterResolve(c, p, requested, kind) ==
  LET org == Resolve(c, p, requested, kind)
      looked == IF requested # None THEN AfterOrgRole(c, p, requested) ELSE AfterList(c, p)
  IN IF Fresh(c.resolved[<<p, requested, kind>>]) THEN c
     ELSE IF org = None THEN looked
     ELSE [looked EXCEPT !.resolved[<<p, requested, kind>>] = [org |-> org, expires |-> Expiry]]

-----------------------------------------------------------------------------
(* A request: the person is looked up, the row stored, the request admitted *)
(* and, if it is one, the change written.                                   *)

Goto(r, c) == call' = [call EXCEPT ![r] = c]

\* What the sign-in service says about a person: with or without an address, as
\* its profile is in the token, cached, fetched, refused or skipped by the circuit.
Claims(p) == {TRUE, FALSE}

\* The user is taken from the cache or looked up in the database.
Request(r, p, wish, email) ==
  /\ call[r] = Idle
  /\ requests[p] < MaxAsked[p]
  /\ SumFunction(requests) < MaxRequests
  /\ requests' = [requests EXCEPT ![p] = @ + 1]
  /\ IF Fresh(cache[r].users[p])
     THEN Goto(r, [pc |-> "admit", person |-> p, wish |-> wish]) /\ UNCHANGED bare
     ELSE /\ \E i \in IF FoundRows(p, email) = {} THEN {None} ELSE FoundRows(p, email) :
               Goto(r, [pc |-> "store", person |-> p, wish |-> wish, email |-> email, row |-> i,
                       was |-> i # None /\ rows[i].owner, seen |-> Len(rows)])
          /\ bare' = IF email THEN bare ELSE bare \cup {p}
  /\ UNCHANGED <<database, cache, now, lost, admitted, raced, demoted>>

\* The row is updated, or inserted; an identity that exists by now is an error.  What
\* the row says of the owner follows from what the lookup has read, not from what it
\* says by now; no cache is cleared.
StoreUser(r) ==
  LET c == call[r]
      p == c.person
      taken == \E i \in DOMAIN rows : rows[i].clerk = p /\ i # c.row
      row == [clerk |-> p,
              email |-> IF c.email THEN p ELSE IF c.row = None THEN None ELSE rows[c.row].email,
              owner |-> StaysOwner(c.was, p, c.email)]
      i == IF c.row = None THEN Len(rows) + 1 ELSE c.row
      rs == IF c.row = None THEN Append(rows, row) ELSE [rows EXCEPT ![i] = row]
  IN /\ c.pc = "store"
     /\ IF taken THEN Goto(r, Idle) /\ UNCHANGED <<rows, cache, lost, raced, demoted>>
        ELSE /\ i \in Rows
             /\ rows' = rs
             /\ Lose(None, rs, member)
             /\ raced' = IF c.row = None /\ Len(rows) > c.seen
                         THEN raced \cup {p} ELSE raced
             /\ demoted' = IF c.row # None /\ rows[c.row].owner /\ ~row.owner
                           THEN demoted \cup {p} ELSE demoted
             /\ cache' = [cache EXCEPT ![r].users[p] =
                            [row |-> i, owner |-> row.owner, expires |-> Expiry]]
             /\ Goto(r, [pc |-> "admit", person |-> p, wish |-> c.wish])
     /\ UNCHANGED <<member, orgs, sub, offered, now, admitted, bare, requests>>

\* Notes how the admitted request stands to what the database says.
Note(r, p, o, kind) ==
  admitted' = [kind |-> kind,
               entitled |-> Entitled(rows, member, p, o, kind),
               age |-> now - lost[<<p, o, kind>>].at,
               here |-> lost[<<p, o, kind>>].by = r,
               demoted |-> p \in demoted]

\* A request that reads, or one that works: the latter needs a membership and a
\* subscription on top.
Admit(r) ==
  LET p == call[r].person
      wish == call[r].wish
      c == cache[r]
      org == Resolve(c, p, wish.org, wish.kind)
      after == AfterResolve(c, p, wish.org, wish.kind)
      works == /\ HasMemberRole(after, p, org, wish.kind)
               /\ IsActive(sub[org], now)
  IN /\ call[r].pc = "admit" /\ wish.kind \in {"read", "work"}
     /\ IF org = None
        THEN cache' = [cache EXCEPT ![r] = after] /\ UNCHANGED admitted
        ELSE /\ cache' = [cache EXCEPT ![r] = IF wish.kind = "read" THEN after
                                              ELSE AfterMemberRole(after, p, org)]
             /\ IF wish.kind = "read" \/ works THEN Note(r, p, org, wish.kind)
                ELSE UNCHANGED admitted
     /\ Goto(r, Idle)
     /\ UNCHANGED <<database, now, lost, bare, raced, demoted, requests>>

RowsOf(q) == {i \in DOMAIN rows : rows[i].email = q}

\* An administrator changes a membership: the row of the address is looked up.
AdmitMember(r) ==
  LET p == call[r].person
      wish == call[r].wish
  IN /\ call[r].pc = "admit" /\ wish.kind = "member"
     /\ cache' = [cache EXCEPT ![r] = AfterOrgRole(@, p, wish.org)]
     /\ IF HasOrgRole(cache[r], p, wish.org, "admin") /\ wish.org <= orgs
        THEN \E i \in IF RowsOf(wish.whose) = {} THEN {None} ELSE RowsOf(wish.whose) :
               Goto(r, [pc |-> "write", wish |-> wish, row |-> i, seen |-> Len(rows)])
        ELSE Goto(r, Idle)
     /\ UNCHANGED <<database, now, history, requests>>

\* Everything else is for owners of the platform.
AdmitOwner(r) ==
  LET wish == call[r].wish
      refused == \/ ~User(cache[r], call[r].person).owner
                 \/ wish.kind \in {"select", "update"} /\ (wish.org > orgs)
                 \/ wish.kind \in {"select", "update"} /\ wish.plan \notin offered \cup {None}
                 \/ /\ wish.kind = "update" /\ sub[wish.org] = NoSubscription
                    /\ None \in {wish.plan, wish.status}
  IN /\ call[r].pc = "admit" /\ wish.kind \notin {"read", "work", "member"}
     /\ IF refused THEN Goto(r, Idle)
        ELSE \/ /\ wish.kind = "organization"
                /\ \E i \in IF RowsOf(wish.whose) = {} THEN {None} ELSE RowsOf(wish.whose) :
                     Goto(r, [pc |-> "write", wish |-> wish, row |-> i, seen |-> Len(rows)])
             \/ /\ wish.kind \in {"select", "update"}
                /\ Goto(r, [pc |-> "write", wish |-> wish, read |-> sub[wish.org]])
             \/ wish.kind = "offer" /\ Goto(r, [pc |-> "write", wish |-> wish])
     /\ UNCHANGED <<database, cache, now, history, requests>>

\* Every write ends by clearing the caches of its replica.
Written(r) == /\ cache' = [cache EXCEPT ![r] = Cleared(@)]
              /\ Goto(r, Idle)

Writes(r, kinds) == call[r].pc = "write" /\ call[r].wish.kind \in kinds

\* An address without a row gets one that waits for its owner.
Invite(r, q, row) ==
  IF row # None THEN rows' = rows /\ UNCHANGED raced
  ELSE /\ Len(rows) < MaxRows
       /\ rows' = Append(rows, [clerk |-> None, email |-> q, owner |-> FALSE])
       /\ raced' = IF Len(rows) > call[r].seen THEN raced \cup {q} ELSE raced

\* The invited identity of an address is unique.
Clashes(q, row) == row = None /\ \E i \in RowsOf(q) : rows[i].clerk = None

\* upsert_org_user
WriteMember(r) ==
  LET wish == call[r].wish
      row == call[r].row
      i == IF row = None THEN Len(rows) + 1 ELSE row
      mem == [member EXCEPT ![<<i, wish.org>>] = [role |-> wish.role, status |-> wish.status]]
  IN /\ Writes(r, {"member"})
     /\ IF Clashes(wish.whose, row)
        THEN Goto(r, Idle) /\ UNCHANGED <<rows, member, cache, lost, raced>>
        ELSE /\ Invite(r, wish.whose, row)
             /\ member' = mem
             /\ Lose(r, rows, mem)
             /\ Written(r)
     /\ UNCHANGED <<orgs, sub, offered, now, admitted, bare, demoted, requests>>

\* create_organization
WriteOrganization(r) ==
  LET q == call[r].wish.whose
      row == call[r].row
      i == IF row = None THEN Len(rows) + 1 ELSE row
  IN /\ Writes(r, {"organization"})
     /\ IF q # None /\ Clashes(q, row)
        THEN Goto(r, Idle) /\ UNCHANGED <<rows, member, orgs, cache, raced>>
        ELSE /\ orgs < MaxOrgs
             /\ orgs' = orgs + 1
             /\ IF q = None THEN UNCHANGED <<rows, member, raced>>
                ELSE /\ Invite(r, q, row)
                     /\ member' = [member EXCEPT ![<<i, orgs + 1>>] =
                                     [role |-> "org_admin", status |-> "ACTIVE"]]
             /\ Written(r)
     /\ UNCHANGED <<sub, offered, now, lost, admitted, bare, demoted, requests>>

\* select_organization_plan looks for the row in its transaction.
WriteSelection(r) ==
  /\ Writes(r, {"select"})
  /\ sub' = [sub EXCEPT ![call[r].wish.org] = SelectedPlan(call[r].wish.plan)]
  /\ Written(r)
  /\ UNCHANGED <<rows, member, orgs, offered, now, history, requests>>

\* update_organization_subscription writes over what it has read before; a
\* second insert is an error.
WriteUpdate(r) ==
  LET wish == call[r].wish IN
  /\ Writes(r, {"update"})
  /\ IF call[r].read = NoSubscription /\ sub[wish.org] # NoSubscription
     THEN Goto(r, Idle) /\ UNCHANGED <<sub, cache>>
     ELSE /\ sub' = [sub EXCEPT ![wish.org] =
                       UpdatedSubscription(call[r].read, wish)]
          /\ Written(r)
  /\ UNCHANGED <<rows, member, orgs, offered, now, history, requests>>

\* update_subscription_plan: a plan is withdrawn or offered again.
WritePlan(r) ==
  LET plan == call[r].wish.plan IN
  /\ Writes(r, {"offer"})
  /\ offered' = IF plan \in offered THEN offered \ {plan} ELSE offered \cup {plan}
  /\ Written(r)
  /\ UNCHANGED <<rows, member, orgs, sub, now, history, requests>>

\* Handlers are short: time passes between them.
Tick ==
  /\ now < MaxTime
  /\ \A r \in Replicas : call[r] = Idle
  /\ now' = now + 1
  /\ UNCHANGED <<database, cache, call, history, requests>>

-----------------------------------------------------------------------------
\* Someone had signed in before the address was put among those of the platform's
\* owners, and one person was invited to the platform.
Init ==
  /\ \E o \in Owners :
       rows = <<[clerk |-> o, email |-> o, owner |-> FALSE],
                [clerk |-> None, email |-> Invitee, owner |-> FALSE]>>
  /\ member = [x \in Rows \X Orgs |->
                 IF x = <<2, Platform>> THEN [role |-> "sales_user", status |-> "ACTIVE"]
                 ELSE NoMember]
  /\ orgs = 1
  /\ sub = [o \in Orgs |-> NoSubscription]
  /\ offered = Plans
  /\ cache = [r \in Replicas |-> EmptyCaches]
  /\ call = [r \in Replicas |-> Idle]
  /\ now = 1
  /\ lost = [x \in Rights |-> [at |-> 0 - 2 * TTL, by |-> None]]
  /\ admitted = [kind |-> None]
  /\ bare = {} /\ raced = {} /\ demoted = {}
  /\ requests = [p \in Persons |-> 0]

Next ==
  \/ \E r \in Replicas, p \in Persons : \E wish \in Wishes[p], email \in Claims(p) :
       Request(r, p, wish, email)
  \/ \E r \in Replicas :
       \/ StoreUser(r) \/ Admit(r) \/ AdmitMember(r) \/ AdmitOwner(r)
       \/ WriteMember(r) \/ WriteOrganization(r) \/ WriteSelection(r)
       \/ WriteUpdate(r) \/ WritePlan(r)
  \/ Tick

Spec == Init /\ [][Next]_vars

-----------------------------------------------------------------------------
(* Properties.                                                             *)

\* Every variable has the type of the state it models: a subscription that has a
\* status has a plan (update_organization_subscription).
TypeOK ==
  /\ rows \in Seq([clerk: Persons \cup {None}, email: Persons \cup {None}, owner: BOOLEAN])
  /\ Len(rows) <= MaxRows
  /\ member \in [Rows \X Orgs -> [role: Roles \cup {None}, status: {"ACTIVE", "DISABLED"}]]
  /\ orgs \in Orgs
  /\ sub \in [Orgs -> [status: {"NONE", "TRIALING", "ACTIVE", "CANCELED"},
                       plan: Plans \cup {None}, ends: Nat \cup {None}]]
  /\ \A o \in Orgs : /\ sub[o].status = "TRIALING" => sub[o].ends # None
                    /\ sub[o].plan = None <=> sub[o].status = "NONE"
  /\ offered \subseteq Plans
  /\ \A r \in Replicas : call[r].pc \in {"idle", "store", "admit", "write"}
  /\ now \in 1 .. MaxTime
  /\ bare \subseteq Persons /\ raced \subseteq Persons /\ demoted \subseteq Persons
  /\ requests \in [Persons -> Nat]

\* Rights that were taken away are not granted any longer by the replica that took
\* them and cleared its caches, and by others for less than one lifetime of a cache
\* entry, or, where the organization of a reading request is resolved from a cached role
\* and cached in turn, for less than two.  A sign-in that has made less of an owner
\* clears no cache: the list of organizations that a cached owner sees is cached first,
\* which makes three.
StaleAccessIsBounded ==
  admitted.kind # None /\ ~admitted.entitled =>
    /\ ~admitted.here
    /\ admitted.age < IF admitted.kind = "work" THEN TTL
                      ELSE IF admitted.demoted THEN 3 * TTL ELSE 2 * TTL

\* A person has one row, the one that waits for the address included, so that an
\* invitation is found: unless the person was looked up without the address, or
\* two replicas stored a row at the same time.
OneRowEach ==
  \A p \in Persons \ (bare \cup raced) :
    Cardinality({i \in DOMAIN rows : rows[i].clerk = p \/ rows[i].email = p}) <= 1

\* An owner stays one, also through sign-ins without an address.  Only a sign-in that
\* had looked up the row before the person became one takes it back.
OwnerIsKept ==
  [][\A i \in DOMAIN rows : rows[i].owner /\ ~rows'[i].owner =>
       \E r \in Replicas : call[r].pc = "store" /\ call[r].row = i /\ ~call[r].was]_vars

\* A subscription that has ended comes back only by a new selection of a plan or by
\* an update that names a status or an end of the trial, unless the update had read it
\* before it ended.
OnlyExplicitRevival ==
  [][\A o \in Orgs : ~IsActive(sub[o], now) /\ IsActive(sub'[o], now) =>
       \E r \in Replicas : /\ call[r].pc = "write"
                           /\ \/ call[r].wish.kind = "select"
                              \/ /\ call[r].wish.kind = "update"
                                 /\ \/ call[r].wish.status # None
                                    \/ call[r].wish.ends # Same
                                    \/ call[r].read # sub[o]]_vars
=============================================================================
