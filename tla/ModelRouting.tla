----------------------------- MODULE ModelRouting -----------------------------
(***************************************************************************)
(* Running an agent with a fallback from one model provider to the next    *)
(* (utils/model_fallback.py), on keys of the platform and of organizations *)
(* (services/llm_credential_service.py), and what it is charged as         *)
(* (services/metering_service.py, services/usage_service.py).              *)
(*                                                                         *)
(* One process: its blacklist of failing providers is shared by all runs,  *)
(* which give up the event loop while a provider works.  A run chooses its *)
(* providers when it begins and keeps those it has not tried, which it     *)
(* takes in an order of its own.                                           *)
(***************************************************************************)
EXTENDS Integers, FiniteSets, Sequences

CONSTANTS
  Platform,     \* names of the configured platform providers, in order
  OpenRouter,   \* names that share the credits of OpenRouter
  Credentials,  \* keys of organizations, numbered as they are listed
  FirstKeys,    \* the keys there are at first
  Owner,        \* the organization of a key
  OrgName,      \* the name under which a key is listed
  Family,       \* the family of a name
  Rank,         \* per routing mode: how early a family is preferred
  Tasks,        \* pieces of work, each a series of agent runs
  Org,          \* the organization a task works for, or None
  Metered,      \* tasks charged as a whole
  Agents,       \* how many agents a task runs
  Tools,        \* tasks whose agents call tools
  Structured,   \* tasks whose agents answer in a schema
  Asked,        \* the routing mode a task asks for
  Plans,        \* subscription plans
  DefaultPlan,  \* the plan the organizations have at first
  DefaultMode,  \* organization_llm_provider_mode
  Duration,     \* _BLACKLIST_DURATION
  None,
  MaxChanges,   \* bound: changes of plans and keys
  MaxFaults,    \* bound: failed reads and writes, and restarts
  MaxEvents     \* bound: changes and faults together

Names == {Platform[i] : i \in DOMAIN Platform} \cup {OrgName[c] : c \in Credentials}

Orgs == {Owner[c] : c \in Credentials} \cup ({Org[t] : t \in Tasks} \ {None})

KeyModes == {"platform_first", "organization_first", "organization_only"}

RoutingModes == {"cost_optimized", "balanced", "quality_first"}

ASSUME ConstantsAssumption ==
  /\ Credentials \subseteq Nat /\ Platform \in Seq(DOMAIN Family) /\ Platform # <<>>
  /\ Names \subseteq DOMAIN Family /\ DefaultMode \in KeyModes
  /\ \A m \in RoutingModes, n \in Names : Rank[m][Family[n]] \in Nat
  /\ Metered \subseteq Tasks /\ Tools \subseteq Tasks /\ Structured \subseteq Tasks
  /\ \A t \in Metered : Org[t] # None
  /\ Agents \in [Tasks -> Nat \ {0}] /\ Asked \in [Tasks -> RoutingModes]
  /\ \A p \in Plans : /\ p.byok \in BOOLEAN /\ p.mode \in KeyModes /\ p.limit \in Nat
                      /\ p.allowed \in Seq(RoutingModes) /\ p.allowed # <<>>
  /\ DefaultPlan \in Plans
  /\ FirstKeys \subseteq Credentials
  /\ {Duration, MaxChanges, MaxFaults, MaxEvents} \subseteq Nat

VARIABLES
  blacklist, \* _BLACKLIST: how much longer each name is left out, -1 if it is not
  key,       \* status of each key
  plan,      \* the plan of each organization
  task,      \* what each task is doing
  charges,   \* ai_usage_actions: status of the actions of each task
  usage,     \* llm_usage_events: the action of each event of a task, 0 for none
  failing,   \* history: how much longer a name's last report of a bad key or no
             \* credits stands, -1 if it does not
  answers,   \* history: agent runs of a task that were answered
  excused,   \* history: tasks that lost a write or were cut short
  changes,   \* changes of plans and keys so far
  faults     \* faults so far

vars == <<blacklist, key, plan, task, charges, usage, failing, answers, excused,
          changes, faults>>
settings == <<key, plan, changes>>
ledger == <<charges, usage, answers>>

Idle == [pc |-> "idle"]

At(t, pc) == task[t].pc = pc

MayHappen == changes + faults < MaxEvents

Fault == MayHappen /\ faults < MaxFaults /\ faults' = faults + 1

-----------------------------------------------------------------------------
(* The blacklist.                                                          *)

\* Mutant: a name is blacklisted without those that share its credits.
Blacklisted_Alone(n) == {n}

\* What is blacklisted with a name: the names of OpenRouter share one balance.
Blacklisted(n) == IF n \in OpenRouter THEN OpenRouter \cap Names ELSE {n}

IsBlacklisted(u, n) == u[n] # -1

\* With every platform provider blacklisted, the blacklist is cleared.
Recovered ==
  IF \A i \in DOMAIN Platform : IsBlacklisted(blacklist, Platform[i])
  THEN [n \in Names |-> -1] ELSE blacklist

-----------------------------------------------------------------------------
(* Choosing the providers of a run.                                        *)

\* The active keys of an organization whose plan lets it use them.  readable:
\* the policy and the keys could be read.
OwnKeys(o, readable) ==
  {c \in Credentials : /\ readable /\ o # None
                       /\ Owner[c] = o /\ plan[o].byok
                       /\ key[c] = "ACTIVE"}

KeyMode(o, readable) == IF readable /\ o # None THEN plan[o].mode ELSE DefaultMode

\* Providers on keys of the platform and on keys of organizations, each with its
\* place among those of its kind.
Ours == {[name |-> Platform[i], key |-> None, place |-> i] : i \in DOMAIN Platform}
Theirs(cs) == {[name |-> OrgName[c], key |-> c, place |-> c] : c \in cs}

\* The providers for an organization: platform keys and keys of its own.
Available(o, readable, u) ==
  LET theirs == Theirs(OwnKeys(o, readable))
      merged == IF KeyMode(o, readable) = "organization_only" THEN theirs ELSE Ours \cup theirs
  IN  {e \in merged : ~IsBlacklisted(u, e.name)}

\* Cerebras cannot call tools, Groq cannot answer in a schema.
Capable(t, e) ==
  /\ t \in Tools => Family[e.name] # "Cerebras"
  /\ t \in Structured => Family[e.name] # "Groq"

\* The routing mode a task gets: the one it asks for if the plan allows it.
RoutingMode(t, readable) ==
  IF Org[t] = None \/ ~readable THEN Asked[t]
  ELSE LET allowed == plan[Org[t]].allowed
       IN  IF \E i \in DOMAIN allowed : allowed[i] = Asked[t] THEN Asked[t] ELSE Head(allowed)

Chosen(t, readable, u) == {e \in Available(Org[t], readable, u) : Capable(t, e)}

\* Which keys an organization prefers, by the mode of its plan.
Preferred(mode, e) == IF mode = "organization_first" THEN e.key # None ELSE e.key = None

\* Providers by the rank of their families, and as listed within a rank.
Before(t, d, e) ==
  LET rank(x) == Rank[task[t].routing][Family[x.name]]
      ours(x) == Preferred(task[t].mode, x)
  IN \/ rank(d) < rank(e)
     \/ rank(d) = rank(e) /\ ours(d) /\ ~ours(e)
     \/ rank(d) = rank(e) /\ (ours(d) <=> ours(e)) /\ d.place < e.place

\* The provider a run is trying.
Current(t) ==
  CHOOSE e \in task[t].providers : \A d \in task[t].providers \ {e} : Before(t, e, d)

\* History: what must be left out by a run that begins now.
Spared(failures) ==
  {n \in Names : \E m \in Names :
     /\ m = n \/ {m, n} \subseteq OpenRouter
     /\ failures[m] # -1}

-----------------------------------------------------------------------------
(* The ledger.                                                             *)

\* record_ai_usage_action: an action is a success until it is settled.
Charged(t) == [charges EXCEPT ![t] = Append(@, "success")]

\* record_llm_usage: an event of the task, on an action of it or on none.
Used(t, action) == [usage EXCEPT ![t] = Append(@, action)]

-----------------------------------------------------------------------------
(* A task.                                                                 *)

\* A task starts.  One that is charged as a whole records its action first, and
\* does not start if that fails: nor if the action is written but cannot be read back.
Start(t) ==
  /\ At(t, "idle")
  /\ \/ /\ t \in Metered
        /\ charges' = Charged(t)
        /\ task' = [task EXCEPT ![t] = [pc |-> "open", action |-> 1, left |-> Agents[t]]]
        /\ UNCHANGED <<faults, excused>>
     \/ /\ t \in Metered
        /\ Fault
        /\ task' = [task EXCEPT ![t] = [pc |-> "over", ok |-> FALSE]]
        /\ \/ UNCHANGED <<charges, excused>>
           \/ charges' = Charged(t) /\ excused' = excused \cup {t}
     \/ /\ t \notin Metered
        /\ task' = [task EXCEPT ![t] = [pc |-> "open", action |-> 0, left |-> Agents[t]]]
        /\ UNCHANGED <<charges, faults, excused>>
  /\ UNCHANGED <<blacklist, settings, usage, failing, answers>>

\* The next agent of a task begins: it takes the providers that are left over.
Begin(t) ==
  /\ At(t, "open") /\ task[t].left > 0
  /\ blacklist' = Recovered
  /\ failing' = IF \A i \in DOMAIN Platform : IsBlacklisted(blacklist, Platform[i])
                 THEN [n \in Names |-> -1] ELSE failing
  /\ \E readable \in BOOLEAN :
       /\ IF readable THEN UNCHANGED faults ELSE Org[t] # None /\ Fault
       /\ task' = [task EXCEPT ![t] =
            [pc |-> "chosen", action |-> @.action, left |-> @.left,
             providers |-> Chosen(t, readable, blacklist'),
             mode |-> KeyMode(Org[t], readable), spared |-> Spared(failing')]]
  /\ UNCHANGED <<settings, ledger, excused>>

Failed(t) == [pc |-> "failed", action |-> task[t].action, left |-> task[t].left]

\* The state of a task whose agent tries its providers.
Going(t, routing) ==
  [pc |-> "running", action |-> task[t].action, left |-> task[t].left,
   providers |-> task[t].providers, tries |-> 1, mode |-> task[t].mode,
   routing |-> routing, spared |-> task[t].spared]

\* The clients of the providers left out are closed, which may give up the event
\* loop, and the policy is read: the agent fails if it has no provider.
Route(t) ==
  /\ At(t, "chosen")
  /\ \E readable \in BOOLEAN :
       /\ IF readable THEN UNCHANGED faults ELSE Org[t] # None /\ Fault
       /\ task' = [task EXCEPT ![t] = IF @.providers = {} THEN Failed(t)
                                      ELSE Going(t, RoutingMode(t, readable))]
  /\ UNCHANGED <<blacklist, settings, ledger, failing, excused>>

\* An agent that runs outside a charged task is charged by itself.
OwnAction(t) == Org[t] # None /\ task[t].action = 0

\* Mutant: a failure of the last provider is not noticed.
NextProvider_Endless(t) == [task[t] EXCEPT !.providers = @ \ {Current(t)}, !.tries = 1]

\* Mutant: a provider that fails is tried again.
NextProvider_Same(t) == [task[t] EXCEPT !.tries = 1]

\* The run goes on with its next provider, or fails with its last one.
NextProvider(t) ==
  LET others == task[t].providers \ {Current(t)}
  IN  IF others = {} THEN Failed(t)
      ELSE [task[t] EXCEPT !.providers = others, !.tries = 1]

\* A provider answers.  The action and the usage are recorded; writes that fail are
\* passed over, and usage is on no action if the action cannot be read back.  An
\* error after that gives up the answer for the next provider.
Answer(t) ==
  /\ At(t, "running")
  /\ answers' = [answers EXCEPT ![t] = @ + 1]
  /\ \E charged, told, noted, kept \in BOOLEAN :
       /\ told => charged
       /\ OwnAction(t) \/ told
       /\ IF told /\ noted /\ kept THEN UNCHANGED <<faults, excused>>
          ELSE Fault /\ excused' = excused \cup {t}
       /\ charges' = IF OwnAction(t) /\ charged THEN Charged(t) ELSE charges
       /\ usage' = IF ~noted THEN usage
                   ELSE Used(t, IF ~OwnAction(t) THEN task[t].action
                                ELSE IF told THEN Len(charges'[t]) ELSE 0)
       /\ task' = [task EXCEPT ![t] =
            IF kept THEN [pc |-> "open", action |-> @.action, left |-> @.left - 1]
            ELSE NextProvider(t)]
  /\ UNCHANGED <<blacklist, settings, failing>>

\* A provider reports that its key or its credits are no good.
FailForGood(t) ==
  /\ At(t, "running")
  /\ LET name == Current(t).name
     IN  /\ blacklist' = [n \in Names |-> IF n \in Blacklisted(name) THEN Duration
                                      ELSE blacklist[n]]
         /\ failing' = [failing EXCEPT ![name] = Duration]
  /\ task' = [task EXCEPT ![t] = NextProvider(t)]
  /\ UNCHANGED <<settings, ledger, excused, faults>>

\* A provider gets two attempts.
MayRetry(t) == task[t].tries < 2

\* A provider fails in a way that may pass: it is tried again, then passed over.
FailForNow(t) ==
  /\ At(t, "running")
  /\ task' = [task EXCEPT ![t] = IF MayRetry(t) THEN [@ EXCEPT !.tries = 2]
                                 ELSE NextProvider(t)]
  /\ UNCHANGED <<blacklist, settings, ledger, failing, excused, faults>>

\* A provider cannot do this request, or has no capacity: it is passed over.
FailThisTime(t) ==
  /\ At(t, "running")
  /\ task' = [task EXCEPT ![t] = NextProvider(t)]
  /\ UNCHANGED <<blacklist, settings, ledger, failing, excused, faults>>

\* Some callers make do without an answer: the safety check, for one, takes it for
\* a refusal.
MakeDo(t) ==
  /\ At(t, "failed")
  /\ task' = [task EXCEPT ![t] = [pc |-> "open", action |-> @.action, left |-> @.left - 1]]
  /\ UNCHANGED <<blacklist, settings, ledger, failing, excused, faults>>

\* Mutant: a task that fails leaves its action as it is.
Settled_Success(ok) == "success"

Settled(ok) == IF ok THEN "success" ELSE "error"

\* A task ends, well or not.  The action of one that is charged as a whole is
\* settled; a write that fails leaves it as it was.
Finish(t, ok) ==
  /\ IF ok THEN At(t, "open") /\ task[t].left = 0
     ELSE At(t, "failed") \/ At(t, "open")
  /\ task' = [task EXCEPT ![t] = [pc |-> "over", ok |-> ok]]
  /\ \/ /\ charges' = IF t \in Metered THEN [charges EXCEPT ![t][1] = Settled(ok)]
                      ELSE charges
        /\ UNCHANGED <<excused, faults>>
     \/ /\ t \in Metered /\ ~ok
        /\ Fault
        /\ excused' = excused \cup {t}
        /\ UNCHANGED charges
  /\ UNCHANGED <<blacklist, settings, usage, failing, answers>>

-----------------------------------------------------------------------------
(* Keys, plans, time and restarts.                                         *)

Change == MayHappen /\ changes < MaxChanges /\ changes' = changes + 1

\* An administrator adds a key, if the plan has room for it.
CreateKey(c) ==
  /\ Change
  /\ key[c] = "absent" /\ plan[Owner[c]].byok
  /\ Cardinality({d \in Credentials : Owner[d] = Owner[c] /\ key[d] \in {"ACTIVE", "DISABLED"}})
       < plan[Owner[c]].limit
  /\ key' = [key EXCEPT ![c] = "ACTIVE"]
  /\ UNCHANGED <<blacklist, plan, task, ledger, failing, excused, faults>>

\* An administrator switches a key on or off.
UpdateKey(c) ==
  /\ Change
  /\ key[c] \in {"ACTIVE", "DISABLED"}
  /\ key' = [key EXCEPT ![c] = IF @ = "ACTIVE" THEN "DISABLED" ELSE "ACTIVE"]
  /\ UNCHANGED <<blacklist, plan, task, ledger, failing, excused, faults>>

DeleteKey(c) ==
  /\ Change
  /\ key[c] \in {"ACTIVE", "DISABLED"}
  /\ key' = [key EXCEPT ![c] = "deleted"]
  /\ UNCHANGED <<blacklist, plan, task, ledger, failing, excused, faults>>

\* The owner of the platform moves an organization to another plan.
ChangePlan(o, p) ==
  /\ Change
  /\ plan[o] # p
  /\ plan' = [plan EXCEPT ![o] = p]
  /\ UNCHANGED <<blacklist, key, task, ledger, failing, excused, faults>>

Later(left) == [n \in Names |-> IF left[n] = -1 THEN -1 ELSE left[n] - 1]

\* Time passes.
Tick ==
  /\ \E n \in Names : blacklist[n] # -1
  /\ blacklist' = Later(blacklist)
  /\ failing' = Later(failing)
  /\ UNCHANGED <<settings, task, ledger, excused, faults>>

Working == {t \in Tasks : task[t].pc \notin {"idle", "over"}}

\* Tasks are over without a word to the ledger: what was charged stays a success.
CutShort(cut) ==
  /\ task' = [t \in Tasks |-> IF t \in cut THEN [pc |-> "over", ok |-> FALSE] ELSE task[t]]
  /\ excused' = excused \cup cut

\* A task is cancelled, which is no Exception.
Cancel(t) ==
  /\ t \in Working
  /\ Fault
  /\ CutShort({t})
  /\ UNCHANGED <<blacklist, failing, settings, ledger>>

\* The process restarts: it forgets its blacklist, and tasks are cut short.
Restart ==
  /\ Fault
  /\ CutShort(Working)
  /\ blacklist' = [n \in Names |-> -1]
  /\ failing' = [n \in Names |-> -1]
  /\ UNCHANGED <<settings, ledger>>

-----------------------------------------------------------------------------
Init ==
  /\ blacklist = [n \in Names |-> -1]
  /\ key = [c \in Credentials |-> IF c \in FirstKeys THEN "ACTIVE" ELSE "absent"]
  /\ plan = [o \in Orgs |-> DefaultPlan]
  /\ task = [t \in Tasks |-> Idle]
  /\ charges = [t \in Tasks |-> <<>>]
  /\ usage = [t \in Tasks |-> <<>>]
  /\ failing = [n \in Names |-> -1]
  /\ answers = [t \in Tasks |-> 0]
  /\ excused = {}
  /\ changes = 0
  /\ faults = 0

Run(t) ==
  \/ Begin(t) \/ Route(t) \/ Answer(t)
  \/ FailForGood(t) \/ FailForNow(t) \/ FailThisTime(t)

End(t) == MakeDo(t) \/ \E ok \in BOOLEAN : Finish(t, ok)

\* The endpoints for keys and plans.
Administer ==
  \/ \E c \in Credentials : CreateKey(c) \/ UpdateKey(c) \/ DeleteKey(c)
  \/ \E o \in Orgs, p \in Plans : ChangePlan(o, p)

Next ==
  \/ \E t \in Tasks : Start(t) \/ Run(t) \/ End(t) \/ Cancel(t)
  \/ Administer
  \/ Tick
  \/ Restart

\* A provider answers or times out, and a handler that was started goes on.
Fairness == \A t \in Tasks : WF_vars(Run(t)) /\ WF_vars(End(t))

Spec == Init /\ [][Next]_vars /\ Fairness

-----------------------------------------------------------------------------
(* Properties.                                                             *)

Doing(t) == [action: {0, 1}, left: 0 .. Agents[t]]

\* Every variable has the type of the state it models; a run that goes on has a
\* provider to try.
TypeOK ==
  /\ blacklist \in [Names -> -1 .. Duration]
  /\ failing \in [Names -> -1 .. Duration]
  /\ key \in [Credentials -> {"absent", "ACTIVE", "DISABLED", "deleted"}]
  /\ plan \in [Orgs -> Plans]
  /\ \A t \in Tasks :
       /\ \/ task[t] = Idle
          \/ At(t, "over") /\ task[t].ok \in BOOLEAN
          \/ [action |-> task[t].action, left |-> task[t].left] \in Doing(t)
       /\ At(t, "running") =>
            /\ task[t].providers \subseteq Ours \cup Theirs(Credentials)
            /\ task[t].providers # {}
            /\ task[t].tries \in {1, 2}
            /\ task[t].mode \in KeyModes /\ task[t].routing \in RoutingModes
            /\ task[t].spared \subseteq Names
       /\ charges[t] \in Seq({"success", "error"})
       /\ usage[t] \in Seq(0 .. Len(charges[t]))
  /\ answers \in [Tasks -> Nat] /\ excused \subseteq Tasks
  /\ changes \in 0 .. MaxChanges /\ faults \in 0 .. MaxFaults

\* A run does not try a provider that, when the run began, had lately reported that
\* its key or its credits are no good, nor one that shares those credits, whatever
\* other runs, recoveries and restarts did in between (blacklist_provider,
\* is_blacklisted).
FailedIsSpared ==
  \A t \in Tasks : task[t].pc \in {"chosen", "running"} =>
    \A e \in task[t].providers : e.name \notin task[t].spared

Billed(t) == Cardinality({i \in DOMAIN charges[t] : charges[t][i] = "success"})

\* An organization is charged once for a task that is charged as a whole, and not
\* if the task fails; otherwise once for every agent that answered.  Every answer
\* has its usage event, on the action that paid for it.  Lost writes, errors after an
\* answer, cancelled tasks and restarts are excused (run_agent_with_fallback, ai_usage_action_context).
ChargedOnce ==
  \A t \in Tasks \ excused :
    /\ Billed(t) = CASE t \in Metered -> IF At(t, "idle") \/ (At(t, "over") /\ ~task[t].ok)
                                         THEN 0 ELSE 1
                      [] Org[t] = None -> 0
                      [] OTHER -> answers[t]
    /\ Len(usage[t]) = answers[t]
    /\ \A i \in DOMAIN usage[t] :
         usage[t][i] = CASE t \in Metered -> 1 [] Org[t] = None -> 0 [] OTHER -> i

\* Every task that starts ends: a run gives each provider two attempts at most and
\* has no provider twice, however often the blacklist is cleared.
TasksEnd ==
  \A t \in Tasks : task[t].pc \notin {"idle", "over"} ~> At(t, "over")

\* README.md:46 offers `organization_first` as a routing mode for an organization's
\* own keys: under it no key of the platform is tried while one of the
\* organization's is left.
OrganizationFirst ==
  \A t \in Tasks :
    /\ At(t, "running") /\ task[t].mode = "organization_first"
    /\ \E e \in task[t].providers : e.key # None
    => Current(t).key # None
=============================================================================
