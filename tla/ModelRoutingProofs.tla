-------------------------- MODULE ModelRoutingProofs --------------------------
(* Theorems about ModelRouting, for every value of its constants. *)
EXTENDS ModelRouting, FiniteSetTheorems, TLAPS

-----------------------------------------------------------------------------
(* Types.  A task has an agent left while one runs, and an open action     *)
(* while it works if it is charged as a whole.                             *)

Providers == Ours \cup Theirs(Credentials)

ActionOf(t) == IF t \in Metered THEN 1 ELSE 0

Open(t) == [pc: {"open"}, action: {ActionOf(t)}, left: 0 .. Agents[t]]
ChosenTask(t) == [pc: {"chosen"}, action: {ActionOf(t)}, left: 1 .. Agents[t],
                  providers: SUBSET Providers, mode: KeyModes, spared: SUBSET Names]
Running(t) == [pc: {"running"}, action: {ActionOf(t)}, left: 1 .. Agents[t],
               providers: (SUBSET Providers) \ {{}}, tries: {1, 2}, mode: KeyModes,
               routing: RoutingModes, spared: SUBSET Names]
FailedTask(t) == [pc: {"failed"}, action: {ActionOf(t)}, left: 1 .. Agents[t]]
Over == [pc: {"over"}, ok: BOOLEAN]

TaskType(t) ==
  {Idle} \cup Over \cup Open(t) \cup ChosenTask(t) \cup Running(t) \cup FailedTask(t)

TasksType ==
  /\ task \in [Tasks -> UNION {TaskType(t) : t \in Tasks}]
  /\ \A t \in Tasks : task[t] \in TaskType(t)

Left == [Names -> -1 .. Duration]

LedgerType ==
  /\ charges \in [Tasks -> Seq({"success", "error"})]
  /\ usage \in [Tasks -> Seq(Nat)]
  /\ \A t \in Tasks : usage[t] \in Seq(0 .. Len(charges[t]))
  /\ \A t \in Tasks : task[t].pc = "idle" => charges[t] = <<>> /\ usage[t] = <<>>
  /\ \A t \in Metered : task[t].pc \notin {"idle", "over"} => charges[t] = <<"success">>
  /\ answers \in [Tasks -> Nat] /\ excused \subseteq Tasks

\* What TypeOK needs to be inductive.
TypeInv ==
  /\ blacklist \in Left /\ failing \in Left
  /\ key \in [Credentials -> {"absent", "ACTIVE", "DISABLED", "deleted"}]
  /\ plan \in [Orgs -> Plans]
  /\ TasksType
  /\ LedgerType
  /\ changes \in 0 .. MaxChanges /\ faults \in 0 .. MaxFaults

LEMMA TaskFields ==
  ASSUME TypeInv, NEW t \in Tasks
  PROVE  /\ At(t, "idle") => task[t] = Idle
         /\ At(t, "over") => task[t] \in Over
         /\ At(t, "open") => task[t] \in Open(t)
         /\ At(t, "chosen") => task[t] \in ChosenTask(t)
         /\ At(t, "running") => task[t] \in Running(t)
         /\ At(t, "failed") => task[t] \in FailedTask(t)
         /\ task[t].pc \in {"idle", "over", "open", "chosen", "running", "failed"}
<1>1. task[t] \in TaskType(t)
  BY DEF TypeInv, TasksType
<1>2. CASE task[t] = Idle
  BY <1>2 DEF Idle, At
<1>3. CASE task[t] \in Over
  BY <1>3 DEF Over, At
<1>4. CASE task[t] \in Open(t)
  BY <1>4 DEF Open, At
<1>5. CASE task[t] \in Running(t)
  BY <1>5 DEF Running, At
<1>6. CASE task[t] \in FailedTask(t)
  BY <1>6 DEF FailedTask, At
<1>7. CASE task[t] \in ChosenTask(t)
  BY <1>7 DEF ChosenTask, At
<1>8. QED
  BY <1>1, <1>2, <1>3, <1>4, <1>5, <1>6, <1>7 DEF TaskType

LEMMA TypeInvSuffices == TypeInv => TypeOK
<1> SUFFICES ASSUME TypeInv PROVE TypeOK
  OBVIOUS
<1>1. ASSUME NEW t \in Tasks
      PROVE  /\ \/ task[t] = Idle
                \/ At(t, "over") /\ task[t].ok \in BOOLEAN
                \/ [action |-> task[t].action, left |-> task[t].left] \in Doing(t)
             /\ At(t, "running") =>
                  /\ task[t].providers \subseteq Ours \cup Theirs(Credentials)
                  /\ task[t].providers # {}
                  /\ task[t].tries \in {1, 2}
                  /\ task[t].mode \in KeyModes /\ task[t].routing \in RoutingModes
                  /\ task[t].spared \subseteq Names
  <2>1. Agents[t] \in Nat
    BY ConstantsAssumption
  <2>2. CASE At(t, "idle")
    BY <2>2, TaskFields DEF At
  <2>3. CASE At(t, "over")
    BY <2>3, TaskFields DEF At, Over
  <2>4. CASE At(t, "open")
    BY <2>1, <2>4, TaskFields DEF At, Open, Doing, ActionOf
  <2>5. CASE At(t, "running")
    BY <2>1, <2>5, TaskFields DEF At, Running, Doing, ActionOf, Providers
  <2>6. CASE At(t, "failed")
    BY <2>1, <2>6, TaskFields DEF At, FailedTask, Doing, ActionOf
  <2>7. CASE At(t, "chosen")
    BY <2>1, <2>7, TaskFields DEF At, ChosenTask, Doing, ActionOf
  <2>8. QED
    BY <2>2, <2>3, <2>4, <2>5, <2>6, <2>7, TaskFields DEF At
<1>2. QED
  BY <1>1 DEF TypeInv, TypeOK, Left, LedgerType

LEMMA TypeInit == Init => TypeInv
<1> SUFFICES ASSUME Init PROVE TypeInv
  OBVIOUS
<1>1. Duration \in Nat /\ MaxChanges \in Nat /\ MaxFaults \in Nat /\ DefaultPlan \in Plans
      /\ Metered \subseteq Tasks
  BY ConstantsAssumption
<1>2. blacklist \in Left /\ failing \in Left
  BY <1>1 DEF Init, Left
<1>3. TasksType
  BY DEF Init, TasksType, TaskType
<1>4. LedgerType
  BY <1>1 DEF Init, LedgerType, Idle
<1>5. QED
  BY <1>1, <1>2, <1>3, <1>4 DEF Init, TypeInv

LEMMA TaskStep ==
  ASSUME TypeInv, NEW t \in Tasks, NEW x \in TaskType(t), task' = [task EXCEPT ![t] = x]
  PROVE  /\ TasksType'
         /\ task'[t] = x
         /\ \A u \in Tasks \ {t} : task'[u] = task[u]
<1>1. /\ task \in [Tasks -> UNION {TaskType(u) : u \in Tasks}]
      /\ \A u \in Tasks : task[u] \in TaskType(u)
  BY DEF TypeInv, TasksType
<1>2. task' \in [Tasks -> UNION {TaskType(u) : u \in Tasks}]
  BY <1>1
<1>3. task'[t] = x /\ \A u \in Tasks \ {t} : task'[u] = task[u]
  BY <1>1
<1>4. \A u \in Tasks : task'[u] \in TaskType(u)
  BY <1>1, <1>3
<1>5. QED
  BY <1>2, <1>3, <1>4 DEF TasksType, TaskType, Open, ChosenTask, Running, FailedTask, Over

\* The ledger of a step that writes nothing into it.
LEMMA LedgerStays ==
  ASSUME TypeInv, UNCHANGED <<charges, usage, answers>>, excused' \subseteq Tasks,
         \A t \in Tasks : \/ task'[t].pc = "over"
                          \/ task[t].pc # "idle" /\ task[t].pc # "over" /\ task'[t].pc # "idle"
                          \/ task'[t].pc = task[t].pc
  PROVE  LedgerType'
BY ConstantsAssumption DEF TypeInv, LedgerType

\* The ledger of a step of one task.
LEMMA LedgerStep ==
  ASSUME TypeInv, NEW t \in Tasks, \A u \in Tasks \ {t} : task'[u] = task[u],
         NEW c \in Seq({"success", "error"}), charges' = [charges EXCEPT ![t] = c],
         NEW e \in Seq(0 .. Len(c)), usage' = [usage EXCEPT ![t] = e],
         answers' \in [Tasks -> Nat], excused' \subseteq Tasks,
         task'[t].pc = "idle" => c = <<>> /\ e = <<>>,
         t \in Metered /\ task'[t].pc \notin {"idle", "over"} => c = <<"success">>
  PROVE  LedgerType'
<1>1. LedgerType /\ Metered \subseteq Tasks
  BY ConstantsAssumption DEF TypeInv
<1>2. /\ charges' \in [Tasks -> Seq({"success", "error"})]
      /\ charges'[t] = c /\ \A u \in Tasks \ {t} : charges'[u] = charges[u]
  BY <1>1 DEF LedgerType
<1>3. e \in Seq(Nat)
  <2>1. 0 .. Len(c) \subseteq Nat
    OBVIOUS
  <2>2. QED
    BY <2>1
<1>4. /\ usage' \in [Tasks -> Seq(Nat)]
      /\ usage'[t] = e /\ \A u \in Tasks \ {t} : usage'[u] = usage[u]
  BY <1>1, <1>3 DEF LedgerType
<1>5. \A u \in Tasks : usage'[u] \in Seq(0 .. Len(charges'[u]))
  BY <1>1, <1>2, <1>4 DEF LedgerType
<1>6. \A u \in Tasks : task'[u].pc = "idle" => charges'[u] = <<>> /\ usage'[u] = <<>>
  BY <1>1, <1>2, <1>4 DEF LedgerType
<1>7. \A u \in Metered : task'[u].pc \notin {"idle", "over"} => charges'[u] = <<"success">>
  BY <1>1, <1>2 DEF LedgerType
<1>8. QED
  BY <1>2, <1>4, <1>5, <1>6, <1>7 DEF LedgerType

LEMMA StartType ==
  ASSUME TypeInv, NEW t \in Tasks, Start(t)
  PROVE  TypeInv'
<1> DEFINE opened == [pc |-> "open", action |-> ActionOf(t), left |-> Agents[t]]
           over == [pc |-> "over", ok |-> FALSE]
<1>1. Agents[t] \in Nat /\ MaxFaults \in Nat
  BY ConstantsAssumption
<1>2. opened \in TaskType(t) /\ over \in TaskType(t)
  BY <1>1 DEF TaskType, Open, Over, ActionOf
<1>3. /\ UNCHANGED <<blacklist, failing, key, plan, changes, usage, answers>>
      /\ excused' = excused \/ excused' = excused \cup {t}
  BY DEF Start, settings
<1>4. faults' \in 0 .. MaxFaults
  BY <1>1 DEF Start, Fault, TypeInv
<1>5. \/ /\ task' = [task EXCEPT ![t] = opened] /\ t \in Metered
         /\ charges' = [charges EXCEPT ![t] = Append(charges[t], "success")]
      \/ task' = [task EXCEPT ![t] = opened] /\ t \notin Metered /\ UNCHANGED charges
      \/ /\ task' = [task EXCEPT ![t] = over]
         /\ \/ UNCHANGED charges
            \/ charges' = [charges EXCEPT ![t] = Append(charges[t], "success")]
  BY DEF Start, ActionOf, Charged
<1>6. opened.pc = "open" /\ over.pc = "over"
  OBVIOUS
<1> HIDE DEF opened, over
<1>7. charges[t] = <<>> /\ usage[t] = <<>> /\ LedgerType
  BY DEF Start, At, LedgerType, TypeInv
<1>8. \E c \in {<<>>, <<"success">>} :
        /\ charges' = [charges EXCEPT ![t] = c]
        /\ \/ task' = [task EXCEPT ![t] = opened] /\ (t \in Metered => c = <<"success">>)
           \/ task' = [task EXCEPT ![t] = over]
  <2>1. charges = [charges EXCEPT ![t] = <<>>]
    BY <1>7 DEF LedgerType
  <2>2. Append(charges[t], "success") = <<"success">>
    BY <1>7
  <2>3. QED
    BY <1>5, <2>1, <2>2
<1>9. PICK c \in {<<>>, <<"success">>} :
        /\ charges' = [charges EXCEPT ![t] = c]
        /\ \/ task' = [task EXCEPT ![t] = opened] /\ (t \in Metered => c = <<"success">>)
           \/ task' = [task EXCEPT ![t] = over]
  BY <1>8
<1>10. /\ TasksType' /\ \A u \in Tasks \ {t} : task'[u] = task[u]
       /\ \/ task'[t] = opened /\ (t \in Metered => c = <<"success">>)
          \/ task'[t] = over
  BY <1>2, <1>9, TaskStep
<1>11. usage' = [usage EXCEPT ![t] = <<>>]
  <2>1. usage \in [Tasks -> Seq(Nat)]
    BY <1>7 DEF LedgerType
  <2>2. QED
    BY <1>3, <1>7, <2>1
<1>12. c \in Seq({"success", "error"}) /\ <<>> \in Seq(0 .. Len(c))
  <2>1. <<"success">> \in Seq({"success", "error"})
    OBVIOUS
  <2>2. <<>> \in Seq({"success", "error"}) /\ <<>> \in Seq(0 .. Len(c))
    OBVIOUS
  <2>3. QED
    BY <1>9, <2>1, <2>2, Zenon
<1>13. LedgerType'
  <2>1. answers' \in [Tasks -> Nat] /\ excused' \subseteq Tasks
    BY <1>3, <1>7 DEF LedgerType
  <2>2. QED
    BY <1>6, <1>9, <1>10, <1>11, <1>12, <2>1, LedgerStep
<1>14. QED
  BY <1>3, <1>4, <1>10, <1>13 DEF TypeInv

LEMMA ModesType ==
  ASSUME TypeInv, NEW t \in Tasks, NEW readable \in BOOLEAN
  PROVE  KeyMode(Org[t], readable) \in KeyModes /\ RoutingMode(t, readable) \in RoutingModes
<1>1. DefaultMode \in KeyModes /\ Asked[t] \in RoutingModes
  BY ConstantsAssumption
<1>2. CASE ~readable \/ Org[t] = None
  BY <1>1, <1>2 DEF KeyMode, RoutingMode
<1>3. CASE readable /\ Org[t] # None
  <2>1. Org[t] \in Orgs
    BY <1>3 DEF Orgs
  <2>2. plan[Org[t]] \in Plans
    BY <2>1 DEF TypeInv
  <2>3. /\ plan[Org[t]].mode \in KeyModes
        /\ plan[Org[t]].allowed \in Seq(RoutingModes) /\ plan[Org[t]].allowed # <<>>
    BY <2>2, ConstantsAssumption
  <2>4. Head(plan[Org[t]].allowed) \in RoutingModes
    BY <2>3
  <2>5. QED
    BY <1>1, <1>3, <2>3, <2>4 DEF KeyMode, RoutingMode
<1>4. QED
  BY <1>2, <1>3

LEMMA ChosenType ==
  ASSUME NEW t \in Tasks, NEW readable \in BOOLEAN, NEW u
  PROVE  Chosen(t, readable, u) \subseteq Providers
BY DEF Chosen, Available, Providers, Theirs, OwnKeys

\* What a run that begins has chosen.
BegunAs(t, readable) ==
  [pc |-> "chosen", action |-> task[t].action, left |-> task[t].left,
   providers |-> Chosen(t, readable, blacklist'), mode |-> KeyMode(Org[t], readable),
   spared |-> Spared(failing')]

LEMMA BeginType ==
  ASSUME TypeInv, NEW t \in Tasks, Begin(t)
  PROVE  TypeInv'
<1>1. /\ blacklist \in Left /\ failing \in Left /\ Duration \in Nat /\ MaxFaults \in Nat
      /\ Agents[t] \in Nat
  BY ConstantsAssumption DEF TypeInv
<1>2. [n \in Names |-> -1] \in Left
  BY <1>1 DEF Left
<1>3. blacklist' \in Left
  BY <1>1, <1>2 DEF Begin, Recovered
<1>4. failing' \in Left
  BY <1>1, <1>2 DEF Begin
<1>5. PICK readable \in BOOLEAN :
        /\ IF readable THEN UNCHANGED faults ELSE Org[t] # None /\ Fault
        /\ task' = [task EXCEPT ![t] = BegunAs(t, readable)]
  BY DEF Begin, BegunAs
<1>6. faults' \in 0 .. MaxFaults
  BY <1>1, <1>5 DEF Fault, TypeInv
<1>7. task[t] \in Open(t) /\ task[t].left > 0
  BY TaskFields DEF Begin
<1>8. task[t].action = ActionOf(t) /\ task[t].left \in 1 .. Agents[t]
  BY <1>1, <1>7 DEF Open
<1>9. KeyMode(Org[t], readable) \in KeyModes
  BY ModesType
<1>10. BegunAs(t, readable) \in ChosenTask(t)
  <2>1. Chosen(t, readable, blacklist') \subseteq Providers
    BY ChosenType
  <2>2. Spared(failing') \subseteq Names
    BY DEF Spared
  <2>3. QED
    BY <1>8, <1>9, <2>1, <2>2 DEF BegunAs, ChosenTask
<1>12. PICK x \in TaskType(t) : task' = [task EXCEPT ![t] = x] /\ x.pc = "chosen"
  BY <1>5, <1>10 DEF TaskType, ChosenTask
<1>13. TasksType' /\ task'[t] = x /\ \A u \in Tasks \ {t} : task'[u] = task[u]
  BY <1>12, TaskStep
<1>14. LedgerType'
  <2>1. UNCHANGED <<charges, usage, answers>> /\ excused' \subseteq Tasks
    BY DEF Begin, ledger, TypeInv, LedgerType
  <2>2. task[t].pc = "open"
    BY DEF Begin, At
  <2>3. QED
    BY <1>12, <1>13, <2>1, <2>2, LedgerStays
<1>15. QED
  BY <1>3, <1>4, <1>6, <1>13, <1>14 DEF TypeInv, Begin, settings

\* A run that has chosen its providers goes on with them, or fails for want of one.
LEMMA RouteStep ==
  ASSUME TypeInv, NEW t \in Tasks, Route(t)
  PROVE  \E x \in FailedTask(t) \cup Running(t) :
           /\ task' = [task EXCEPT ![t] = x]
           /\ x \in Running(t) => /\ x.providers = task[t].providers
                                  /\ x.spared = task[t].spared
<1>1. task[t] \in ChosenTask(t)
  BY TaskFields DEF Route
<1>2. PICK readable \in BOOLEAN :
        task' = [task EXCEPT ![t] = IF task[t].providers = {} THEN Failed(t)
                                   ELSE Going(t, RoutingMode(t, readable))]
  BY DEF Route
<1>3. RoutingMode(t, readable) \in RoutingModes
  BY ModesType
<1>4. CASE task[t].providers = {}
  <2>1. Failed(t) \in FailedTask(t) /\ Failed(t) \notin Running(t)
    BY <1>1 DEF Failed, FailedTask, ChosenTask, Running
  <2>2. QED
    BY <1>2, <1>4, <2>1
<1>5. CASE task[t].providers # {}
  <2>1. /\ Going(t, RoutingMode(t, readable)) \in Running(t)
        /\ Going(t, RoutingMode(t, readable)).providers = task[t].providers
        /\ Going(t, RoutingMode(t, readable)).spared = task[t].spared
    BY <1>1, <1>3, <1>5 DEF Going, ChosenTask, Running
  <2>2. QED
    BY <1>2, <1>5, <2>1
<1>6. QED
  BY <1>4, <1>5

LEMMA RouteType ==
  ASSUME TypeInv, NEW t \in Tasks, Route(t)
  PROVE  TypeInv'
<1>1. PICK x \in FailedTask(t) \cup Running(t) : task' = [task EXCEPT ![t] = x]
  BY RouteStep
<1>2. x \in TaskType(t) /\ x.pc \in {"running", "failed"}
  BY <1>1 DEF TaskType, FailedTask, Running
<1>3. TasksType' /\ task'[t] = x /\ \A u \in Tasks \ {t} : task'[u] = task[u]
  BY <1>1, <1>2, TaskStep
<1>4. faults' \in 0 .. MaxFaults
  BY ConstantsAssumption DEF Route, Fault, TypeInv
<1>5. LedgerType'
  <2>1. UNCHANGED <<charges, usage, answers>> /\ excused' \subseteq Tasks
    BY DEF Route, ledger, TypeInv, LedgerType
  <2>2. task[t].pc = "chosen"
    BY DEF Route, At
  <2>3. QED
    BY <1>2, <1>3, <2>1, <2>2, LedgerStays
<1>6. QED
  BY <1>3, <1>4, <1>5 DEF TypeInv, Route, settings

\* What an answer writes into the ledger.
Paid(t, charged) ==
  IF OwnAction(t) /\ charged THEN Append(charges[t], "success") ELSE charges[t]
PaidBy(t, told) ==
  IF t \in Metered THEN 1 ELSE IF Org[t] # None /\ told THEN Len(charges[t]) + 1 ELSE 0
Noted(t, told, noted) ==
  IF noted THEN Append(usage[t], PaidBy(t, told)) ELSE usage[t]
Answered(t) == [pc |-> "open", action |-> task[t].action, left |-> task[t].left - 1]

LEMMA RunningFields ==
  ASSUME TypeInv, NEW t \in Tasks, At(t, "running")
  PROVE  /\ task[t].action = ActionOf(t) /\ task[t].left \in 1 .. Agents[t]
         /\ OwnAction(t) <=> Org[t] # None /\ t \notin Metered
         /\ t \in Metered => charges[t] = <<"success">>
         /\ Agents[t] \in Nat
<1>1. task[t] \in Running(t)
  BY TaskFields
<1>2. task[t].action = ActionOf(t) /\ task[t].left \in 1 .. Agents[t]
  BY <1>1 DEF Running
<1>3. t \in Metered => charges[t] = <<"success">>
  BY DEF TypeInv, LedgerType, At
<1>4. Agents[t] \in Nat
  BY ConstantsAssumption
<1>5. QED
  BY <1>2, <1>3, <1>4 DEF OwnAction, ActionOf

LEMMA AnswerWrites ==
  ASSUME TypeInv, NEW t \in Tasks, Answer(t)
  PROVE  \E charged, told, noted, kept \in BOOLEAN :
           /\ told => charged
           /\ OwnAction(t) \/ told
           /\ IF told /\ noted /\ kept THEN UNCHANGED <<faults, excused>>
              ELSE Fault /\ excused' = excused \cup {t}
           /\ charges' = [charges EXCEPT ![t] = Paid(t, charged)]
           /\ usage' = [usage EXCEPT ![t] = Noted(t, told, noted)]
           /\ task' = [task EXCEPT ![t] = IF kept THEN Answered(t) ELSE NextProvider(t)]
<1>1. /\ charges \in [Tasks -> Seq({"success", "error"})] /\ usage \in [Tasks -> Seq(Nat)]
      /\ charges[t] \in Seq({"success", "error"})
  BY DEF TypeInv, LedgerType
<1>2. PICK charged \in BOOLEAN, told \in BOOLEAN, noted \in BOOLEAN, kept \in BOOLEAN :
        /\ told => charged
        /\ OwnAction(t) \/ told
        /\ IF told /\ noted /\ kept THEN UNCHANGED <<faults, excused>>
           ELSE Fault /\ excused' = excused \cup {t}
        /\ charges' = IF OwnAction(t) /\ charged THEN Charged(t) ELSE charges
        /\ usage' = IF ~noted THEN usage
                    ELSE Used(t, IF ~OwnAction(t) THEN task[t].action
                                 ELSE IF told THEN Len(charges'[t]) ELSE 0)
        /\ task' = [task EXCEPT ![t] = IF kept THEN Answered(t) ELSE NextProvider(t)]
  BY DEF Answer, Answered
<1>3. charges' = [charges EXCEPT ![t] = Paid(t, charged)]
  <2>1. CASE OwnAction(t) /\ charged
    BY <1>1, <1>2, <2>1 DEF Charged, Paid
  <2>2. CASE ~(OwnAction(t) /\ charged)
    BY <1>1, <1>2, <2>2 DEF Paid
  <2>3. QED
    BY <2>1, <2>2
<1>4. charges'[t] = Paid(t, charged)
  BY <1>1, <1>3
<1>5. (IF ~OwnAction(t) THEN task[t].action
       ELSE IF told THEN Len(charges'[t]) ELSE 0) = PaidBy(t, told)
  <2>1. /\ task[t].action = ActionOf(t)
        /\ OwnAction(t) <=> Org[t] # None /\ t \notin Metered
    BY RunningFields DEF Answer
  <2>2. OwnAction(t) /\ told => Len(charges'[t]) = Len(charges[t]) + 1
    BY <1>1, <1>2, <1>4 DEF Paid
  <2>3. t \in Metered => Org[t] # None
    BY ConstantsAssumption
  <2>4. CASE OwnAction(t)
    BY <2>1, <2>2, <2>4 DEF PaidBy
  <2>5. CASE ~OwnAction(t)
    BY <2>1, <2>3, <2>5 DEF PaidBy, ActionOf
  <2>6. QED
    BY <2>4, <2>5
<1>6. usage' = [usage EXCEPT ![t] = Noted(t, told, noted)]
  <2>1. CASE noted
    BY <1>2, <1>5, <2>1 DEF Used, Noted
  <2>2. CASE ~noted
    BY <1>1, <1>2, <2>2 DEF Noted
  <2>3. QED
    BY <2>1, <2>2
<1>7. QED
  BY <1>2, <1>3, <1>6

LEMMA SeqWider ==
  ASSUME NEW a \in Nat, NEW b \in Nat, a <= b, NEW s \in Seq(0 .. a)
  PROVE  s \in Seq(0 .. b)
<1>1. 0 .. a \subseteq 0 .. b
  OBVIOUS
<1>2. QED
  BY <1>1

LEMMA NextProviderType ==
  ASSUME TypeInv, NEW t \in Tasks, At(t, "running")
  PROVE  NextProvider(t) \in TaskType(t) /\ NextProvider(t).pc \in {"running", "failed"}
<1> DEFINE others == task[t].providers \ {Current(t)}
<1>1. task[t] \in Running(t)
  BY TaskFields
<1>2. others \subseteq Providers
  BY <1>1 DEF Running
<1>3. CASE others = {}
  <2>1. NextProvider(t) = Failed(t)
    BY <1>3 DEF NextProvider
  <2>2. Failed(t) \in FailedTask(t)
    BY <1>1 DEF Failed, Running, FailedTask
  <2>3. QED
    BY <2>1, <2>2 DEF TaskType, FailedTask
<1>4. CASE others # {}
  <2>1. NextProvider(t) = [task[t] EXCEPT !.providers = others, !.tries = 1]
    BY <1>4 DEF NextProvider
  <2> HIDE DEF others
  <2>2. [task[t] EXCEPT !.providers = others, !.tries = 1] \in Running(t)
    BY <1>1, <1>2, <1>4 DEF Running
  <2>3. QED
    BY <2>1, <2>2 DEF TaskType, Running
<1>5. QED
  BY <1>3, <1>4

LEMMA AnswerType ==
  ASSUME TypeInv, NEW t \in Tasks, Answer(t)
  PROVE  TypeInv'
<1>1. PICK charged \in BOOLEAN, told \in BOOLEAN, noted \in BOOLEAN, kept \in BOOLEAN :
        /\ told => charged
        /\ OwnAction(t) \/ told
        /\ IF told /\ noted /\ kept THEN UNCHANGED <<faults, excused>>
           ELSE Fault /\ excused' = excused \cup {t}
        /\ charges' = [charges EXCEPT ![t] = Paid(t, charged)]
        /\ usage' = [usage EXCEPT ![t] = Noted(t, told, noted)]
        /\ task' = [task EXCEPT ![t] = IF kept THEN Answered(t) ELSE NextProvider(t)]
  BY AnswerWrites
<1>2. /\ task[t].action = ActionOf(t) /\ task[t].left \in 1 .. Agents[t]
      /\ OwnAction(t) <=> Org[t] # None /\ t \notin Metered
      /\ t \in Metered => charges[t] = <<"success">>
      /\ Agents[t] \in Nat
  BY RunningFields DEF Answer
<1>3. PICK x \in TaskType(t) : task' = [task EXCEPT ![t] = x] /\ x.pc \notin {"idle", "over"}
  <2>1. Answered(t) \in TaskType(t) /\ Answered(t).pc = "open"
    BY <1>2 DEF Answered, TaskType, Open
  <2>2. NextProvider(t) \in TaskType(t) /\ NextProvider(t).pc \in {"running", "failed"}
    BY NextProviderType DEF Answer
  <2>3. CASE kept
    BY <1>1, <2>1, <2>3
  <2>4. CASE ~kept
    BY <1>1, <2>2, <2>4
  <2>5. QED
    BY <2>3, <2>4
<1>5. TasksType' /\ task'[t] = x /\ \A u \in Tasks \ {t} : task'[u] = task[u]
  BY <1>3, TaskStep
<1>6. /\ charges[t] \in Seq({"success", "error"}) /\ usage[t] \in Seq(0 .. Len(charges[t]))
      /\ answers' \in [Tasks -> Nat]
  BY DEF TypeInv, LedgerType, Answer
<1>7. /\ Paid(t, charged) \in Seq({"success", "error"})
      /\ Len(Paid(t, charged)) >= Len(charges[t])
      /\ t \in Metered => Paid(t, charged) = <<"success">>
  BY <1>2, <1>6 DEF Paid
<1>8. PaidBy(t, told) \in 0 .. Len(Paid(t, charged))
  <2>1. CASE t \in Metered
    <3>1. Len(<<"success">>) = 1
      OBVIOUS
    <3>2. Len(Paid(t, charged)) = 1
      <4>1. Paid(t, charged) = <<"success">>
        BY <1>7, <2>1
      <4>2. QED
        BY <3>1, <4>1, Zenon
    <3>3. PaidBy(t, told) = 1
      BY <2>1 DEF PaidBy
    <3>4. QED
      BY <3>2, <3>3
  <2>2. CASE t \notin Metered
    BY <1>1, <1>2, <1>6, <1>7, <2>2 DEF PaidBy, Paid
  <2>3. QED
    BY <2>1, <2>2
<1>9. Noted(t, told, noted) \in Seq(0 .. Len(Paid(t, charged)))
  <2>1. Len(charges[t]) \in Nat /\ Len(Paid(t, charged)) \in Nat
    BY <1>6, <1>7
  <2>2. usage[t] \in Seq(0 .. Len(Paid(t, charged)))
    BY <1>6, <1>7, <2>1, SeqWider
  <2>3. QED
    <3> DEFINE S == 0 .. Len(Paid(t, charged))
    <3>1. PaidBy(t, told) \in S /\ usage[t] \in Seq(S)
      BY <1>8, <2>2
    <3> HIDE DEF S
    <3>2. Noted(t, told, noted) \in Seq(S)
      BY <3>1 DEF Noted
    <3>3. QED
      BY <3>2 DEF S
<1>10. excused' \subseteq Tasks
  BY <1>1 DEF TypeInv, LedgerType
<1>11. LedgerType'
  BY <1>1, <1>3, <1>5, <1>6, <1>7, <1>9, <1>10, LedgerStep
<1>12. faults' \in 0 .. MaxFaults
  BY <1>1, ConstantsAssumption DEF Fault, TypeInv
<1>13. QED
  BY <1>5, <1>11, <1>12 DEF TypeInv, Answer, settings

\* A step that only moves a working task on.
LEMMA MoveType ==
  ASSUME TypeInv, NEW t \in Tasks, NEW x \in TaskType(t),
         task' = [task EXCEPT ![t] = x], x.pc # "idle",
         task[t].pc # "idle" /\ task[t].pc # "over",
         UNCHANGED <<settings, ledger, excused, faults>>,
         blacklist' \in Left, failing' \in Left
  PROVE  TypeInv'
<1>1. TasksType' /\ task'[t] = x /\ \A u \in Tasks \ {t} : task'[u] = task[u]
  BY TaskStep
<1>2. LedgerType'
  <2>1. UNCHANGED <<charges, usage, answers>> /\ excused' \subseteq Tasks
    BY DEF ledger, TypeInv, LedgerType
  <2>2. QED
    BY <1>1, <2>1, LedgerStays
<1>3. QED
  BY <1>1, <1>2 DEF TypeInv, settings

LEMMA FailForGoodType ==
  ASSUME TypeInv, NEW t \in Tasks, FailForGood(t)
  PROVE  TypeInv'
<1>1. NextProvider(t) \in TaskType(t) /\ NextProvider(t).pc \in {"running", "failed"}
  BY NextProviderType DEF FailForGood
<1>2. blacklist \in Left /\ failing \in Left /\ Duration \in -1 .. Duration
  BY ConstantsAssumption DEF TypeInv
<1>3. blacklist' \in Left /\ failing' \in Left
  BY <1>2 DEF FailForGood, Left
<1>4. QED
  BY <1>1, <1>3, MoveType DEF FailForGood, At

LEMMA FailForNowType ==
  ASSUME TypeInv, NEW t \in Tasks, FailForNow(t)
  PROVE  TypeInv'
<1>1. NextProvider(t) \in TaskType(t) /\ NextProvider(t).pc \in {"running", "failed"}
  BY NextProviderType DEF FailForNow
<1>2. task[t] \in Running(t)
  BY TaskFields DEF FailForNow
<1>3. [task[t] EXCEPT !.tries = 2] \in Running(t)
  BY <1>2 DEF Running
<1>4. [task[t] EXCEPT !.tries = 2] \in TaskType(t) /\ [task[t] EXCEPT !.tries = 2].pc = "running"
  BY <1>3 DEF TaskType, Running
<1>5. PICK x \in TaskType(t) : task' = [task EXCEPT ![t] = x] /\ x.pc \in {"running", "failed"}
  BY <1>1, <1>4 DEF FailForNow
<1>6. UNCHANGED <<settings, ledger, excused, faults>> /\ blacklist' \in Left /\ failing' \in Left
  BY DEF FailForNow, TypeInv
<1>7. QED
  BY <1>5, <1>6, MoveType DEF FailForNow, At

LEMMA FailThisTimeType ==
  ASSUME TypeInv, NEW t \in Tasks, FailThisTime(t)
  PROVE  TypeInv'
<1>1. NextProvider(t) \in TaskType(t) /\ NextProvider(t).pc \in {"running", "failed"}
  BY NextProviderType DEF FailThisTime
<1>2. UNCHANGED <<settings, ledger, excused, faults>> /\ blacklist' \in Left /\ failing' \in Left
  BY DEF FailThisTime, TypeInv
<1>3. QED
  BY <1>1, <1>2, MoveType DEF FailThisTime, At

LEMMA MakeDoType ==
  ASSUME TypeInv, NEW t \in Tasks, MakeDo(t)
  PROVE  TypeInv'
<1> DEFINE x == [pc |-> "open", action |-> task[t].action, left |-> task[t].left - 1]
<1>1. task[t] \in FailedTask(t) /\ Agents[t] \in Nat
  BY TaskFields, ConstantsAssumption DEF MakeDo
<1>2. x \in TaskType(t) /\ x.pc = "open"
  BY <1>1 DEF FailedTask, TaskType, Open
<1>3. task' = [task EXCEPT ![t] = x]
  BY DEF MakeDo
<1> HIDE DEF x
<1>4. UNCHANGED <<settings, ledger, excused, faults>> /\ blacklist' \in Left /\ failing' \in Left
  BY DEF MakeDo, TypeInv
<1>5. QED
  BY <1>2, <1>3, <1>4, MoveType DEF MakeDo, At

\* What the end of a task writes into the ledger.
LEMMA FinishWrites ==
  ASSUME TypeInv, NEW t \in Tasks, NEW ok \in BOOLEAN, Finish(t, ok)
  PROVE  \/ t \notin Metered /\ UNCHANGED <<charges, excused, faults>>
         \/ /\ t \in Metered
            /\ charges' = [charges EXCEPT ![t] = <<Settled(ok)>>]
            /\ UNCHANGED <<excused, faults>>
         \/ Fault /\ excused' = excused \cup {t} /\ UNCHANGED charges
<1>1. ASSUME t \in Metered, charges' = [charges EXCEPT ![t][1] = Settled(ok)]
      PROVE  charges' = [charges EXCEPT ![t] = <<Settled(ok)>>]
  <2>1. task[t].pc \notin {"idle", "over"}
    BY DEF Finish, At
  <2>2. charges[t] = <<"success">>
    BY <1>1, <2>1 DEF TypeInv, LedgerType
  <2>3. charges' = [charges EXCEPT ![t] = [charges[t] EXCEPT ![1] = Settled(ok)]]
    BY <1>1
  <2>4. [<<"success">> EXCEPT ![1] = Settled(ok)] = <<Settled(ok)>>
    OBVIOUS
  <2>5. QED
    BY <2>2, <2>3, <2>4
<1>2. QED
  BY <1>1 DEF Finish

LEMMA FinishType ==
  ASSUME TypeInv, NEW t \in Tasks, NEW ok \in BOOLEAN, Finish(t, ok)
  PROVE  TypeInv'
<1> DEFINE over == [pc |-> "over", ok |-> ok]
<1>1. over \in TaskType(t) /\ over.pc = "over"
  BY DEF TaskType, Over
<1>2. task' = [task EXCEPT ![t] = over]
  BY DEF Finish
<1> HIDE DEF over
<1>3. TasksType' /\ task'[t] = over /\ \A u \in Tasks \ {t} : task'[u] = task[u]
  BY <1>1, <1>2, TaskStep
<1>4. /\ charges \in [Tasks -> Seq({"success", "error"})] /\ usage \in [Tasks -> Seq(Nat)]
      /\ charges[t] \in Seq({"success", "error"}) /\ usage[t] \in Seq(0 .. Len(charges[t]))
      /\ UNCHANGED <<usage, answers>> /\ answers \in [Tasks -> Nat]
  BY DEF TypeInv, LedgerType, Finish
<1>5. excused' \subseteq Tasks /\ faults' \in 0 .. MaxFaults
  <2>1. /\ excused \subseteq Tasks /\ faults \in 0 .. MaxFaults /\ MaxFaults \in Nat
        /\ excused' = excused \/ excused' = excused \cup {t}
        /\ faults' = faults \/ Fault
    BY FinishWrites, ConstantsAssumption DEF TypeInv, LedgerType
  <2>2. QED
    BY <2>1 DEF Fault
<1>6. PICK c \in Seq({"success", "error"}) :
        charges' = [charges EXCEPT ![t] = c] /\ usage[t] \in Seq(0 .. Len(c))
  <2>1. CASE UNCHANGED charges
    BY <1>4, <2>1
  <2>2. CASE t \in Metered /\ charges' = [charges EXCEPT ![t] = <<Settled(ok)>>]
    <3>1. <<"success">> \in Seq({"success", "error"}) /\ <<"error">> \in Seq({"success", "error"})
      OBVIOUS
    <3>2. <<Settled(ok)>> \in Seq({"success", "error"})
      BY <3>1 DEF Settled
    <3>3. task[t].pc \notin {"idle", "over"}
      BY DEF Finish, At
    <3>4. charges[t] = <<"success">>
      BY <2>2, <3>3 DEF TypeInv, LedgerType
    <3>5. Len(<<Settled(ok)>>) = Len(<<"success">>)
      OBVIOUS
    <3>6. QED
      BY <1>4, <2>2, <3>2, <3>4, <3>5
  <2>3. QED
    BY <2>1, <2>2, FinishWrites
<1>7. usage' = [usage EXCEPT ![t] = usage[t]]
  BY <1>4
<1>8. LedgerType'
  BY <1>1, <1>3, <1>4, <1>5, <1>6, <1>7, LedgerStep
<1>9. QED
  BY <1>3, <1>5, <1>8 DEF TypeInv, Finish, settings

LEMMA AdministerType ==
  ASSUME TypeInv, Administer
  PROVE  TypeInv'
<1>1. UNCHANGED <<task, ledger, blacklist, failing, excused, faults>>
  BY DEF Administer, CreateKey, UpdateKey, DeleteKey, ChangePlan
<1>2. TasksType' /\ LedgerType'
  BY <1>1 DEF TypeInv, TasksType, LedgerType, ledger
<1>3. changes' \in 0 .. MaxChanges
  <2>1. changes < MaxChanges /\ changes' = changes + 1
    BY DEF Administer, CreateKey, UpdateKey, DeleteKey, ChangePlan, Change
  <2>2. QED
    BY <2>1, ConstantsAssumption DEF TypeInv
<1>4. key' \in [Credentials -> {"absent", "ACTIVE", "DISABLED", "deleted"}]
  BY DEF Administer, CreateKey, UpdateKey, DeleteKey, ChangePlan, TypeInv
<1>5. plan' \in [Orgs -> Plans]
  BY DEF Administer, CreateKey, UpdateKey, DeleteKey, ChangePlan, TypeInv
<1>6. QED
  BY <1>1, <1>2, <1>3, <1>4, <1>5 DEF TypeInv, Left

LEMMA TickType ==
  ASSUME TypeInv, Tick
  PROVE  TypeInv'
<1>1. \A x \in Left : Later(x) \in Left
  BY ConstantsAssumption DEF Left, Later
<1>2. blacklist' \in Left /\ failing' \in Left
  BY <1>1 DEF Tick, TypeInv
<1>3. UNCHANGED <<settings, task, ledger, excused, faults>>
  BY DEF Tick
<1>4. TasksType' /\ LedgerType'
  BY <1>3 DEF TypeInv, TasksType, LedgerType, ledger
<1>5. QED
  BY <1>2, <1>3, <1>4 DEF TypeInv, settings

\* Tasks that are cut short.
LEMMA CutType ==
  ASSUME TypeInv, NEW cut \in SUBSET Tasks, CutShort(cut), UNCHANGED ledger
  PROVE  TasksType' /\ LedgerType'
<1> DEFINE over == [pc |-> "over", ok |-> FALSE]
<1>1. \A t \in Tasks : over \in TaskType(t)
  BY DEF TaskType, Over
<1>2. over.pc = "over"
  OBVIOUS
<1>3. /\ task' = [t \in Tasks |-> IF t \in cut THEN over ELSE task[t]]
      /\ excused' = excused \cup cut
  BY DEF CutShort
<1> HIDE DEF over
<1>4. /\ task \in [Tasks -> UNION {TaskType(u) : u \in Tasks}]
      /\ \A u \in Tasks : task[u] \in TaskType(u)
  BY DEF TypeInv, TasksType
<1>5. \A t \in Tasks : task'[t] \in TaskType(t)
  BY <1>1, <1>3, <1>4
<1>6. task' \in [Tasks -> UNION {TaskType(u) : u \in Tasks}]
  BY <1>3, <1>5
<1>7. TasksType'
  BY <1>5, <1>6 DEF TasksType, TaskType, Open, ChosenTask, Running, FailedTask, Over
<1>8. LedgerType'
  <2>1. UNCHANGED <<charges, usage, answers>> /\ excused' \subseteq Tasks
    BY <1>3 DEF ledger, TypeInv, LedgerType
  <2>2. QED
    BY <1>2, <1>3, <2>1, LedgerStays
<1>9. QED
  BY <1>7, <1>8

LEMMA RestartType ==
  ASSUME TypeInv, Restart
  PROVE  TypeInv'
<1>1. TasksType' /\ LedgerType'
  BY CutType DEF Restart, Working
<1>2. [n \in Names |-> -1] \in Left
  BY ConstantsAssumption DEF Left
<1>3. QED
  BY <1>1, <1>2, ConstantsAssumption DEF TypeInv, Restart, settings, Fault

LEMMA CancelType ==
  ASSUME TypeInv, NEW t \in Tasks, Cancel(t)
  PROVE  TypeInv'
<1>1. TasksType' /\ LedgerType'
  BY CutType DEF Cancel
<1>2. QED
  BY <1>1, ConstantsAssumption DEF TypeInv, Cancel, settings, Fault

LEMMA TypeNext == TypeInv /\ [Next]_vars => TypeInv'
<1> SUFFICES ASSUME TypeInv, [Next]_vars PROVE TypeInv'
  OBVIOUS
<1>1. ASSUME NEW t \in Tasks, Run(t) PROVE TypeInv'
  BY <1>1, BeginType, RouteType, AnswerType, FailForGoodType, FailForNowType, FailThisTimeType DEF Run
<1>2. ASSUME NEW t \in Tasks, End(t) PROVE TypeInv'
  BY <1>2, MakeDoType, FinishType DEF End
<1>3. CASE UNCHANGED vars
  BY <1>3 DEF TypeInv, TasksType, LedgerType, vars
<1>4. QED
  BY <1>1, <1>2, <1>3, StartType, AdministerType, TickType, CancelType, RestartType DEF Next

LEMMA TypesKept == Spec => []TypeInv
BY TypeInit, TypeNext, PTL DEF Spec

\* The state of a process that routes its runs keeps its type: a run that goes on
\* has a provider to try, a charged task has its action, and an event of usage
\* is on an action there is.
THEOREM TypeCorrect == Spec => []TypeOK
BY TypesKept, TypeInvSuffices, PTL

-----------------------------------------------------------------------------
(* Names that failed for good.  A report lasts no longer than the          *)
(* blacklisting of every name it is about.                                 *)

Reported == \A m \in Names : \A n \in Blacklisted(m) : failing[m] <= blacklist[n]

SparedInv ==
  /\ TypeInv
  /\ Reported
  /\ FailedIsSpared

LEMMA BlacklistedNames ==
  ASSUME NEW m \in Names
  PROVE  Blacklisted(m) \subseteq Names /\ m \in Blacklisted(m)
BY DEF Blacklisted

\* A step that leaves the blacklist alone, or clears it.
LEMMA ReportedStays ==
  ASSUME Reported,
         \/ UNCHANGED <<blacklist, failing>>
         \/ blacklist' = [n \in Names |-> -1] /\ failing' = [n \in Names |-> -1]
  PROVE  Reported'
<1>1. CASE UNCHANGED <<blacklist, failing>>
  BY <1>1 DEF Reported
<1>2. CASE blacklist' = [n \in Names |-> -1] /\ failing' = [n \in Names |-> -1]
  BY <1>2, BlacklistedNames DEF Reported
<1>3. QED
  BY <1>1, <1>2

LEMMA ReportedTick ==
  ASSUME TypeInv, Reported, Tick
  PROVE  Reported'
<1> SUFFICES ASSUME NEW m \in Names, NEW n \in Blacklisted(m)
             PROVE  failing'[m] <= blacklist'[n]
  BY DEF Reported
<1>1. n \in Names /\ failing[m] <= blacklist[n]
  BY BlacklistedNames DEF Reported
<1>2. failing[m] \in -1 .. Duration /\ blacklist[n] \in -1 .. Duration /\ Duration \in Nat
  BY <1>1, ConstantsAssumption DEF TypeInv, Left
<1>3. /\ failing'[m] = IF failing[m] = -1 THEN -1 ELSE failing[m] - 1
      /\ blacklist'[n] = IF blacklist[n] = -1 THEN -1 ELSE blacklist[n] - 1
  BY <1>1 DEF Tick, Later
<1>4. QED
  BY <1>1, <1>2, <1>3

LEMMA ReportedFailForGood ==
  ASSUME TypeInv, Reported, NEW t \in Tasks, FailForGood(t)
  PROVE  Reported'
<1> DEFINE name == Current(t).name
<1> SUFFICES ASSUME NEW m \in Names, NEW n \in Blacklisted(m)
             PROVE  failing'[m] <= blacklist'[n]
  BY DEF Reported
<1>1. n \in Names /\ failing[m] <= blacklist[n]
  BY BlacklistedNames DEF Reported
<1>2. /\ failing[m] \in -1 .. Duration /\ blacklist[n] \in -1 .. Duration /\ Duration \in Nat
      /\ failing \in Left
  BY <1>1, ConstantsAssumption DEF TypeInv, Left
<1>3. /\ blacklist' = [x \in Names |-> IF x \in Blacklisted(name) THEN Duration
                                       ELSE blacklist[x]]
      /\ failing' = [failing EXCEPT ![name] = Duration]
  BY DEF FailForGood
<1> HIDE DEF name
<1>4. failing'[m] = IF m = name THEN Duration ELSE failing[m]
  BY <1>2, <1>3 DEF Left
<1>5. blacklist'[n] = IF n \in Blacklisted(name) THEN Duration ELSE blacklist[n]
  BY <1>1, <1>3
<1>6. QED
  BY <1>1, <1>2, <1>4, <1>5

LEMMA ReportedNext ==
  ASSUME TypeInv, Reported, [Next]_vars
  PROVE  Reported'
<1>1. ASSUME NEW t \in Tasks, Start(t) \/ Run(t) \/ End(t)
      PROVE  Reported'
  <2>1. CASE Begin(t)
    BY <2>1, ReportedStays DEF Begin, Recovered
  <2>2. CASE Start(t) \/ Route(t) \/ Answer(t) \/ FailForNow(t) \/ FailThisTime(t) \/ End(t)
    BY <2>2, ReportedStays
    DEF Start, Route, Answer, FailForNow, FailThisTime, End, MakeDo, Finish
  <2>3. QED
    BY <1>1, <2>1, <2>2, ReportedFailForGood DEF Run
<1>2. CASE Administer
  BY <1>2, ReportedStays DEF Administer, CreateKey, UpdateKey, DeleteKey, ChangePlan
<1>3. CASE Restart
  BY <1>3, ReportedStays DEF Restart
<1>4. CASE UNCHANGED vars
  BY <1>4, ReportedStays DEF vars
<1>5. ASSUME NEW t \in Tasks, Cancel(t)
      PROVE  Reported'
  BY <1>5, ReportedStays DEF Cancel
<1>6. QED
  BY <1>1, <1>2, <1>3, <1>4, <1>5, ReportedTick DEF Next

\* Whether a task has chosen the providers of a run.
Picked(x) == x.pc \in {"chosen", "running"}

\* A task that goes on has none but providers it had.
Continues(t) ==
  \/ ~Picked(task'[t])
  \/ /\ Picked(task[t])
     /\ task'[t].providers \subseteq task[t].providers
     /\ task'[t].spared = task[t].spared

LEMMA NextProviderContinues ==
  ASSUME TypeInv, NEW t \in Tasks, At(t, "running"), task'[t] = NextProvider(t)
  PROVE  Continues(t)
<1>1. task[t] \in Running(t) /\ Picked(task[t])
  BY TaskFields DEF Picked, At
<1>2. CASE NextProvider(t).pc = "failed"
  BY <1>2 DEF Continues, Picked
<1>3. CASE NextProvider(t).pc # "failed"
  <2>1. NextProvider(t) = [task[t] EXCEPT !.providers = @ \ {Current(t)}, !.tries = 1]
    BY <1>3 DEF NextProvider, Failed
  <2>2. /\ NextProvider(t).providers = task[t].providers \ {Current(t)}
        /\ NextProvider(t).spared = task[t].spared
    BY <1>1, <2>1 DEF Running
  <2>3. QED
    BY <1>1, <2>2 DEF Continues
<1>4. QED
  BY <1>2, <1>3

LEMMA OneTaskMoves ==
  ASSUME TypeInv, NEW t \in Tasks, Start(t) \/ Run(t) \/ End(t)
  PROVE  \A u \in Tasks \ {t} : task'[u] = task[u]
<1>1. task \in [Tasks -> UNION {TaskType(u) : u \in Tasks}]
  BY DEF TypeInv, TasksType
<1>2. \E x : task' = [task EXCEPT ![t] = x]
  <2>1. CASE Start(t)
    BY <2>1 DEF Start
  <2>2. CASE Begin(t)
    BY <2>2 DEF Begin
  <2>3. CASE Route(t)
    BY <2>3 DEF Route
  <2>4. CASE Answer(t)
    BY <2>4 DEF Answer
  <2>5. CASE FailForGood(t) \/ FailForNow(t) \/ FailThisTime(t)
    BY <2>5 DEF FailForGood, FailForNow, FailThisTime
  <2>6. CASE End(t)
    BY <2>6 DEF End, MakeDo, Finish
  <2>7. QED
    BY <2>1, <2>2, <2>3, <2>4, <2>5, <2>6 DEF Run
<1>3. QED
  BY <1>1, <1>2

LEMMA TaskMoves ==
  ASSUME TypeInv, NEW t \in Tasks, Start(t) \/ Run(t) \/ End(t)
  PROVE  Begin(t) \/ Continues(t)
<1>1. task \in [Tasks -> UNION {TaskType(u) : u \in Tasks}]
  BY DEF TypeInv, TasksType
<1>2. CASE Start(t) \/ End(t)
  <2> DEFINE idled == task'[t].pc = "open" \/ task'[t].pc = "over"
  <2>1. ASSUME Start(t) PROVE idled
    <3>1. \/ task' = [task EXCEPT ![t] = [pc |-> "open", action |-> 1, left |-> Agents[t]]]
          \/ task' = [task EXCEPT ![t] = [pc |-> "open", action |-> 0, left |-> Agents[t]]]
          \/ task' = [task EXCEPT ![t] = [pc |-> "over", ok |-> FALSE]]
      BY <2>1 DEF Start
    <3>2. QED
      BY <1>1, <3>1
  <2>2. ASSUME MakeDo(t) PROVE idled
    <3>1. task' = [task EXCEPT ![t] =
                     [pc |-> "open", action |-> task[t].action, left |-> task[t].left - 1]]
      BY <2>2 DEF MakeDo
    <3>2. QED
      BY <1>1, <3>1
  <2>3. ASSUME NEW ok, Finish(t, ok) PROVE idled
    <3>1. task' = [task EXCEPT ![t] = [pc |-> "over", ok |-> ok]]
      BY <2>3 DEF Finish
    <3>2. QED
      BY <1>1, <3>1
  <2>4. idled
    BY <1>2, <2>1, <2>2, <2>3 DEF End
  <2>5. QED
    BY <2>4 DEF Continues, Picked
<1>3. ASSUME At(t, "running"), task' = [task EXCEPT ![t] = NextProvider(t)]
      PROVE  Continues(t)
  BY <1>1, <1>3, NextProviderContinues
<1>4. ASSUME At(t, "running"), task' = [task EXCEPT ![t] = [task[t] EXCEPT !.tries = 2]]
      PROVE  Continues(t)
  <2>1. task[t] \in Running(t) /\ Picked(task[t])
    BY <1>4, TaskFields DEF Picked, At
  <2>2. task'[t] = [task[t] EXCEPT !.tries = 2]
    BY <1>1, <1>4
  <2>3. task'[t].providers = task[t].providers /\ task'[t].spared = task[t].spared
    BY <2>1, <2>2 DEF Running
  <2>4. QED
    BY <2>1, <2>3 DEF Continues
<1>5. CASE FailForNow(t)
  BY <1>3, <1>4, <1>5 DEF FailForNow
<1>6. CASE FailForGood(t) \/ FailThisTime(t)
  BY <1>3, <1>6 DEF FailForGood, FailThisTime
<1>7. CASE Route(t)
  <2>1. PICK x \in FailedTask(t) \cup Running(t) :
          /\ task' = [task EXCEPT ![t] = x]
          /\ x \in Running(t) => /\ x.providers = task[t].providers
                                 /\ x.spared = task[t].spared
    BY <1>7, RouteStep
  <2>2. task'[t] = x
    BY <1>1, <2>1
  <2>3. Picked(task[t])
    BY <1>7 DEF Route, At, Picked
  <2>4. CASE x \in FailedTask(t)
    BY <2>2, <2>4 DEF FailedTask, Continues, Picked
  <2>5. CASE x \in Running(t)
    BY <2>1, <2>2, <2>3, <2>5 DEF Continues
  <2>6. QED
    BY <2>1, <2>4, <2>5
<1>8. CASE Answer(t)
  <2>1. PICK kept \in BOOLEAN :
          task' = [task EXCEPT ![t] = IF kept THEN Answered(t) ELSE NextProvider(t)]
    BY <1>8 DEF Answer, Answered
  <2>2. CASE kept
    <3>1. task'[t] = Answered(t)
      BY <1>1, <2>1, <2>2
    <3>2. QED
      BY <3>1 DEF Answered, Continues, Picked
  <2>3. CASE ~kept
    BY <1>3, <1>8, <2>1, <2>3 DEF Answer
  <2>4. QED
    BY <2>2, <2>3
<1>9. QED
  BY <1>2, <1>5, <1>6, <1>7, <1>8 DEF Run

LEMMA BeginSpares ==
  ASSUME TypeInv, Reported, NEW t \in Tasks, Begin(t)
  PROVE  \A e \in task'[t].providers : e.name \notin task'[t].spared
<1>1. TypeInv' /\ Reported'
  BY BeginType, ReportedNext DEF Next, Run
<1>2. task \in [Tasks -> UNION {TaskType(u) : u \in Tasks}]
  BY DEF TypeInv, TasksType
<1>3. PICK readable \in BOOLEAN : task' = [task EXCEPT ![t] = BegunAs(t, readable)]
  BY DEF Begin, BegunAs
<1>4. task'[t] = BegunAs(t, readable)
  BY <1>2, <1>3
<1>5. /\ task'[t].providers = Chosen(t, readable, blacklist')
      /\ task'[t].spared = Spared(failing')
  BY <1>4 DEF BegunAs
<1>6. \A e \in Chosen(t, readable, blacklist') : ~IsBlacklisted(blacklist', e.name)
  BY DEF Chosen, Available
<1>7. \A n \in Spared(failing') : IsBlacklisted(blacklist', n)
  <2> SUFFICES ASSUME NEW n \in Spared(failing') PROVE IsBlacklisted(blacklist', n)
    OBVIOUS
  <2>1. PICK m \in Names : (m = n \/ {m, n} \subseteq OpenRouter) /\ failing'[m] # -1
    BY DEF Spared
  <2>2. n \in Names
    BY DEF Spared
  <2>3. n \in Blacklisted(m)
    BY <2>1, <2>2 DEF Blacklisted
  <2>4. failing'[m] <= blacklist'[n]
    BY <1>1, <2>3 DEF Reported
  <2>5. failing'[m] \in -1 .. Duration /\ blacklist'[n] \in -1 .. Duration /\ Duration \in Nat
    BY <1>1, <2>2, ConstantsAssumption DEF TypeInv, Left
  <2>6. QED
    BY <2>1, <2>4, <2>5 DEF IsBlacklisted
<1>8. QED
  BY <1>5, <1>6, <1>7

LEMMA SparedNext == SparedInv /\ [Next]_vars => SparedInv'
<1> SUFFICES ASSUME SparedInv, [Next]_vars PROVE SparedInv'
  OBVIOUS
<1> USE DEF SparedInv
<1>1. TypeInv' /\ Reported'
  BY TypeNext, ReportedNext
<1> SUFFICES ASSUME NEW u \in Tasks, Picked(task'[u])
             PROVE  \A e \in task'[u].providers : e.name \notin task'[u].spared
  BY <1>1 DEF FailedIsSpared, Picked
<1>2. CASE Continues(u)
  BY <1>2 DEF Continues, FailedIsSpared, Picked
<1>3. CASE task'[u] = task[u]
  BY <1>3 DEF FailedIsSpared, Picked
<1>4. ASSUME NEW t \in Tasks, Start(t) \/ Run(t) \/ End(t)
      PROVE  Begin(u) \/ Continues(u) \/ task'[u] = task[u]
  BY <1>4, OneTaskMoves, TaskMoves
<1>5. ASSUME NEW cut \in SUBSET Tasks, CutShort(cut)
      PROVE  task'[u] = task[u]
  <2>1. task'[u] = task[u] \/ task'[u] = [pc |-> "over", ok |-> FALSE]
    BY <1>5 DEF CutShort
  <2>2. QED
    BY <2>1 DEF Picked
<1>6. ASSUME Restart \/ \E t \in Tasks : Cancel(t)
      PROVE  task'[u] = task[u]
  BY <1>5, <1>6 DEF Restart, Cancel, Working
<1>7. CASE Administer \/ Tick \/ UNCHANGED vars
  BY <1>3, <1>7 DEF Administer, CreateKey, UpdateKey, DeleteKey, ChangePlan, Tick, vars
<1>8. QED
  BY <1>2, <1>3, <1>4, <1>6, <1>7, BeginSpares DEF Next

\* No run tries a provider that had reported, when the run began, that its key or
\* its credits are no good, nor one that shares those credits, for any number of
\* runs, names and keys.
THEOREM FailuresAreSpared == Spec => []FailedIsSpared
<1>1. Init => SparedInv
  <2> SUFFICES ASSUME Init PROVE SparedInv
    OBVIOUS
  <2>1. TypeInv
    BY TypeInit
  <2>2. Reported
    BY BlacklistedNames DEF Init, Reported
  <2>3. FailedIsSpared
    BY DEF Init, FailedIsSpared, Idle
  <2>4. QED
    BY <2>1, <2>2, <2>3 DEF SparedInv
<1>2. SparedInv => FailedIsSpared
  BY DEF SparedInv
<1>3. QED
  BY <1>1, <1>2, SparedNext, PTL DEF Spec

-----------------------------------------------------------------------------
(* The ledger of a task that lost no write.                                *)

MeteredLedger(t) ==
  /\ \A i \in DOMAIN usage[t] : usage[t][i] = 1
  /\ At(t, "over") /\ task[t].ok => charges[t] = <<"success">>
  /\ At(t, "over") /\ ~task[t].ok => charges[t] \in {<<>>, <<"error">>}

PlatformLedger(t) ==
  /\ charges[t] = <<>>
  /\ \A i \in DOMAIN usage[t] : usage[t][i] = 0

OwnLedger(t) ==
  /\ Len(charges[t]) = answers[t]
  /\ \A i \in DOMAIN charges[t] : charges[t][i] = "success"
  /\ \A i \in DOMAIN usage[t] : usage[t][i] = i

LedgerOf(t) ==
  /\ Len(usage[t]) = answers[t]
  /\ t \in Metered => MeteredLedger(t)
  /\ t \notin Metered /\ Org[t] = None => PlatformLedger(t)
  /\ t \notin Metered /\ Org[t] # None => OwnLedger(t)

LedgerInv == TypeInv /\ \A t \in Tasks \ excused : LedgerOf(t)

LEMMA BilledNone ==
  ASSUME NEW t, charges[t] = <<>> \/ charges[t] = <<"error">>
  PROVE  Billed(t) = 0
<1>1. {i \in DOMAIN charges[t] : charges[t][i] = "success"} = {}
  OBVIOUS
<1>2. QED
  BY <1>1, FS_EmptySet DEF Billed

LEMMA BilledAll ==
  ASSUME NEW t, charges[t] \in Seq({"success", "error"}),
         \A i \in DOMAIN charges[t] : charges[t][i] = "success"
  PROVE  Billed(t) = Len(charges[t])
<1>1. DOMAIN charges[t] = 1 .. Len(charges[t]) /\ Len(charges[t]) \in Nat
  OBVIOUS
<1>2. {i \in DOMAIN charges[t] : charges[t][i] = "success"} = 1 .. Len(charges[t])
  BY <1>1
<1>3. Cardinality(1 .. Len(charges[t])) = Len(charges[t])
  BY <1>1, FS_Interval
<1>4. QED
  BY <1>2, <1>3 DEF Billed

LEMMA LedgerSuffices == LedgerInv => ChargedOnce
<1> SUFFICES ASSUME LedgerInv, NEW t \in Tasks \ excused
    PROVE /\ Billed(t) = CASE t \in Metered -> IF At(t, "idle") \/ (At(t, "over") /\ ~task[t].ok)
                                               THEN 0 ELSE 1
                            [] Org[t] = None -> 0
                            [] OTHER -> answers[t]
          /\ Len(usage[t]) = answers[t]
          /\ \A i \in DOMAIN usage[t] :
               usage[t][i] = CASE t \in Metered -> 1 [] Org[t] = None -> 0 [] OTHER -> i
  BY DEF ChargedOnce
<1>1. LedgerOf(t) /\ TypeInv /\ charges[t] \in Seq({"success", "error"}) /\ t \in Tasks
  BY DEF LedgerInv, TypeInv, LedgerType
<1>2. Org[t] = None => t \notin Metered
  BY ConstantsAssumption
<1>3. CASE t \in Metered
  <2>1. MeteredLedger(t)
    BY <1>1, <1>3 DEF LedgerOf
  <2>2. charges[t] = <<"success">> => Billed(t) = 1
    <3>1. Len(<<"success">>) = 1 /\ \A i \in DOMAIN <<"success">> : <<"success">>[i] = "success"
      OBVIOUS
    <3>2. QED
      BY <1>1, <3>1, BilledAll
  <2>3. CASE At(t, "idle")
    <3>1. charges[t] = <<>>
      BY <1>1, <2>3 DEF At, TypeInv, LedgerType
    <3>2. QED
      BY <1>1, <1>2, <1>3, <2>1, <2>3, <3>1, BilledNone DEF LedgerOf, MeteredLedger
  <2>4. CASE At(t, "over") /\ task[t].ok
    BY <1>1, <1>2, <1>3, <2>1, <2>2, <2>4 DEF LedgerOf, MeteredLedger, At
  <2>5. CASE At(t, "over") /\ ~task[t].ok
    <3>1. Billed(t) = 0
      BY <2>1, <2>5, BilledNone DEF MeteredLedger
    <3>2. QED
      BY <1>1, <1>2, <1>3, <2>1, <2>5, <3>1 DEF LedgerOf, MeteredLedger
  <2>6. CASE ~At(t, "idle") /\ ~At(t, "over")
    <3>1. charges[t] = <<"success">>
      BY <1>1, <1>3, <2>6 DEF At, TypeInv, LedgerType
    <3>2. QED
      BY <1>1, <1>2, <1>3, <2>1, <2>2, <2>6, <3>1 DEF LedgerOf, MeteredLedger
  <2>7. QED
    BY <2>3, <2>4, <2>5, <2>6
<1>4. CASE Org[t] = None
  <2>1. PlatformLedger(t)
    BY <1>1, <1>2, <1>4 DEF LedgerOf
  <2>2. Billed(t) = 0
    BY <2>1, BilledNone DEF PlatformLedger
  <2>3. QED
    BY <1>1, <1>2, <1>4, <2>1, <2>2 DEF LedgerOf, PlatformLedger
<1>5. CASE t \notin Metered /\ Org[t] # None
  <2>1. OwnLedger(t)
    BY <1>1, <1>5 DEF LedgerOf
  <2>2. Billed(t) = answers[t]
    BY <1>1, <2>1, BilledAll DEF OwnLedger
  <2>3. QED
    BY <1>1, <1>5, <2>1, <2>2 DEF LedgerOf, OwnLedger
<1>6. QED
  BY <1>3, <1>4, <1>5

\* A task whose rows do not change, and that does not end.
LEMMA LedgerOfStays ==
  ASSUME NEW u \in Tasks, LedgerOf(u),
         charges'[u] = charges[u], usage'[u] = usage[u], answers'[u] = answers[u],
         u \in Metered /\ task'[u].pc = "over" => task'[u] = task[u]
  PROVE  LedgerOf(u)'
BY DEF LedgerOf, MeteredLedger, PlatformLedger, OwnLedger, At

LEMMA LedgerOfStart ==
  ASSUME LedgerInv, NEW t \in Tasks, Start(t), t \notin excused, t \notin excused'
  PROVE  LedgerOf(t)'
<1>1. /\ TypeInv /\ LedgerOf(t) /\ charges \in [Tasks -> Seq({"success", "error"})]
      /\ task \in [Tasks -> UNION {TaskType(u) : u \in Tasks}] /\ t \in Tasks
  BY DEF LedgerInv, TypeInv, LedgerType, TasksType
<1>2. charges[t] = <<>> /\ UNCHANGED <<usage, answers>>
  BY <1>1 DEF Start, At, TypeInv, LedgerType
<1>3. CASE t \in Metered
  <2>1. /\ Len(usage[t]) = answers[t] /\ \A i \in DOMAIN usage[t] : usage[t][i] = 1
    BY <1>1, <1>3 DEF LedgerOf, MeteredLedger
  <2>2. \/ task'[t].pc = "open"
        \/ task'[t].pc = "over" /\ task'[t].ok = FALSE /\ charges' = charges
    <3>1. \/ task' = [task EXCEPT ![t] = [pc |-> "open", action |-> 1, left |-> Agents[t]]]
          \/ /\ task' = [task EXCEPT ![t] = [pc |-> "over", ok |-> FALSE]]
             /\ charges' = charges
      BY <1>1, <1>3 DEF Start
    <3>2. QED
      BY <1>1, <3>1
  <2>3. QED
    BY <1>2, <1>3, <2>1, <2>2 DEF LedgerOf, MeteredLedger, At
<1>4. CASE t \notin Metered
  <2>1. charges' = charges
    BY <1>4 DEF Start
  <2>2. QED
    BY <1>1, <1>2, <1>4, <2>1, LedgerOfStays
<1>5. QED
  BY <1>3, <1>4

LEMMA Appended ==
  ASSUME NEW S, NEW s \in Seq(S), NEW x \in S
  PROVE  /\ Len(Append(s, x)) = Len(s) + 1
         /\ \A i \in DOMAIN Append(s, x) :
              /\ i \in DOMAIN s \/ i = Len(s) + 1
              /\ Append(s, x)[i] = IF i \in DOMAIN s THEN s[i] ELSE x
OBVIOUS

LEMMA LedgerOfAnswer ==
  ASSUME LedgerInv, NEW t \in Tasks, Answer(t), t \notin excused'
  PROVE  LedgerOf(t)'
<1>1. /\ TypeInv /\ charges \in [Tasks -> Seq({"success", "error"})]
      /\ usage \in [Tasks -> Seq(Nat)] /\ answers \in [Tasks -> Nat]
      /\ charges[t] \in Seq({"success", "error"}) /\ usage[t] \in Seq(Nat) /\ answers[t] \in Nat
      /\ task \in [Tasks -> UNION {TaskType(u) : u \in Tasks}]
  BY DEF LedgerInv, TypeInv, LedgerType, TasksType
<1>2. PICK charged \in BOOLEAN, told \in BOOLEAN, noted \in BOOLEAN, kept \in BOOLEAN :
        /\ told => charged
        /\ OwnAction(t) \/ told
        /\ IF told /\ noted /\ kept THEN UNCHANGED <<faults, excused>>
           ELSE Fault /\ excused' = excused \cup {t}
        /\ charges' = [charges EXCEPT ![t] = Paid(t, charged)]
        /\ usage' = [usage EXCEPT ![t] = Noted(t, told, noted)]
        /\ task' = [task EXCEPT ![t] = IF kept THEN Answered(t) ELSE NextProvider(t)]
  BY <1>1, AnswerWrites
<1>3. charged /\ told /\ noted /\ kept /\ t \notin excused
  BY <1>2
<1>4. LedgerOf(t)
  BY <1>3 DEF LedgerInv
<1>5. /\ charges'[t] = Paid(t, charged) /\ usage'[t] = Append(usage[t], PaidBy(t, told))
      /\ answers'[t] = answers[t] + 1
  BY <1>1, <1>2, <1>3 DEF Noted, Answer
<1>6. task'[t].pc = "open"
  <2>1. task'[t] = Answered(t)
    BY <1>1, <1>2, <1>3
  <2>2. QED
    BY <2>1 DEF Answered
<1>7. OwnAction(t) <=> Org[t] # None /\ t \notin Metered
  BY <1>1, RunningFields DEF Answer
<1>8. Org[t] = None => t \notin Metered
  BY ConstantsAssumption
<1>9. /\ PaidBy(t, told) \in Nat
      /\ Len(usage'[t]) = Len(usage[t]) + 1
      /\ \A i \in DOMAIN usage'[t] :
           usage'[t][i] = IF i \in DOMAIN usage[t] THEN usage[t][i] ELSE PaidBy(t, told)
      /\ \A i \in DOMAIN usage'[t] : i \in DOMAIN usage[t] \/ i = Len(usage[t]) + 1
  <2>1. PaidBy(t, told) \in Nat
    BY <1>1 DEF PaidBy
  <2>2. QED
    <3> DEFINE s == usage[t]
               x == PaidBy(t, told)
    <3>1. s \in Seq(Nat) /\ x \in Nat /\ usage'[t] = Append(s, x)
      BY <1>1, <1>5, <2>1
    <3> HIDE DEF s, x
    <3>2. /\ Len(Append(s, x)) = Len(s) + 1
          /\ \A i \in DOMAIN Append(s, x) :
               /\ i \in DOMAIN s \/ i = Len(s) + 1
               /\ Append(s, x)[i] = IF i \in DOMAIN s THEN s[i] ELSE x
      BY <3>1, Appended
    <3>3. /\ Len(usage'[t]) = Len(s) + 1
          /\ \A i \in DOMAIN usage'[t] :
               /\ i \in DOMAIN s \/ i = Len(s) + 1
               /\ usage'[t][i] = IF i \in DOMAIN s THEN s[i] ELSE x
      BY <3>1, <3>2, Zenon
    <3>4. QED
      BY <2>1, <3>3 DEF s, x
<1>10. Len(usage[t]) = answers[t]
  BY <1>4 DEF LedgerOf
<1>11. CASE t \in Metered
  <2>1. PaidBy(t, told) = 1 /\ \A i \in DOMAIN usage[t] : usage[t][i] = 1
    BY <1>4, <1>11 DEF PaidBy, LedgerOf, MeteredLedger
  <2>2. QED
    BY <1>5, <1>6, <1>9, <1>10, <1>11, <2>1 DEF LedgerOf, MeteredLedger, At
<1>12. CASE Org[t] = None
  <2>1. PlatformLedger(t) /\ PaidBy(t, told) = 0 /\ charges'[t] = charges[t]
    BY <1>4, <1>5, <1>7, <1>8, <1>12 DEF PaidBy, LedgerOf, Paid
  <2>2. QED
    BY <1>5, <1>8, <1>9, <1>10, <1>12, <2>1 DEF LedgerOf, PlatformLedger
<1>13. CASE t \notin Metered /\ Org[t] # None
  <2>1. /\ OwnLedger(t) /\ PaidBy(t, told) = Len(charges[t]) + 1
        /\ charges'[t] = Append(charges[t], "success")
    BY <1>3, <1>4, <1>5, <1>7, <1>13 DEF PaidBy, LedgerOf, Paid
  <2>2. /\ Len(charges[t]) = answers[t]
        /\ \A i \in DOMAIN charges[t] : charges[t][i] = "success"
        /\ \A i \in DOMAIN usage[t] : usage[t][i] = i
    BY <2>1 DEF OwnLedger
  <2>3. /\ Len(charges'[t]) = answers'[t]
        /\ \A i \in DOMAIN charges'[t] : charges'[t][i] = "success"
    <3>1. /\ Len(charges'[t]) = Len(charges[t]) + 1
          /\ \A i \in DOMAIN charges'[t] :
               charges'[t][i] = IF i \in DOMAIN charges[t] THEN charges[t][i] ELSE "success"
      <4> DEFINE s == charges[t]
      <4>1. s \in Seq({"success", "error"}) /\ charges'[t] = Append(s, "success")
        BY <1>1, <2>1
      <4> HIDE DEF s
      <4>2. /\ Len(Append(s, "success")) = Len(s) + 1
            /\ \A i \in DOMAIN Append(s, "success") :
                 Append(s, "success")[i] = IF i \in DOMAIN s THEN s[i] ELSE "success"
        BY <4>1, Appended
      <4>3. /\ Len(charges'[t]) = Len(s) + 1
            /\ \A i \in DOMAIN charges'[t] :
                 charges'[t][i] = IF i \in DOMAIN s THEN s[i] ELSE "success"
        BY <4>1, <4>2, Zenon
      <4>4. QED
        BY <4>3 DEF s
    <3>2. QED
      BY <1>5, <2>2, <3>1
  <2>4. \A i \in DOMAIN usage'[t] : usage'[t][i] = i
    BY <1>1, <1>9, <1>10, <2>1, <2>2
  <2>5. QED
    BY <1>5, <1>9, <1>10, <1>13, <2>3, <2>4 DEF LedgerOf, OwnLedger
<1>14. QED
  BY <1>11, <1>12, <1>13

LEMMA LedgerOfFinish ==
  ASSUME LedgerInv, NEW t \in Tasks, NEW ok \in BOOLEAN, Finish(t, ok), t \notin excused'
  PROVE  LedgerOf(t)'
<1>1. /\ TypeInv /\ charges \in [Tasks -> Seq({"success", "error"})]
      /\ task \in [Tasks -> UNION {TaskType(u) : u \in Tasks}]
  BY DEF LedgerInv, TypeInv, LedgerType, TasksType
<1>2. UNCHANGED <<usage, answers>>
  BY DEF Finish
<1>3. /\ t \notin excused
      /\ \/ t \notin Metered /\ UNCHANGED charges
         \/ t \in Metered /\ charges' = [charges EXCEPT ![t] = <<Settled(ok)>>]
  BY <1>1, FinishWrites
<1>4. LedgerOf(t)
  BY <1>3 DEF LedgerInv
<1>5. CASE t \notin Metered
  BY <1>2, <1>3, <1>4, <1>5, LedgerOfStays
<1>6. CASE t \in Metered
  <2>1. /\ Len(usage[t]) = answers[t] /\ \A i \in DOMAIN usage[t] : usage[t][i] = 1
    BY <1>4, <1>6 DEF LedgerOf, MeteredLedger
  <2>2. charges'[t] = <<Settled(ok)>>
    BY <1>1, <1>3, <1>6
  <2>3. task'[t] = [pc |-> "over", ok |-> ok]
    BY <1>1 DEF Finish
  <2>4. task'[t].ok = ok
    BY <2>3
  <2>5. /\ ok => charges'[t] = <<"success">>
        /\ ~ok => charges'[t] = <<"error">>
    BY <2>2 DEF Settled
  <2>6. QED
    BY <1>2, <1>6, <2>1, <2>4, <2>5 DEF LedgerOf, MeteredLedger
<1>7. QED
  BY <1>5, <1>6

LEMMA LedgerOfOthers ==
  ASSUME LedgerInv, NEW t \in Tasks, Start(t) \/ Run(t) \/ End(t),
         NEW u \in Tasks \ {t}, LedgerOf(u)
  PROVE  LedgerOf(u)'
<1>1. /\ TypeInv /\ charges \in [Tasks -> Seq({"success", "error"})]
      /\ usage \in [Tasks -> Seq(Nat)] /\ answers \in [Tasks -> Nat]
  BY DEF LedgerInv, TypeInv, LedgerType
<1>2. task'[u] = task[u]
  BY <1>1, OneTaskMoves
<1>3. charges'[u] = charges[u] /\ usage'[u] = usage[u] /\ answers'[u] = answers[u]
  <2>1. CASE Start(t)
    BY <1>1, <2>1 DEF Start, Charged
  <2>2. CASE Answer(t)
    <3>1. answers'[u] = answers[u]
      BY <1>1, <2>2 DEF Answer
    <3>2. QED
      BY <1>1, <2>2, <3>1, AnswerWrites
  <2>3. ASSUME NEW ok \in BOOLEAN, Finish(t, ok)
        PROVE  charges'[u] = charges[u] /\ usage'[u] = usage[u] /\ answers'[u] = answers[u]
    <3>1. UNCHANGED <<usage, answers>>
      BY <2>3 DEF Finish
    <3>2. charges'[u] = charges[u]
      BY <1>1, <2>3, FinishWrites
    <3>3. QED
      BY <3>1, <3>2
  <2>4. CASE Begin(t) \/ Route(t) \/ FailForGood(t) \/ FailForNow(t) \/ FailThisTime(t) \/ MakeDo(t)
    BY <2>4 DEF Begin, Route, FailForGood, FailForNow, FailThisTime, MakeDo, ledger
  <2>5. QED
    BY <2>1, <2>2, <2>3, <2>4 DEF Run, End
<1>4. QED
  BY <1>2, <1>3, LedgerOfStays

\* A run that begins or fails, and a caller that makes do, write nothing.
LEMMA LedgerOfRuns ==
  ASSUME LedgerInv, NEW t \in Tasks \ excused,
         Begin(t) \/ Route(t) \/ FailForGood(t) \/ FailForNow(t) \/ FailThisTime(t) \/ MakeDo(t)
  PROVE  LedgerOf(t)'
<1>1. /\ TypeInv /\ LedgerOf(t)
      /\ task \in [Tasks -> UNION {TaskType(u) : u \in Tasks}] /\ t \in Tasks
  BY DEF LedgerInv, TypeInv, TasksType
<1>2. UNCHANGED ledger
  BY DEF Begin, Route, FailForGood, FailForNow, FailThisTime, MakeDo
<1>3. task'[t].pc # "over"
  <2>1. CASE Begin(t)
    <3>1. PICK readable \in BOOLEAN : task' = [task EXCEPT ![t] = BegunAs(t, readable)]
      BY <2>1 DEF Begin, BegunAs
    <3>2. QED
      BY <1>1, <3>1 DEF BegunAs
  <2>2. CASE Route(t)
    <3>1. PICK x \in FailedTask(t) \cup Running(t) : task' = [task EXCEPT ![t] = x]
      BY <1>1, <2>2, RouteStep
    <3>2. QED
      BY <1>1, <3>1 DEF FailedTask, Running
  <2>3. CASE MakeDo(t)
    <3>1. task' = [task EXCEPT ![t] =
                     [pc |-> "open", action |-> task[t].action, left |-> task[t].left - 1]]
      BY <2>3 DEF MakeDo
    <3>2. QED
      BY <1>1, <3>1
  <2>4. ASSUME At(t, "running"), task' = [task EXCEPT ![t] = NextProvider(t)]
        PROVE  task'[t].pc # "over"
    BY <1>1, <2>4, NextProviderType
  <2>5. ASSUME At(t, "running"), task' = [task EXCEPT ![t] = [task[t] EXCEPT !.tries = 2]]
        PROVE  task'[t].pc # "over"
    <3>1. task[t] \in Running(t)
      BY <1>1, <2>5, TaskFields
    <3>2. [task[t] EXCEPT !.tries = 2].pc = "running"
      BY <3>1 DEF Running
    <3>3. QED
      BY <1>1, <2>5, <3>2
  <2>6. CASE FailForNow(t)
    BY <2>4, <2>5, <2>6 DEF FailForNow
  <2>7. CASE FailForGood(t) \/ FailThisTime(t)
    BY <2>4, <2>7 DEF FailForGood, FailThisTime
  <2>8. QED
    BY <2>1, <2>3, <2>6, <2>7, <2>2
<1>4. QED
  BY <1>1, <1>2, <1>3, LedgerOfStays DEF ledger

LEMMA ExcusesStay ==
  ASSUME TypeInv, [Next]_vars
  PROVE  excused \subseteq excused'
<1>1. ASSUME NEW t \in Tasks, Start(t) \/ Answer(t)
      PROVE  excused \subseteq excused'
  BY <1>1 DEF Start, Answer
<1>2. ASSUME NEW t \in Tasks, Run(t) \/ End(t)
      PROVE  excused \subseteq excused'
  BY <1>1, <1>2 DEF Run, End, Begin, Route, FailForGood, FailForNow, FailThisTime, MakeDo, Finish
<1>3. CASE Administer \/ Tick \/ UNCHANGED vars
  BY <1>3 DEF Administer, CreateKey, UpdateKey, DeleteKey, ChangePlan, Tick, vars
<1>4. ASSUME Restart \/ \E t \in Tasks : Cancel(t)
      PROVE  excused \subseteq excused'
  BY <1>4 DEF Restart, Cancel, CutShort
<1>5. QED
  BY <1>1, <1>2, <1>3, <1>4 DEF Next

LEMMA LedgerNext == LedgerInv /\ [Next]_vars => LedgerInv'
<1> SUFFICES ASSUME LedgerInv, [Next]_vars PROVE LedgerInv'
  OBVIOUS
<1>1. TypeInv /\ TypeInv' /\ excused \subseteq excused'
  BY TypeNext, ExcusesStay DEF LedgerInv
<1> SUFFICES ASSUME NEW u \in Tasks, u \notin excused' PROVE LedgerOf(u)'
  BY <1>1 DEF LedgerInv
<1>2. LedgerOf(u) /\ u \in Tasks \ excused
  BY <1>1 DEF LedgerInv
<1>3. ASSUME NEW t \in Tasks, Start(t) \/ Run(t) \/ End(t)
      PROVE  LedgerOf(u)'
  <2>1. CASE t # u
    BY <1>2, <1>3, <2>1, LedgerOfOthers
  <2>2. CASE t = u
    BY <1>2, <1>3, <2>2, LedgerOfStart, LedgerOfAnswer, LedgerOfFinish, LedgerOfRuns
    DEF Run, End
  <2>3. QED
    BY <2>1, <2>2
<1>4. ASSUME Restart \/ \E t \in Tasks : Cancel(t)
      PROVE  LedgerOf(u)'
  <2>1. PICK cut \in SUBSET Tasks : CutShort(cut) /\ UNCHANGED ledger
    BY <1>4 DEF Restart, Cancel, Working
  <2>2. u \notin cut
    BY <2>1 DEF CutShort
  <2>3. task'[u] = task[u]
    BY <2>1, <2>2 DEF CutShort
  <2>4. QED
    BY <1>2, <2>1, <2>3, LedgerOfStays DEF ledger
<1>5. CASE Administer \/ Tick \/ UNCHANGED vars
  <2>1. UNCHANGED <<task, ledger>>
    BY <1>5 DEF Administer, CreateKey, UpdateKey, DeleteKey, ChangePlan, Tick, vars, ledger
  <2>2. QED
    BY <1>2, <2>1, LedgerOfStays DEF ledger
<1>6. QED
  BY <1>3, <1>4, <1>5 DEF Next

\* A task is charged once, or once for every agent that answered, and every answer
\* is on the action that paid for it, whatever providers, keys and plans do, unless
\* a write was lost, an answer was followed by an error, or the task was cut short.
THEOREM TasksAreChargedOnce == Spec => []ChargedOnce
<1>1. Init => LedgerInv
  <2> SUFFICES ASSUME Init, NEW t \in Tasks PROVE LedgerOf(t)
    BY TypeInit DEF LedgerInv
  <2>1. /\ charges[t] = <<>> /\ usage[t] = <<>> /\ answers[t] = 0 /\ ~At(t, "over")
    BY DEF Init, At, Idle
  <2>2. Len(<<>>) = 0 /\ DOMAIN <<>> = {}
    OBVIOUS
  <2>3. /\ Len(usage[t]) = answers[t] /\ Len(charges[t]) = answers[t]
        /\ DOMAIN usage[t] = {} /\ DOMAIN charges[t] = {}
    BY <2>1, <2>2, Zenon
  <2>4. QED
    BY <2>1, <2>3 DEF LedgerOf, MeteredLedger, PlatformLedger, OwnLedger
<1>2. QED
  BY <1>1, LedgerNext, LedgerSuffices, PTL DEF Spec
=============================================================================
