------------------------------ MODULE MCTenancy ------------------------------
(* Instances of Tenancy for TLC. *)
EXTENDS Tenancy, TLC

CONSTANTS r1, r2, owner, user, trial, paid

Trials == [p \in Plans |-> IF p = trial THEN 1 ELSE 0]

\* Owners administer, users read and work.
Asked ==
  [p \in Persons |->
     IF p = user
     THEN [kind: {"read"}, org: {None, Platform}] \cup [kind: {"work"}, org: {Platform}]
     ELSE [kind: {"member"}, org: {Platform}, whose: {user}, role: {"viewer"},
           status: {"DISABLED"}]
          \cup [kind: {"organization"}, whose: {user}]
          \cup [kind: {"select"}, org: {Platform}, plan: {trial}]
          \cup [kind: {"update"}, org: {Platform}, plan: {None}, status: {None, "CANCELED"},
                ends: {Same}]
          \cup [kind: {"update"}, org: {Platform}, plan: {None}, status: {None}, ends: {3}]
          \cup [kind: {"offer"}, plan: {trial}]]

Budget == [p \in Persons |-> 2]

ReplicasAlike == Permutations(Replicas)
=============================================================================
