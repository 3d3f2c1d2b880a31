---------------------------- MODULE MCDraftQueue ----------------------------
(* Instances of DraftQueue for TLC. *)
EXTENDS DraftQueueLifecycle

CONSTANTS w1, w2, r1, r2, p1, p2

\* One replica serves everything.
HomeOne == [h \in Calls |-> p1]

\* The second worker and the second reviewer are on a replica of their own.
HomeTwo == [h \in Calls |-> IF h \in {w2, r2} THEN p2 ELSE p1]

\* A worker on each replica, the reviewers away from the first worker.
HomeSplit == [h \in Calls |-> IF h = w1 THEN p1 ELSE p2]
=============================================================================
