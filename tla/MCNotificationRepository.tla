---------------------- MODULE MCNotificationRepository ----------------------
(* Small instances of NotificationRepository. *)
EXTENDS NotificationRepository, TLC

CONSTANTS p1, p2

(* Every call is served by the first pod. *)
MCHome == [n \in Nid |-> p1]

(* The pod that serves the calls has a clock behind the other's. *)
MCSkew == [p \in Pod |-> IF p = p1 THEN -1 ELSE 1]

(* Calls are alike: all of them start in the same state on the same pod. *)
Symmetry == Permutations(Nid)

MCNoSkew == [p \in Pod |-> 0]

(* Bound: after a failure only one of the calls goes on. *)
OneCallAfterFailure ==
  faults = 0 \/ Cardinality({n \in Nid : create[n] # "new"}) <= 1

(* Bound: no state is continued in which an empty UUID is marked as read.   *)
(* Up to there its confirmation does what one with the UUID does.           *)
NoEmptyMark == NoNid \notin readState
=============================================================================
