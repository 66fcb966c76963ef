----------------------------- MODULE CreateContract -----------------------------
(***************************************************************************)
(* What CreateNotification promises to its caller, who sees a result and   *)
(* no commands: a call that returns has put its notification into the      *)
(* stream; one that fails may have done so, also after its caller gave up. *)
(* NotificationRepository has the commands of a call, Requests the caller. *)
(***************************************************************************)
CONSTANT Item     \* notifications, each created by one call

VARIABLES
  outcome,        \* outcome[n]: open, returned, failed
  inStream        \* the notifications that were put into a stream

contractVars == <<outcome, inStream>>

Init ==
  /\ outcome = [n \in Item |-> "open"]
  /\ inStream = {}

Becomes(n, o) ==
  /\ outcome[n] = "open"
  /\ outcome' = [outcome EXCEPT ![n] = o]

Post(n) ==
  /\ outcome[n] # "returned"
  /\ inStream' = inStream \union {n}
  /\ UNCHANGED outcome

Return(n) ==
  /\ Becomes(n, "returned")
  /\ inStream' = inStream \union {n}

FailCall(n) ==
  /\ Becomes(n, "failed")
  /\ inStream' \in {inStream, inStream \union {n}}

Next == \E n \in Item : Post(n) \/ Return(n) \/ FailCall(n)

Spec == Init /\ [][Next]_contractVars
=============================================================================
