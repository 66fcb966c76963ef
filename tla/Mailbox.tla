--------------------------------- MODULE Mailbox ---------------------------------
(***************************************************************************)
(* What the server promises to one user, without keys, pods or workers.    *)
(* Messages are posted into a box that keeps the newest Capacity of them;  *)
(* they are shown in order, each once, and stay open until the user        *)
(* confirms them.  Nothing leaves the box, and nothing that is in the box  *)
(* stops being open, before its lifetime is over.                          *)
(***************************************************************************)
EXTENDS Integers, FiniteSets

CONSTANTS
  Item,      \* what a message is about
  Capacity,  \* messages that the box keeps
  Lifetime   \* how long a message stays at least

VARIABLES
  clock,
  box,       \* messages: number, item, and when it was posted
  posted,    \* number of the message posted last
  frontier,  \* number of the message shown last
  open,      \* numbers shown and not confirmed
  done       \* numbers confirmed

boxVars == <<clock, box, posted, frontier, open, done>>

Init ==
  /\ clock = 1
  /\ box = {} /\ posted = 0 /\ frontier = 0
  /\ open = {} /\ done = {}

Old(e) == clock > e.at + Lifetime

NewestOf(S) == {e \in S : Cardinality({f \in S : f.id > e.id}) < Capacity}

Post(x) ==
  /\ posted' = posted + 1
  /\ box' = NewestOf(box \union {[id |-> posted + 1, nid |-> x, at |-> clock]})
  /\ UNCHANGED <<clock, frontier, open, done>>

(* All messages after the frontier, up to e, are shown. *)
ShowUpTo(e) ==
  /\ e.id > frontier
  /\ frontier' = e.id
  /\ open' = open \union {f.id : f \in {g \in box : g.id > frontier /\ g.id <= e.id}}
  /\ UNCHANGED <<clock, box, posted, done>>

Confirm(i) ==
  /\ open' = open \ {i}
  /\ done' = done \union {i}
  /\ UNCHANGED <<clock, box, posted, frontier>>

(* Open messages that are old, or that have left the box, are given up. *)
GiveUp ==
  /\ open' \subseteq open
  /\ \A i \in open \ open' : \A e \in box : e.id = i => Old(e)
  /\ UNCHANGED <<clock, box, posted, frontier, done>>

Expire ==
  /\ box' \subseteq box
  /\ \A e \in box \ box' : Old(e)
  /\ UNCHANGED <<clock, posted, frontier, open, done>>

Pass ==
  /\ clock' = clock + 1
  /\ UNCHANGED <<box, posted, frontier, open, done>>

Next ==
  \/ \E x \in Item : Post(x)
  \/ \E e \in box : ShowUpTo(e)
  \/ \E i \in open : Confirm(i)
  \/ GiveUp
  \/ Expire
  \/ Pass

Spec == Init /\ [][Next]_boxVars
=============================================================================
