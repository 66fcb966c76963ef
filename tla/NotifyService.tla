------------------------------ MODULE NotifyService ------------------------------
(***************************************************************************)
(* What POST /api/v1/notify promises to its callers, without pods, steps,  *)
(* failures or expiry.  A call creates notifications of its own, and is    *)
(* then answered once: with some of what it created itself, or, when it    *)
(* created nothing, with the answer of another call that has its key.      *)
(***************************************************************************)
CONSTANTS
  Call,
  KeyOf,   \* KeyOf[c]: the key of c
  NoKey    \* c has none

VARIABLES
  created, \* the notifications, each with the call that created it
  reply    \* reply[c]: whose answer c was given, and what it lists

serviceVars == <<created, reply>>

None == [by |-> {}, ids |-> {}]

Init ==
  /\ created = {}
  /\ reply = [c \in Call |-> None]

CreatedBy(c) == {n \in created : n.call = c}

Create(c) ==
  /\ reply[c] = None
  /\ \E n \in created' : n.call = c /\ created' = created \union {n}
  /\ UNCHANGED reply

Answer(c) ==
  /\ reply[c] = None
  /\ \E S \in SUBSET CreatedBy(c) :
       reply' = [reply EXCEPT ![c] = [by |-> {c}, ids |-> S]]
  /\ UNCHANGED created

Repeat(c, d) ==
  /\ reply[c] = None /\ CreatedBy(c) = {}
  /\ reply[d].by = {d} /\ KeyOf[c] = KeyOf[d] /\ KeyOf[c] # NoKey
  /\ reply' = [reply EXCEPT ![c] = reply[d]]
  /\ UNCHANGED created

Next ==
  \/ \E c \in Call : Create(c) \/ Answer(c)
  \/ \E c, d \in Call : Repeat(c, d)

Spec == Init /\ [][Next]_serviceVars
=============================================================================
