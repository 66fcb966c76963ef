------------------------------- MODULE SessionLife -------------------------------
(***************************************************************************)
(* The life of WebSocket sessions, as the goroutines see it: they start    *)
(* once, the context is canceled only after one of them has ended by       *)
(* itself, and the link to the client may be gone at any time.  Sessions   *)
(* and Delivery look at a session from two sides; this is what they share. *)
(***************************************************************************)
CONSTANT Conn  \* connections, each used once

VARIABLES
  life,   \* life[c]: none, running, returned (the context is canceled)
  link,   \* link[c]: none, open, gone
  ended   \* ended[c]: the goroutines of c that have ended

lifeVars == <<life, link, ended>>

Role == {"delivery", "client"}

Init ==
  /\ life = [c \in Conn |-> "none"]
  /\ link = [c \in Conn |-> "none"]
  /\ ended = [c \in Conn |-> {}]

(* The client may have left before its session starts. *)
Start(c) ==
  /\ life[c] = "none"
  /\ life' = [life EXCEPT ![c] = "running"]
  /\ \E l \in {"open", "gone"} : link' = [link EXCEPT ![c] = l]
  /\ UNCHANGED ended

Lose(c) ==
  /\ link[c] = "open"
  /\ link' = [link EXCEPT ![c] = "gone"]
  /\ UNCHANGED <<life, ended>>

End(c, r) ==
  /\ life[c] # "none" /\ r \notin ended[c]
  /\ ended' = [ended EXCEPT ![c] = @ \union {r}]
  /\ UNCHANGED <<life, link>>

Cancel(c) ==
  /\ life[c] = "running" /\ ended[c] # {}
  /\ life' = [life EXCEPT ![c] = "returned"]
  /\ UNCHANGED <<link, ended>>

(* The process of the connections S dies; those that waited for their *)
(* session never get one.                                             *)
Crash(S) ==
  /\ life'  = [c \in Conn |-> IF c \in S THEN "returned" ELSE life[c]]
  /\ link'  = [c \in Conn |-> IF c \in S THEN "gone" ELSE link[c]]
  /\ ended' = [c \in Conn |-> IF c \in S THEN Role ELSE ended[c]]

Next ==
  \/ \E c \in Conn :
       Start(c) \/ Lose(c) \/ Cancel(c) \/ \E r \in Role : End(c, r)
  \/ \E S \in SUBSET Conn : Crash(S)

Spec == Init /\ [][Next]_lifeVars
=============================================================================
