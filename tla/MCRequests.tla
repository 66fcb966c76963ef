-------------------------------- MODULE MCRequests --------------------------------
(* Small instances of Requests. *)
EXTENDS Requests

CONSTANTS c1, c2, c3, c4, p1, p2, k1

(* Two requests with one key on two pods; an invalid one with that key, and *)
(* one without a key.                                                       *)
MCHome == [c \in Call |-> IF c = c2 THEN p2 ELSE p1]

MCKeyOf == [c \in Call |-> IF c = c4 THEN NoKey ELSE k1]

MCBody == [c \in Call |-> IF c = c3 THEN "invalid" ELSE "ok"]

MCTargets == [c \in Call |-> IF c = c1 THEN 2 ELSE 1]
=============================================================================
