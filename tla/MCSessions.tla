------------------------------ MODULE MCSessions ------------------------------
(* Small instances of Sessions. *)
EXTENDS Sessions

CONSTANTS c1, p1

(* Pods are alike: let the first connection reach the first one. *)
MCRoute == [c \in Conn |-> IF c = c1 THEN {p1} ELSE Pod]
=============================================================================
