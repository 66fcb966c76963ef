----------------------------- MODULE MCDelivery -----------------------------
(* Small instances of Delivery. *)
EXTENDS Delivery, TLC

CONSTANTS p1

MCHome == [n \in Nid |-> p1]
MCSkew == [p \in Pod |-> 0]

(* Calls are alike, and so are connections. *)
Symmetry == Permutations(Nid) \union Permutations(Conn)
=============================================================================
