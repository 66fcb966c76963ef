----------------------------- MODULE MCHeartbeat -----------------------------
(* Small instances of Heartbeat. *)
EXTENDS Heartbeat

CONSTANTS p1

(* One clock is right, the others are ahead. *)
MCSkew == [p \in Pod |-> IF p = p1 THEN 0 ELSE MaxSkew]

(* Only the first pod is ever late. *)
MCDelay == [p \in Pod |-> IF p = p1 THEN Latency ELSE 0]
=============================================================================
