------------------------------- MODULE Heartbeat -------------------------------
(***************************************************************************)
(* The registry of pods, notif:pods:hb, and the HeartbeatWorker of each    *)
(* pod (internal/worker/heartbeat.go), which enters its own pod and drops  *)
(* the others that look dead.  One action is one command of Redis; the     *)
(* commands of the pods interleave, and a pod may die and come back        *)
(* between any two of them.                                                *)
(***************************************************************************)
EXTENDS Integers

CONSTANTS
  Pod,        \* server processes, each with its POD_ID
  Skew,       \* Skew[p]: the clock of pod p minus the real time
  MaxSkew,    \* bound of |Skew[p]|
  Interval,   \* tickInterval, in ticks of the clock
  StaleAfter, \* staleAfter
  Second,     \* ticks per second (timestamps are whole seconds)
  Delay,      \* Delay[p]: how late p's goroutine runs and its commands take effect
  Latency,    \* bound of Delay[p]
  MaxFaults,  \* bound: failing commands and crashes in one behaviour
  MaxTime     \* bound: the last tick of the clock

ASSUME HeartbeatAssumption ==
  /\ Skew \in [Pod -> Int] /\ MaxSkew \in Nat
  /\ \A p \in Pod : Skew[p] <= MaxSkew /\ -MaxSkew <= Skew[p]
  /\ Delay \in [Pod -> 0..Latency]
  /\ Interval \in Nat \ {0} /\ StaleAfter \in Nat
  /\ Second \in Nat \ {0} /\ Latency \in Nat /\ Latency <= Interval
  /\ MaxFaults \in Nat /\ MaxTime \in Nat

VARIABLES
  now,      \* real time
  registry, \* the hash: entries of pods and timestamps
  step,     \* step[p]: what the worker does: off (no process), wait for the ticker,
            \* set its entry, read all entries, delete stale ones
  next,     \* next[p]: the next tick of the ticker
  since,    \* since[p]: when the command or wait in progress began
  seen,     \* seen[p]: the entries that HGETALL returned
  faults,   \* failures so far
  \* History: read by properties only.
  wrote,    \* wrote[p]: when p's last HSET took effect, 0: never
  silent,   \* silent[p]: the last time at which p had not written for long
  sound     \* sound[p]: since when p has been running without a failure

worker  == <<step, next, since, seen>>
hvars   == <<now, registry, worker, faults, wrote, silent, sound>>

Entry == [pod : Pod, ts : Int]

Unix(t) == t - (t % Second)

(* The pods have just started, not all at the same time, and nobody has    *)
(* entered itself yet.                                                     *)
HeartbeatInit ==
  /\ now = 1
  /\ registry = {}
  /\ step = [p \in Pod |-> "wait"]
  /\ next \in [Pod -> 1 .. 1 + Interval]
  /\ since = [p \in Pod |-> 0]
  /\ seen = [p \in Pod |-> {}]
  /\ faults = 0
  /\ wrote = [p \in Pod |-> 0]
  /\ silent = [p \in Pod |-> 1]
  /\ sound = [p \in Pod |-> 0]

Goto(p, from, to) ==
  /\ step[p] = from
  /\ step' = [step EXCEPT ![p] = to]
  /\ since' = [since EXCEPT ![p] = now]

Fail(p) ==
  /\ faults < MaxFaults
  /\ faults' = faults + 1
  /\ sound' = [sound EXCEPT ![p] = now]
-----------------------------------------------------------------------------
(* The process starts: the first beat comes after one interval. *)
Start(p) ==
  /\ Goto(p, "off", "wait")
  /\ next' = [next EXCEPT ![p] = now + Interval]
  /\ sound' = [sound EXCEPT ![p] = now]
  /\ UNCHANGED <<now, registry, seen, faults, wrote, silent>>

(* The ticker keeps one tick for a late worker and drops the others. *)
NextTick(t) == now + Interval - ((now - t) % Interval)

TickerFires(p) ==
  /\ now >= next[p]
  /\ Goto(p, "wait", "set")
  /\ next' = [next EXCEPT ![p] = NextTick(@)]
  /\ UNCHANGED <<now, registry, seen, faults, wrote, silent, sound>>

(* The pod read its clock before the command. *)
OwnEntry(p) == [pod |-> p, ts |-> Unix(since[p] + Skew[p])]

(* beat: HSET replaces the pod's timestamp. *)
RegistryAfterBeat(p) == {e \in registry : e.pod # p} \union {OwnEntry(p)}

Beat(p) ==
  /\ Goto(p, "set", "read")
  /\ registry' = RegistryAfterBeat(p)
  /\ wrote' = [wrote EXCEPT ![p] = now]
  /\ UNCHANGED <<now, next, seen, faults, silent, sound>>

(* The failure is logged, and the cleanup follows all the same. *)
BeatFails(p) ==
  /\ Fail(p)
  /\ Goto(p, "set", "read")
  /\ UNCHANGED <<now, registry, next, seen, wrote, silent>>

(* cleanupStale: HGETALL. *)
ReadAll(p) ==
  /\ Goto(p, "read", "delete")
  /\ seen' = [seen EXCEPT ![p] = registry]
  /\ UNCHANGED <<now, registry, next, faults, wrote, silent, sound>>

ReadFails(p) ==
  /\ Fail(p)
  /\ Goto(p, "read", "wait")
  /\ UNCHANGED <<now, registry, next, seen, wrote, silent>>

(* Mutants: an entry is stale after one interval, or only after two more. *)
CutoffOneInterval(t) == Unix(t - Interval)
CutoffTwoLater(t) == Unix(t - StaleAfter - 2 * Interval)

Cutoff(t) == Unix(t - StaleAfter)

(* The stale pods, by the clock of p at time t. *)
StalePods(p, t) == {e.pod : e \in {f \in seen[p] : f.ts < Cutoff(t + Skew[p])}}

(* The pod has read its clock at some t after HGETALL; HDEL removes the    *)
(* pods that were stale then, whatever their entries are by now.           *)
CleanupStale(p) ==
  /\ \E t \in since[p]..now :
       registry' = {e \in registry : e.pod \notin StalePods(p, t)}
  /\ Goto(p, "delete", "wait")
  /\ seen' = [seen EXCEPT ![p] = {}]
  /\ UNCHANGED <<now, next, faults, wrote, silent, sound>>

CleanupFails(p) ==
  /\ Fail(p)
  /\ Goto(p, "delete", "wait")
  /\ seen' = [seen EXCEPT ![p] = {}]
  /\ UNCHANGED <<now, registry, next, wrote, silent>>

Crash(p) ==
  /\ Fail(p)
  /\ step[p] # "off"
  /\ step' = [step EXCEPT ![p] = "off"]
  /\ seen' = [seen EXCEPT ![p] = {}]
  /\ UNCHANGED <<now, registry, next, since, wrote, silent>>

(* How long a pod may go without writing and be sure not to look stale. *)
Patience == StaleAfter - Second - 2 * MaxSkew - 2 * Latency

(* Time does not pass while a worker is as late as it can be. *)
Prompt(p) ==
  /\ step[p] = "wait" => now < next[p] + Delay[p] \/ now < since[p] + Delay[p]
  /\ step[p] \in {"set", "read", "delete"} => now < since[p] + Delay[p]

Tick ==
  /\ now < MaxTime
  /\ \A p \in Pod : Prompt(p)
  /\ now' = now + 1
  /\ silent' = [p \in Pod |-> IF now + 1 > wrote[p] + Patience THEN now + 1 ELSE silent[p]]
  /\ UNCHANGED <<registry, worker, faults, wrote, sound>>
-----------------------------------------------------------------------------
WorkerStep(p) ==
  \/ Start(p) \/ TickerFires(p) \/ Beat(p) \/ ReadAll(p) \/ CleanupStale(p)
  \/ BeatFails(p) \/ ReadFails(p) \/ CleanupFails(p) \/ Crash(p)

HeartbeatNext ==
  \/ \E p \in Pod : WorkerStep(p)
  \/ Tick

HeartbeatSpec == HeartbeatInit /\ [][HeartbeatNext]_hvars
-----------------------------------------------------------------------------
(* Properties. *)

HeartbeatTypeOK ==
  /\ now \in Nat
  /\ registry \subseteq Entry
  /\ \A e, f \in registry : e.pod = f.pod => e = f
  /\ step \in [Pod -> {"off", "wait", "set", "read", "delete"}]
  /\ next \in [Pod -> Nat] /\ since \in [Pod -> Nat]
  /\ seen \in [Pod -> SUBSET Entry]
  /\ faults \in 0..MaxFaults
  /\ wrote \in [Pod -> Nat] /\ silent \in [Pod -> Nat] /\ sound \in [Pod -> Nat]

Listed(p) == \E e \in registry : e.pod = p

(* A pod that beats is in the registry: only one that was silent for long, *)
(* until less than Latency before its last beat or after it, may be        *)
(* missing, because another pod read the old entry and deleted the new one. *)
(* In particular from its second beat on a pod is listed, and one missed   *)
(* beat, the clocks of the pods and the rounding do not remove it.         *)
BeatingPodListed ==
  \A p \in Pod :
    wrote[p] # 0 /\ silent[p] + Latency < wrote[p] => Listed(p)

(* How long a dead pod stays listed by a pod that works. *)
Oblivion == StaleAfter + Second + 2 * MaxSkew + Interval + 4 * Latency

(* A pod that stopped writing is forgotten in time, as soon as any pod has *)
(* been running for an interval without a failure: nothing the registry    *)
(* holds, and no missed round, keeps a dead pod's entry.                   *)
DeadPodForgotten ==
  \A p, q \in Pod :
    /\ now > wrote[p] + Oblivion
    /\ step[q] # "off" /\ now > sound[q] + Interval + 4 * Latency
    => ~Listed(p)
=============================================================================
