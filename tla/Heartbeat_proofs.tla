---------------------------- MODULE Heartbeat_proofs ----------------------------
(***************************************************************************)
(* Proofs about the heartbeats, for any pods, clocks, intervals and        *)
(* delays, and any number of failures.                                     *)
(***************************************************************************)
EXTENDS Heartbeat, TLAPS

(* A whole second is not later than its time, and less than one earlier. *)
LEMMA UnixBounds ==
  ASSUME NEW t \in Int
  PROVE  Unix(t) \in Int /\ Unix(t) <= t /\ Unix(t) > t - Second
<1>1. Second \in Nat \ {0}
  BY HeartbeatAssumption
<1>2. t % Second \in 0 .. Second - 1
  BY <1>1
<1> QED  BY <1>1, <1>2 DEF Unix

(* What the assumption says of the numbers. *)
LEMMA Numbers ==
  /\ Interval \in Nat /\ Interval >= 1 /\ StaleAfter \in Nat /\ Second \in Nat /\ Second >= 1
  /\ Latency \in Nat /\ Latency <= Interval /\ MaxSkew \in Nat /\ MaxFaults \in Nat
  /\ Patience \in Int
  /\ \A p \in Pod : /\ Skew[p] \in Int /\ Skew[p] <= MaxSkew /\ -MaxSkew <= Skew[p]
                    /\ Delay[p] \in Nat /\ Delay[p] <= Latency
<1>1. ASSUME NEW p \in Pod
      PROVE  /\ Skew[p] \in Int /\ Skew[p] <= MaxSkew /\ -MaxSkew <= Skew[p]
             /\ Delay[p] \in Nat /\ Delay[p] <= Latency
  BY HeartbeatAssumption
<1> QED  BY <1>1, HeartbeatAssumption DEF Patience

(* The tick after one that fired late is one of the next interval. *)
LEMMA NextTickBounds ==
  ASSUME NEW t \in Nat, now \in Nat, t <= now
  PROVE  NextTick(t) \in Nat /\ NextTick(t) <= now + Interval /\ NextTick(t) >= now
<1>1. (now - t) % Interval \in 0 .. Interval - 1
  BY Numbers
<1> QED  BY <1>1, Numbers DEF NextTick
-----------------------------------------------------------------------------
(* Commands are prompt, and a pod without a fresh entry is silent. *)
PodTime(p) ==
  /\ since[p] <= now /\ wrote[p] <= now /\ silent[p] <= now /\ next[p] <= now + Interval
  /\ step[p] \in {"set", "read", "delete"} =>
       now <= since[p] + Latency /\ next[p] <= since[p] + Interval
  /\ step[p] = "wait" => now <= next[p] + Latency \/ now <= since[p] + Latency
  /\ now > wrote[p] + Patience => silent[p] = now

TimeInv == now >= 1 /\ \A p \in Pod : PodTime(p)

(* An entry bears the time of the pod's last beat. *)
EntryInv ==
  \A e \in registry :
    /\ wrote[e.pod] >= 1
    /\ e.ts > wrote[e.pod] - Latency - MaxSkew - Second
    /\ e.ts <= wrote[e.pod] + MaxSkew

(* An entry that a cleaner has read was young, or its pod has been silent; *)
(* and the cleaner has read every entry but those written since.           *)
SeenInv ==
  \A q \in Pod : step[q] = "delete" =>
    /\ \A e \in seen[q] :
         \/ silent[e.pod] >= since[q]
         \/ e.ts > since[q] - Patience - Latency - MaxSkew - Second
    /\ \A e \in registry : e \in seen[q] \/ wrote[e.pod] >= since[q]

(* When any pod's clock makes the last entry of p stale. *)
Old(p) == wrote[p] + StaleAfter + Second + 2 * MaxSkew

(* The round of q has not come to its deletions since time a. *)
RoundSince(q, a) ==
  /\ step[q] = "wait" => next[q] <= a + Interval /\ since[q] <= a + Latency
  /\ step[q] = "set" => since[q] <= a + Interval + Latency
  /\ step[q] = "read" => since[q] <= a + Interval + 2 * Latency
  /\ step[q] = "delete" => since[q] <= a + Interval + 3 * Latency

(* As long as a dead pod is listed, no round of q that began late has ended. *)
ForgetInv ==
  \A p, q \in Pod : \A a \in Nat :
    Listed(p) /\ step[q] # "off" /\ a >= Old(p) /\ a >= sound[q] => RoundSince(q, a)

HeartbeatInv ==
  HeartbeatTypeOK /\ TimeInv /\ EntryInv /\ SeenInv /\ BeatingPodListed /\ ForgetInv

(* What the type invariant says of one pod. *)
LEMMA PodTypes ==
  ASSUME HeartbeatInv
  PROVE  /\ now \in Nat /\ now >= 1
         /\ \A e \in registry : e.pod \in Pod /\ e.ts \in Int
         /\ \A p \in Pod : /\ next[p] \in Nat /\ since[p] \in Nat /\ wrote[p] \in Nat
                           /\ silent[p] \in Nat /\ sound[p] \in Nat
                           /\ \A e \in seen[p] : e.pod \in Pod /\ e.ts \in Int
<1>1. /\ now \in Nat /\ registry \subseteq Entry
      /\ next \in [Pod -> Nat] /\ since \in [Pod -> Nat] /\ wrote \in [Pod -> Nat]
      /\ silent \in [Pod -> Nat] /\ sound \in [Pod -> Nat] /\ seen \in [Pod -> SUBSET Entry]
  BY DEF HeartbeatInv, HeartbeatTypeOK
<1>2. now >= 1
  BY DEF HeartbeatInv, TimeInv
<1>3. \A p \in Pod : \A e \in seen[p] : e \in Entry
  BY <1>1
<1> QED  BY <1>1, <1>2, <1>3 DEF Entry

(* All pods wait for their tickers, and nobody is entered. *)
LEMMA InitHeartbeat == HeartbeatInit => HeartbeatInv
<1> SUFFICES ASSUME HeartbeatInit  PROVE HeartbeatInv
  OBVIOUS
<1> USE Numbers
<1>1. HeartbeatTypeOK
  BY DEF HeartbeatInit, HeartbeatTypeOK
<1>2. TimeInv
  <2> SUFFICES ASSUME NEW p \in Pod  PROVE PodTime(p)
    BY DEF HeartbeatInit, TimeInv
  <2>1. next[p] \in 1 .. 1 + Interval
    BY DEF HeartbeatInit
  <2> QED  BY <2>1 DEF HeartbeatInit, PodTime
<1>3. EntryInv /\ SeenInv /\ BeatingPodListed /\ ForgetInv
  BY DEF HeartbeatInit, EntryInv, SeenInv, BeatingPodListed, ForgetInv, Listed
<1> QED  BY <1>1, <1>2, <1>3 DEF HeartbeatInv
-----------------------------------------------------------------------------
(* The worker's steps keep the types. *)
LEMMA WorkerTypes ==
  ASSUME HeartbeatInv, NEW q \in Pod, WorkerStep(q)
  PROVE  HeartbeatTypeOK'
<1> USE Numbers
<1>1. /\ now \in Nat /\ registry \subseteq Entry /\ \A e, f \in registry : e.pod = f.pod => e = f
      /\ step \in [Pod -> {"off", "wait", "set", "read", "delete"}]
      /\ next \in [Pod -> Nat] /\ since \in [Pod -> Nat] /\ seen \in [Pod -> SUBSET Entry]
      /\ faults \in 0 .. MaxFaults
      /\ wrote \in [Pod -> Nat] /\ silent \in [Pod -> Nat] /\ sound \in [Pod -> Nat]
  BY DEF HeartbeatInv, HeartbeatTypeOK
<1>2. now' = now /\ silent' = silent
  BY DEF WorkerStep, Start, TickerFires, Beat, ReadAll, CleanupStale, BeatFails, ReadFails,
         CleanupFails, Crash
<1>3. step' \in [Pod -> {"off", "wait", "set", "read", "delete"}] /\ since' \in [Pod -> Nat]
  BY <1>1 DEF WorkerStep, Start, TickerFires, Beat, ReadAll, CleanupStale, BeatFails, ReadFails,
         CleanupFails, Crash, Goto
<1>4. next' \in [Pod -> Nat]
  <2>1. CASE TickerFires(q)
    <3>1. NextTick(next[q]) \in Nat
      BY <1>1, <2>1, NextTickBounds DEF TickerFires
    <3> QED  BY <1>1, <2>1, <3>1 DEF TickerFires
  <2>2. CASE Start(q)
    BY <1>1, <2>2 DEF Start
  <2>3. CASE ~TickerFires(q) /\ ~Start(q)
    BY <1>1, <2>3 DEF WorkerStep, Beat, ReadAll, CleanupStale, BeatFails, ReadFails,
         CleanupFails, Crash
  <2> QED  BY <2>1, <2>2, <2>3
<1>5. seen' \in [Pod -> SUBSET Entry]
  BY <1>1 DEF WorkerStep, Start, TickerFires, Beat, ReadAll, CleanupStale, BeatFails, ReadFails,
         CleanupFails, Crash
<1>6. faults' \in 0 .. MaxFaults
  BY <1>1 DEF WorkerStep, Start, TickerFires, Beat, ReadAll, CleanupStale, BeatFails, ReadFails,
         CleanupFails, Crash, Fail
<1>7. wrote' \in [Pod -> Nat] /\ sound' \in [Pod -> Nat]
  BY <1>1 DEF WorkerStep, Start, TickerFires, Beat, ReadAll, CleanupStale, BeatFails, ReadFails,
         CleanupFails, Crash, Fail
<1>8. registry' \subseteq Entry /\ \A e, f \in registry' : e.pod = f.pod => e = f
  <2>1. CASE Beat(q)
    <3>1. OwnEntry(q) \in Entry /\ OwnEntry(q).pod = q
      <4>1. since[q] + Skew[q] \in Int
        BY <1>1
      <4> QED  BY <4>1, UnixBounds DEF OwnEntry, Entry
    <3>2. registry' = {e \in registry : e.pod # q} \union {OwnEntry(q)}
      BY <2>1 DEF Beat, RegistryAfterBeat
    <3> QED  BY <1>1, <3>1, <3>2
  <2>2. CASE ~Beat(q)
    <3>1. registry' \subseteq registry
      BY <2>2 DEF WorkerStep, Start, TickerFires, ReadAll, CleanupStale, BeatFails, ReadFails,
         CleanupFails, Crash
    <3> QED  BY <1>1, <3>1
  <2> QED  BY <2>1, <2>2
<1> QED  BY <1>1, <1>2, <1>3, <1>4, <1>5, <1>6, <1>7, <1>8 DEF HeartbeatTypeOK

(* A step of q's worker as functions of the pods: it leaves the others be, *)
Others(q) ==
  /\ now' = now /\ silent' = silent
  /\ \A p \in Pod \ {q} :
       /\ step'[p] = step[p] /\ since'[p] = since[p] /\ next'[p] = next[p]
       /\ seen'[p] = seen[p] /\ wrote'[p] = wrote[p] /\ sound'[p] = sound[p]

(* and gives q a place, a next tick, and times of the last beat and failure. *)
Effect(q, from, to, tick, beat, failure) ==
  /\ Others(q)
  /\ step[q] = from /\ step'[q] = to /\ since'[q] = now
  /\ next'[q] = tick /\ wrote'[q] = beat /\ sound'[q] = failure

(* What each step does. *)
LEMMA Effects ==
  ASSUME HeartbeatInv, NEW q \in Pod
  PROVE  /\ Start(q) => Effect(q, "off", "wait", now + Interval, wrote[q], now) /\ registry' = registry
         /\ TickerFires(q) => /\ Effect(q, "wait", "set", NextTick(next[q]), wrote[q], sound[q])
                              /\ next[q] <= now /\ registry' = registry
         /\ Beat(q) => /\ Effect(q, "set", "read", next[q], now, sound[q])
                       /\ registry' = {e \in registry : e.pod # q} \union {OwnEntry(q)}
         /\ BeatFails(q) => Effect(q, "set", "read", next[q], wrote[q], now) /\ registry' = registry
         /\ ReadAll(q) => /\ Effect(q, "read", "delete", next[q], wrote[q], sound[q])
                          /\ seen'[q] = registry /\ registry' = registry
         /\ ReadFails(q) => Effect(q, "read", "wait", next[q], wrote[q], now) /\ registry' = registry
         /\ CleanupStale(q) => /\ Effect(q, "delete", "wait", next[q], wrote[q], sound[q])
                               /\ \E t \in since[q] .. now :
                                    registry' = {e \in registry : e.pod \notin StalePods(q, t)}
         /\ CleanupFails(q) => Effect(q, "delete", "wait", next[q], wrote[q], now) /\ registry' = registry
         /\ Crash(q) => /\ Others(q) /\ step'[q] = "off" /\ since'[q] = since[q]
                        /\ next'[q] = next[q] /\ wrote'[q] = wrote[q] /\ registry' = registry
<1> USE DEF Effect, Others, Goto
<1>1. /\ step \in [Pod -> {"off", "wait", "set", "read", "delete"}]
      /\ next \in [Pod -> Nat] /\ since \in [Pod -> Nat] /\ seen \in [Pod -> SUBSET Entry]
      /\ wrote \in [Pod -> Nat] /\ sound \in [Pod -> Nat] /\ now \in Nat
  BY DEF HeartbeatInv, HeartbeatTypeOK
<1>2. Start(q) => Effect(q, "off", "wait", now + Interval, wrote[q], now) /\ registry' = registry
  BY <1>1 DEF Start
<1>3. TickerFires(q) => /\ Effect(q, "wait", "set", NextTick(next[q]), wrote[q], sound[q])
                        /\ next[q] <= now /\ registry' = registry
  BY <1>1 DEF TickerFires
<1>4. Beat(q) => /\ Effect(q, "set", "read", next[q], now, sound[q])
                 /\ registry' = {e \in registry : e.pod # q} \union {OwnEntry(q)}
  BY <1>1 DEF Beat, RegistryAfterBeat
<1>5. BeatFails(q) => Effect(q, "set", "read", next[q], wrote[q], now) /\ registry' = registry
  BY <1>1 DEF BeatFails, Fail
<1>6. ReadAll(q) => /\ Effect(q, "read", "delete", next[q], wrote[q], sound[q])
                    /\ seen'[q] = registry /\ registry' = registry
  BY <1>1 DEF ReadAll
<1>7. ReadFails(q) => Effect(q, "read", "wait", next[q], wrote[q], now) /\ registry' = registry
  BY <1>1 DEF ReadFails, Fail
<1>8. CleanupStale(q) => /\ Effect(q, "delete", "wait", next[q], wrote[q], sound[q])
                         /\ \E t \in since[q] .. now :
                              registry' = {e \in registry : e.pod \notin StalePods(q, t)}
  BY <1>1 DEF CleanupStale
<1>9. CleanupFails(q) => Effect(q, "delete", "wait", next[q], wrote[q], now) /\ registry' = registry
  BY <1>1 DEF CleanupFails, Fail
<1>10. Crash(q) => /\ Others(q) /\ step'[q] = "off" /\ since'[q] = since[q]
                   /\ next'[q] = next[q] /\ wrote'[q] = wrote[q] /\ registry' = registry
  BY <1>1 DEF Crash, Fail
<1> QED  BY <1>2, <1>3, <1>4, <1>5, <1>6, <1>7, <1>8, <1>9, <1>10

(* Every step leaves the other pods be, and only beats write. *)
LEMMA AnyEffect ==
  ASSUME HeartbeatInv, NEW q \in Pod, WorkerStep(q)
  PROVE  /\ Others(q)
         /\ ~Beat(q) => registry' \subseteq registry /\ wrote'[q] = wrote[q]
         /\ ~Beat(q) /\ ~CleanupStale(q) => registry' = registry
         /\ \A p \in Pod : wrote'[p] >= wrote[p]
         /\ step'[q] = "delete" => ReadAll(q)
<1> USE Effects, PodTypes
<1>1. Others(q) /\ (step'[q] = "delete" => ReadAll(q))
  BY DEF WorkerStep, Effect
<1>2. /\ ~Beat(q) => registry' \subseteq registry /\ wrote'[q] = wrote[q]
      /\ ~Beat(q) /\ ~CleanupStale(q) => registry' = registry
  BY DEF WorkerStep, Effect
<1>3. wrote[q] <= now
  BY DEF HeartbeatInv, TimeInv, PodTime
<1>4. wrote'[q] = wrote[q] \/ wrote'[q] = now
  BY DEF WorkerStep, Effect
<1>5. \A p \in Pod : wrote'[p] >= wrote[p]
  BY <1>1, <1>3, <1>4 DEF Others
<1> QED  BY <1>1, <1>2, <1>5

(* A worker's command is followed by the next one without a pause. *)
LEMMA WorkerTime ==
  ASSUME HeartbeatInv, NEW q \in Pod, WorkerStep(q)
  PROVE  TimeInv'
<1> USE Numbers, PodTypes
<1>1. now' = now /\ silent' = silent /\ Others(q)
  BY AnyEffect DEF Others
<1>2. ASSUME NEW p \in Pod \ {q}  PROVE PodTime(p)'
  BY <1>1 DEF HeartbeatInv, TimeInv, PodTime, Others
<1>3. PodTime(q)
  BY DEF HeartbeatInv, TimeInv
<1>4. PodTime(q)'
  <2>1. CASE Start(q)
    BY <1>1, <1>3, <2>1, Effects DEF PodTime, Effect
  <2>2. CASE TickerFires(q)
    BY <1>1, <1>3, <2>2, Effects, NextTickBounds DEF PodTime, Effect
  <2>3. CASE Beat(q)
    BY <1>1, <1>3, <2>3, Effects DEF PodTime, Effect
  <2>4. CASE BeatFails(q) \/ ReadFails(q) \/ CleanupFails(q)
    BY <1>1, <1>3, <2>4, Effects DEF PodTime, Effect
  <2>5. CASE ReadAll(q) \/ CleanupStale(q)
    BY <1>1, <1>3, <2>5, Effects DEF PodTime, Effect
  <2>6. CASE Crash(q)
    BY <1>1, <1>3, <2>6, Effects DEF PodTime
  <2> QED  BY <2>1, <2>2, <2>3, <2>4, <2>5, <2>6 DEF WorkerStep
<1> QED  BY <1>1, <1>2, <1>4 DEF TimeInv

(* A beat enters the time at which it began. *)
LEMMA WorkerEntry ==
  ASSUME HeartbeatInv, NEW q \in Pod, WorkerStep(q)
  PROVE  EntryInv'
<1> USE Numbers, PodTypes
<1>1. CASE ~Beat(q)
  <2>1. registry' \subseteq registry /\ \A p \in Pod : wrote'[p] = wrote[p]
    BY <1>1, AnyEffect DEF Others
  <2> QED  BY <2>1 DEF HeartbeatInv, EntryInv
<1>2. CASE Beat(q)
  <2>1. /\ Effect(q, "set", "read", next[q], now, sound[q])
        /\ registry' = {e \in registry : e.pod # q} \union {OwnEntry(q)}
    BY <1>2, Effects
  <2>2. OwnEntry(q).pod = q /\ OwnEntry(q).ts = Unix(since[q] + Skew[q])
    BY DEF OwnEntry
  <2>3. since[q] <= now /\ now <= since[q] + Latency
    BY <2>1 DEF HeartbeatInv, TimeInv, PodTime, Effect
  <2>4. /\ Unix(since[q] + Skew[q]) \in Int /\ Unix(since[q] + Skew[q]) <= now + MaxSkew
        /\ Unix(since[q] + Skew[q]) > now - Latency - MaxSkew - Second
    <3>1. since[q] + Skew[q] \in Int
      OBVIOUS
    <3> QED  BY <2>3, <3>1, UnixBounds
  <2>5. wrote'[q] = now /\ \A p \in Pod \ {q} : wrote'[p] = wrote[p]
    BY <2>1 DEF Effect, Others
  <2>6. ASSUME NEW e \in registry, e.pod # q
        PROVE  /\ wrote'[e.pod] >= 1 /\ e.ts <= wrote'[e.pod] + MaxSkew
               /\ e.ts > wrote'[e.pod] - Latency - MaxSkew - Second
    BY <2>5, <2>6 DEF HeartbeatInv, EntryInv
  <2> QED  BY <2>1, <2>2, <2>4, <2>5, <2>6 DEF EntryInv
<1> QED  BY <1>1, <1>2

(* What a cleaner has read stays true of the pods while it decides. *)
LEMMA WorkerSeen ==
  ASSUME HeartbeatInv, NEW q \in Pod, WorkerStep(q)
  PROVE  SeenInv'
<1> USE Numbers, PodTypes
<1> SUFFICES ASSUME NEW r \in Pod, step'[r] = "delete"
             PROVE  /\ \A e \in seen'[r] :
                         \/ silent'[e.pod] >= since'[r]
                         \/ e.ts > since'[r] - Patience - Latency - MaxSkew - Second
                    /\ \A e \in registry' : e \in seen'[r] \/ wrote'[e.pod] >= since'[r]
  BY DEF SeenInv
<1>1. CASE r # q
  <2>1. /\ step[r] = "delete" /\ seen'[r] = seen[r] /\ since'[r] = since[r] /\ silent' = silent
    BY <1>1, AnyEffect DEF Others
  <2>2. ASSUME NEW e \in registry'
        PROVE  e \in seen[r] \/ wrote'[e.pod] >= since[r]
    <3>1. CASE e \in registry
      <4>1. e \in seen[r] \/ wrote[e.pod] >= since[r]
        BY <2>1, <3>1 DEF HeartbeatInv, SeenInv
      <4>2. e.pod \in Pod /\ wrote'[e.pod] >= wrote[e.pod]
        BY <3>1, AnyEffect
      <4>3. wrote'[e.pod] \in Nat
        BY <4>2, WorkerTypes DEF HeartbeatTypeOK
      <4> QED  BY <4>1, <4>2, <4>3
    <3>2. CASE e \notin registry
      <4>1. Beat(q)
        BY <3>2, AnyEffect
      <4>2. e = OwnEntry(q) /\ wrote'[q] = now
        BY <3>2, <4>1, Effects DEF Effect
      <4>3. since[r] <= now
        BY DEF HeartbeatInv, TimeInv, PodTime
      <4> QED  BY <4>2, <4>3 DEF OwnEntry
    <3> QED  BY <3>1, <3>2
  <2> QED  BY <2>1, <2>2 DEF HeartbeatInv, SeenInv
<1>2. CASE r = q
  <2>1. ReadAll(q)
    BY <1>2, AnyEffect
  <2>2. seen'[q] = registry /\ registry' = registry /\ since'[q] = now /\ silent' = silent
    BY <2>1, Effects DEF Effect, Others
  <2>3. ASSUME NEW e \in registry
        PROVE  \/ silent[e.pod] >= now
               \/ e.ts > now - Patience - Latency - MaxSkew - Second
    <3>1. e.ts > wrote[e.pod] - Latency - MaxSkew - Second
      BY DEF HeartbeatInv, EntryInv
    <3>2. now > wrote[e.pod] + Patience => silent[e.pod] = now
      BY DEF HeartbeatInv, TimeInv, PodTime
    <3> QED  BY <3>1, <3>2
  <2> QED  BY <1>2, <2>2, <2>3
<1> QED  BY <1>1, <1>2

(* The pods whose entries a cleaner deletes have been silent since it read. *)
LEMMA StaleIsSilent ==
  ASSUME HeartbeatInv, NEW q \in Pod, step[q] = "delete",
         NEW t \in since[q] .. now, NEW p \in StalePods(q, t)
  PROVE  silent[p] >= since[q] /\ now <= since[q] + Latency
<1> USE Numbers, PodTypes
<1>1. now <= since[q] + Latency
  BY DEF HeartbeatInv, TimeInv, PodTime
<1>2. PICK e \in seen[q] : e.ts < Cutoff(t + Skew[q]) /\ p = e.pod
  BY DEF StalePods
<1>3. t \in Int /\ t <= since[q] + Latency
  BY <1>1
<1>4. Cutoff(t + Skew[q]) \in Int /\ Cutoff(t + Skew[q]) <= t + MaxSkew - StaleAfter
  <2>1. t + Skew[q] - StaleAfter \in Int
    BY <1>3
  <2> QED  BY <1>3, <2>1, UnixBounds DEF Cutoff
<1>5. ~(e.ts > since[q] - Patience - Latency - MaxSkew - Second)
  BY <1>2, <1>3, <1>4 DEF Patience
<1>6. silent[e.pod] >= since[q]
  BY <1>5 DEF HeartbeatInv, SeenInv
<1> QED  BY <1>1, <1>2, <1>6

(* Nobody deletes the entry of a pod that was not silent. *)
LEMMA WorkerListed ==
  ASSUME HeartbeatInv, NEW q \in Pod, WorkerStep(q)
  PROVE  BeatingPodListed'
<1> USE Numbers, PodTypes
<1> SUFFICES ASSUME NEW p \in Pod, wrote'[p] # 0, silent'[p] + Latency < wrote'[p]
             PROVE  \E e \in registry' : e.pod = p
  BY DEF BeatingPodListed, Listed
<1>1. silent' = silent /\ Others(q)
  BY AnyEffect DEF Others
<1>2. CASE Beat(q)
  <2>1. /\ Effect(q, "set", "read", next[q], now, sound[q])
        /\ registry' = {e \in registry : e.pod # q} \union {OwnEntry(q)}
    BY <1>2, Effects
  <2>2. CASE p = q
    <3>1. OwnEntry(q) \in registry' /\ OwnEntry(q).pod = q
      BY <2>1 DEF OwnEntry
    <3> QED  BY <2>2, <3>1
  <2>3. CASE p # q
    <3>1. wrote'[p] = wrote[p]
      BY <1>1, <2>3 DEF Others
    <3>2. PICK e \in registry : e.pod = p
      BY <1>1, <3>1 DEF HeartbeatInv, BeatingPodListed, Listed
    <3> QED  BY <2>1, <2>3, <3>2
  <2> QED  BY <2>2, <2>3
<1>3. CASE ~Beat(q)
  <2>1. wrote'[p] = wrote[p]
    BY <1>1, <1>3, AnyEffect DEF Others
  <2>2. PICK e \in registry : e.pod = p
    BY <1>1, <2>1 DEF HeartbeatInv, BeatingPodListed, Listed
  <2>3. CASE ~CleanupStale(q)
    BY <1>3, <2>2, <2>3, AnyEffect
  <2>4. CASE CleanupStale(q)
    <3>1. step[q] = "delete"
      BY <2>4, Effects DEF Effect
    <3>2. PICK t \in since[q] .. now : registry' = {f \in registry : f.pod \notin StalePods(q, t)}
      BY <2>4, Effects
    <3>3. CASE p \in StalePods(q, t)
      <4>1. silent[p] >= since[q] /\ now <= since[q] + Latency
        BY <3>1, <3>3, StaleIsSilent
      <4>2. wrote[p] <= now
        BY DEF HeartbeatInv, TimeInv, PodTime
      <4> QED  BY <1>1, <2>1, <4>1, <4>2
    <3>4. CASE p \notin StalePods(q, t)
      BY <2>2, <3>2, <3>4
    <3> QED  BY <3>3, <3>4
  <2> QED  BY <2>3, <2>4
<1> QED  BY <1>2, <1>3

(* A round that is in progress is not late with respect to now. *)
LEMMA RoundIsRecent ==
  ASSUME HeartbeatInv, NEW q \in Pod, NEW a \in Nat, a >= now
  PROVE  RoundSince(q, a)
  BY Numbers, PodTypes DEF HeartbeatInv, TimeInv, PodTime, RoundSince

(* A round that began late and ends leaves no entry of a dead pod. *)
LEMMA RoundForgets ==
  ASSUME HeartbeatInv, NEW q \in Pod, step[q] = "delete", NEW t \in since[q] .. now,
         NEW e \in registry, since[q] >= Old(e.pod)
  PROVE  e.pod \in StalePods(q, t)
<1> USE Numbers, PodTypes
<1>1. e.pod \in Pod /\ e.ts \in Int /\ t \in Int /\ t >= since[q]
  OBVIOUS
<1>2. wrote[e.pod] < since[q]
  BY <1>1 DEF Old
<1>3. e \in seen[q]
  BY <1>1, <1>2 DEF HeartbeatInv, SeenInv
<1>4. e.ts <= wrote[e.pod] + MaxSkew
  BY DEF HeartbeatInv, EntryInv
<1>5. Cutoff(t + Skew[q]) \in Int /\ Cutoff(t + Skew[q]) > t - MaxSkew - StaleAfter - Second
  <2>1. t + Skew[q] - StaleAfter \in Int
    BY <1>1
  <2> QED  BY <1>1, <2>1, UnixBounds DEF Cutoff
<1>6. e.ts < Cutoff(t + Skew[q])
  BY <1>1, <1>4, <1>5 DEF Old
<1> QED  BY <1>3, <1>6 DEF StalePods

(* Rounds follow one another at the pace of the ticker. *)
LEMMA WorkerForgets ==
  ASSUME HeartbeatInv, NEW q \in Pod, WorkerStep(q)
  PROVE  ForgetInv'
<1> USE Numbers, PodTypes
<1> SUFFICES ASSUME NEW p \in Pod, NEW r \in Pod, NEW a \in Nat,
                    Listed(p)', step'[r] # "off", a >= Old(p)', a >= sound'[r]
             PROVE  RoundSince(r, a)'
  BY DEF ForgetInv
<1>1. Others(q) /\ now' = now
  BY AnyEffect DEF Others
<1>2. PICK e \in registry' : e.pod = p
  BY DEF Listed
<1>3. a >= Old(p)
  <2>1. wrote'[p] \in Nat /\ wrote'[p] >= wrote[p]
    BY AnyEffect, WorkerTypes DEF HeartbeatTypeOK
  <2> QED  BY <2>1 DEF Old
<1>4. e \in registry \/ (Beat(q) /\ p = q)
  BY <1>2, AnyEffect, Effects DEF OwnEntry
<1>5. Beat(q) /\ p = q => a >= now
  <2>1. Beat(q) => wrote'[q] = now
    BY Effects DEF Effect
  <2> QED  BY <2>1 DEF Old
<1>6. CASE r # q
  <2>1. /\ step'[r] = step[r] /\ since'[r] = since[r] /\ next'[r] = next[r] /\ sound'[r] = sound[r]
    BY <1>1, <1>6 DEF Others
  <2>2. RoundSince(r, a)
    <3>1. CASE e \in registry
      BY <1>2, <1>3, <2>1, <3>1 DEF HeartbeatInv, ForgetInv, Listed
    <3>2. CASE Beat(q) /\ p = q
      BY <1>5, <3>2, RoundIsRecent
    <3> QED  BY <1>4, <3>1, <3>2
  <2> QED  BY <2>1, <2>2 DEF RoundSince
<1>7. CASE r = q
  <2>1. ASSUME e \in registry, step[q] # "off", a >= sound[q]
        PROVE  RoundSince(q, a)
    BY <1>2, <1>3, <2>1 DEF HeartbeatInv, ForgetInv, Listed
  <2>2. PodTime(q)
    BY DEF HeartbeatInv, TimeInv
  <2>3. CASE Start(q)
    BY <1>7, <2>3, Effects DEF Effect, RoundSince
  <2>4. CASE TickerFires(q)
    <3>1. /\ Effect(q, "wait", "set", NextTick(next[q]), wrote[q], sound[q])
          /\ registry' = registry
      BY <2>4, Effects
    <3>2. RoundSince(q, a)
      BY <1>7, <2>1, <3>1 DEF Effect
    <3>3. now <= a + Interval + Latency
      BY <2>2, <3>1, <3>2 DEF Effect, PodTime, RoundSince
    <3> QED  BY <1>7, <3>1, <3>3 DEF Effect, RoundSince
  <2>5. CASE Beat(q)
    <3>1. Effect(q, "set", "read", next[q], now, sound[q])
      BY <2>5, Effects
    <3>2. now <= a + Interval + 2 * Latency
      <4>1. CASE p = q
        BY <1>5, <2>5, <4>1
      <4>2. CASE e \in registry
        <5>1. RoundSince(q, a)
          BY <1>7, <2>1, <3>1, <4>2 DEF Effect
        <5> QED  BY <2>2, <3>1, <5>1 DEF Effect, PodTime, RoundSince
      <4> QED  BY <1>4, <4>1, <4>2
    <3> QED  BY <1>7, <3>1, <3>2 DEF Effect, RoundSince
  <2>6. CASE BeatFails(q)
    BY <1>7, <2>6, Effects DEF Effect, RoundSince
  <2>7. CASE ReadAll(q)
    <3>1. Effect(q, "read", "delete", next[q], wrote[q], sound[q]) /\ registry' = registry
      BY <2>7, Effects
    <3>2. RoundSince(q, a)
      BY <1>7, <2>1, <3>1 DEF Effect
    <3>3. now <= a + Interval + 3 * Latency
      BY <2>2, <3>1, <3>2 DEF Effect, PodTime, RoundSince
    <3> QED  BY <1>7, <3>1, <3>3 DEF Effect, RoundSince
  <2>8. CASE ReadFails(q) \/ CleanupFails(q)
    <3>1. /\ step[q] \in {"read", "delete"} /\ step'[q] = "wait" /\ since'[q] = now
          /\ next'[q] = next[q] /\ sound'[q] = now
      BY <2>8, Effects DEF Effect
    <3> QED  BY <1>7, <2>2, <3>1 DEF PodTime, RoundSince
  <2>9. CASE CleanupStale(q)
    <3>1. Effect(q, "delete", "wait", next[q], wrote[q], sound[q])
      BY <2>9, Effects
    <3>2. PICK t \in since[q] .. now : registry' = {f \in registry : f.pod \notin StalePods(q, t)}
      BY <2>9, Effects
    <3>3. e \in registry /\ e.pod \notin StalePods(q, t)
      BY <3>2
    <3>4. since[q] < Old(p)
      BY <1>2, <3>1, <3>3, RoundForgets DEF Effect, Old
    <3>5. since[q] <= a
      BY <1>3, <3>4 DEF Old
    <3>6. now <= a + Latency /\ next[q] <= a + Interval
      BY <2>2, <3>1, <3>5 DEF Effect, PodTime
    <3> QED  BY <1>7, <3>1, <3>6 DEF Effect, RoundSince
  <2>10. CASE Crash(q)
    BY <1>7, <2>10, Effects
  <2> QED  BY <2>3, <2>4, <2>5, <2>6, <2>7, <2>8, <2>9, <2>10 DEF WorkerStep
<1> QED  BY <1>6, <1>7
-----------------------------------------------------------------------------
(* Time passes only while every worker is prompt. *)
LEMMA TickStep ==
  ASSUME HeartbeatInv, Tick
  PROVE  HeartbeatInv'
<1> USE Numbers, PodTypes
<1>1. /\ now' = now + 1
      /\ silent' = [p \in Pod |-> IF now + 1 > wrote[p] + Patience THEN now + 1 ELSE silent[p]]
      /\ UNCHANGED <<registry, step, next, since, seen, faults, wrote, sound>>
  BY DEF Tick, worker
<1>2. ASSUME NEW p \in Pod
      PROVE  silent'[p] \in Nat /\ silent'[p] >= silent[p] /\ silent'[p] <= now + 1
             /\ (now + 1 > wrote[p] + Patience => silent'[p] = now + 1)
  <2>1. silent[p] <= now
    BY DEF HeartbeatInv, TimeInv, PodTime
  <2> QED  BY <1>1, <2>1
<1>3. HeartbeatTypeOK'
  <2>1. silent' \in [Pod -> Nat]
    BY <1>1, <1>2
  <2> QED  BY <1>1, <2>1 DEF HeartbeatInv, HeartbeatTypeOK
<1>4. TimeInv'
  <2> SUFFICES ASSUME NEW p \in Pod  PROVE PodTime(p)'
    BY <1>1 DEF TimeInv
  <2>1. Prompt(p)
    BY DEF Tick
  <2>2. PodTime(p)
    BY DEF HeartbeatInv, TimeInv
  <2>3. /\ since'[p] <= now' /\ wrote'[p] <= now' /\ silent'[p] <= now' /\ next'[p] <= now' + Interval
        /\ (now' > wrote'[p] + Patience => silent'[p] = now')
    BY <1>1, <1>2, <2>2 DEF PodTime
  <2>4. step'[p] \in {"set", "read", "delete"} =>
          now' <= since'[p] + Latency /\ next'[p] <= since'[p] + Interval
    BY <1>1, <2>1, <2>2 DEF PodTime, Prompt
  <2>5. step'[p] = "wait" => now' <= next'[p] + Latency \/ now' <= since'[p] + Latency
    BY <1>1, <2>1 DEF Prompt
  <2> QED  BY <2>3, <2>4, <2>5 DEF PodTime
<1>5. EntryInv'
  BY <1>1 DEF HeartbeatInv, EntryInv
<1>6. SeenInv'
  <2> SUFFICES ASSUME NEW q \in Pod, step[q] = "delete"
               PROVE  /\ \A e \in seen[q] :
                           \/ silent'[e.pod] >= since[q]
                           \/ e.ts > since[q] - Patience - Latency - MaxSkew - Second
                      /\ \A e \in registry : e \in seen[q] \/ wrote[e.pod] >= since[q]
    BY <1>1 DEF SeenInv
  <2>1. ASSUME NEW e \in seen[q]
        PROVE  \/ silent'[e.pod] >= since[q]
               \/ e.ts > since[q] - Patience - Latency - MaxSkew - Second
    <3>1. \/ silent[e.pod] >= since[q]
          \/ e.ts > since[q] - Patience - Latency - MaxSkew - Second
      BY DEF HeartbeatInv, SeenInv
    <3>2. e.pod \in Pod
      OBVIOUS
    <3>3. silent'[e.pod] \in Nat /\ silent'[e.pod] >= silent[e.pod]
      BY <1>2, <3>2
    <3> QED  BY <3>1, <3>2, <3>3
  <2> QED  BY <2>1 DEF HeartbeatInv, SeenInv
<1>7. BeatingPodListed'
  <2> SUFFICES ASSUME NEW p \in Pod, wrote[p] # 0, silent'[p] + Latency < wrote[p]
               PROVE  Listed(p)
    BY <1>1 DEF BeatingPodListed, Listed
  <2>1. silent[p] + Latency < wrote[p]
    BY <1>2
  <2> QED  BY <2>1 DEF HeartbeatInv, BeatingPodListed
<1>8. ForgetInv'
  BY <1>1 DEF HeartbeatInv, ForgetInv, Listed, Old, RoundSince
<1> QED  BY <1>3, <1>4, <1>5, <1>6, <1>7, <1>8 DEF HeartbeatInv

(* Every state of the registry satisfies the invariant. *)
LEMMA HeartbeatInvariance == HeartbeatSpec => []HeartbeatInv
<1>1. ASSUME HeartbeatInv, [HeartbeatNext]_hvars  PROVE HeartbeatInv'
  <2>1. CASE \E p \in Pod : WorkerStep(p)
    BY <1>1, <2>1, WorkerTypes, WorkerTime, WorkerEntry, WorkerSeen, WorkerListed, WorkerForgets
    DEF HeartbeatInv
  <2>2. CASE Tick
    BY <1>1, <2>2, TickStep
  <2>3. CASE UNCHANGED hvars
    BY <1>1, <2>3 DEF hvars, worker, HeartbeatInv, HeartbeatTypeOK, TimeInv, PodTime, EntryInv, SeenInv,
       BeatingPodListed, ForgetInv, Listed, Old, RoundSince
  <2> QED  BY <1>1, <2>1, <2>2, <2>3 DEF HeartbeatNext
<1> QED  BY <1>1, InitHeartbeat, PTL DEF HeartbeatSpec

(* The registry and the workers are of their types, with at most one entry *)
(* of a pod.                                                               *)
THEOREM HeartbeatTypes == HeartbeatSpec => []HeartbeatTypeOK
<1>1. HeartbeatInv => HeartbeatTypeOK
  BY DEF HeartbeatInv
<1> QED  BY <1>1, HeartbeatInvariance, PTL

(* Only a pod that was silent for long, shortly before its last beat or    *)
(* after it, is missing from the registry, however the commands of the     *)
(* cleaners interleave with its beats.                                     *)
THEOREM BeatingPodsListed == HeartbeatSpec => []BeatingPodListed
<1>1. HeartbeatInv => BeatingPodListed
  BY DEF HeartbeatInv
<1> QED  BY <1>1, HeartbeatInvariance, PTL

(* A dead pod is forgotten in bounded time by any pod that works. *)
THEOREM DeadPodsForgotten == HeartbeatSpec => []DeadPodForgotten
<1>1. ASSUME HeartbeatInv  PROVE DeadPodForgotten
  <2> USE <1>1, Numbers, PodTypes
  <2> SUFFICES ASSUME NEW p \in Pod, NEW q \in Pod, Listed(p), step[q] # "off",
                      now > wrote[p] + Oblivion, now > sound[q] + Interval + 4 * Latency
               PROVE  FALSE
    BY DEF DeadPodForgotten
  <2> DEFINE a == now - Interval - 4 * Latency - 1
  <2>1. a \in Nat /\ a >= Old(p) /\ a >= sound[q]
    BY DEF Oblivion, Old
  <2>2. RoundSince(q, a)
    BY <1>1, <2>1 DEF HeartbeatInv, ForgetInv
  <2>3. PodTime(q) /\ step[q] \in {"off", "wait", "set", "read", "delete"}
    BY <1>1 DEF HeartbeatInv, TimeInv, HeartbeatTypeOK
  <2>4. now <= a + Interval + 4 * Latency
    BY <2>1, <2>2, <2>3 DEF RoundSince, PodTime
  <2> QED  BY <2>4
<1> QED  BY <1>1, HeartbeatInvariance, PTL
=============================================================================
