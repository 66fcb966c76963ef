---------------------------- MODULE Sessions_proofs ----------------------------
(***************************************************************************)
(* Proofs about Sessions, for any number of connections and pods and any   *)
(* lifetime of the lock.                                                   *)
(***************************************************************************)
EXTENDS Sessions, TLAPS

(* The lock expires when its lease is over, and a session that has started *)
(* knows its pod.                                                          *)
LeaseInv ==
  /\ lock # NoPod => lease > 0
  /\ \A c \in Conn : handler[c] # "none" => pod[c] \in Pod

(* Only a session that acquired the lock releases it, and it acquires it   *)
(* when its goroutines start.                                              *)
HoldInv ==
  \A c \in Conn :
    /\ handler[c] \in {"check", "delete"} => holds[c]
    /\ handler[c] \in {"none", "group"} => ~holds[c]

(* A registry has connections of its own pod only. *)
RegistryInv ==
  \A p \in Pod : registry[p] # NoConn =>
    /\ pod[registry[p]] = p
    /\ handler[registry[p]] \in HandlerStep \ {"none", "close", "gone"}

SInv == SessionsTypeOK /\ LeaseInv /\ HoldInv /\ RegistryInv

-----------------------------------------------------------------------------
(* The steps of the handler, of the goroutines, and of the surroundings. *)
HandlerKind(c) ==
  \/ AddClient(c) \/ HandlerRuns(c) \/ GroupFails(c) \/ AcquireFails(c) \/ ReleaseFails(c)

RoutineKind(c) ==
  \/ ClientStops(c) \/ ClientFails(c) \/ ClientSendsGarbage(c)
  \/ DeliveryEnds(c) \/ DeliveryFails(c)
  \/ RenewerRuns(c) \/ RenewFails(c)
  \/ PeerLeaves(c)

(* Every step is of one of these kinds. *)
LEMMA StepKinds ==
  ASSUME [SessionsNext]_svars
  PROVE  \/ \E c \in Conn : HandlerKind(c) \/ RoutineKind(c)
         \/ \E p \in Pod : PodCrashes(p)
         \/ LockTick
         \/ UNCHANGED svars
  BY DEF SessionsNext, SessionSteps, HandlerKind, RoutineKind

(* What the goroutines and the peer leave alone. *)
LEMMA RoutineFrame ==
  ASSUME NEW c \in Conn, RoutineKind(c)
  PROVE  UNCHANGED <<pod, registry, handler, holds, lock, ranOut>>
  BY DEF RoutineKind, ClientStops, ClientFails, ClientSendsGarbage, ClientReports,
         DeliveryEnds, DeliveryFails, RenewerRuns, RenewerStops, RenewGet, RenewExtend,
         RenewFails, PeerLeaves, locking, routines

(* The handler keeps the state well typed. *)
LEMMA HandlerType ==
  ASSUME SessionsTypeOK, NEW c \in Conn, HandlerKind(c)
  PROVE  SessionsTypeOK'
<1> USE SessionsAssumption DEF SessionsTypeOK, HandlerStep, Goto, ErrChanCap, Fail,
        StartGoroutines, routines, locking
<1>1. CASE AddClient(c)
  <2>1. PICK p \in Route[c] :
          /\ pod' = [pod EXCEPT ![c] = p]
          /\ socket' = [d \in Conn |-> IF d = c THEN "open"
                                       ELSE IF d = registry[p] THEN "closed" ELSE socket[d]]
          /\ registry' = [registry EXCEPT ![p] = c]
    BY <1>1 DEF AddClient
  <2>2. p \in Pod
    OBVIOUS
  <2>3. /\ pod' \in [Conn -> Pod \union {NoPod}]
        /\ socket' \in [Conn -> {"none", "open", "closed"}]
        /\ registry' \in [Pod -> Conn \union {NoConn}]
    BY <2>1, <2>2
  <2>4. handler' \in [Conn -> {"none", "group", "wait", "check", "delete", "remove", "close",
                              "gone"}]
    BY <1>1 DEF AddClient
  <2> QED  BY <1>1, <2>3, <2>4 DEF AddClient
<1>2. CASE AcquireConsumerLock(c)
  <2>1. /\ handler' \in [Conn -> {"none", "group", "wait", "check", "delete", "remove", "close",
                                 "gone"}]
        /\ client' \in [Conn -> {"off", "read", "end"}]
        /\ delivery' \in [Conn -> {"off", "loop", "end"}]
    BY <1>2 DEF AcquireConsumerLock
  <2>2. CASE lock = NoPod
    <3>1. pod[c] \in Pod \union {NoPod}
      OBVIOUS
    <3>2. lock' \in Pod \union {NoPod} /\ lease' \in 0..LockTTL
      BY <1>2, <2>2, <3>1 DEF AcquireConsumerLock
    <3>3. holds' = [holds EXCEPT ![c] = TRUE]
      BY <1>2, <2>2 DEF AcquireConsumerLock
    <3>4. holds' \in [Conn -> BOOLEAN]
      BY <3>3
    <3>5. renewer' \in [Conn -> {"off", "wait", "extend", "end"}]
      BY <1>2, <2>2 DEF AcquireConsumerLock
    <3> QED  BY <1>2, <2>1, <3>2, <3>4, <3>5 DEF AcquireConsumerLock
  <2>3. CASE lock # NoPod
    BY <1>2, <2>1, <2>3 DEF AcquireConsumerLock
  <2> QED  BY <2>2, <2>3
<1>3. CASE HandlerReceives(c)
  BY <1>3 DEF HandlerReceives, AfterWait
<1>4. CASE ReleaseGet(c) \/ ReleaseDel(c) \/ ReleaseFails(c)
  BY <1>4 DEF ReleaseGet, ReleaseDel, ReleaseFails
<1>5. CASE RemoveClient(c) \/ Close(c)
  BY <1>5 DEF RemoveClient, Close
<1>6. CASE GroupFails(c) \/ AcquireFails(c)
  BY <1>6 DEF GroupFails, AcquireFails
<1> QED  BY <1>1, <1>2, <1>3, <1>4, <1>5, <1>6 DEF HandlerKind, HandlerRuns

(* So do the goroutines. *)
LEMMA RoutineType ==
  ASSUME SessionsTypeOK, NEW c \in Conn, RoutineKind(c)
  PROVE  SessionsTypeOK'
<1> USE SessionsAssumption DEF SessionsTypeOK, ErrChanCap, Fail, routines, locking
<1>1. CASE ClientStops(c) \/ ClientFails(c) \/ ClientSendsGarbage(c)
  BY <1>1 DEF ClientStops, ClientFails, ClientSendsGarbage, ClientReports, Report
<1>2. CASE DeliveryEnds(c) \/ DeliveryFails(c)
  BY <1>2 DEF DeliveryEnds, DeliveryFails, Report
<1>3. CASE RenewerRuns(c) \/ RenewFails(c)
  BY <1>3 DEF RenewerRuns, RenewerStops, RenewGet, RenewExtend, RenewFails
<1>4. CASE PeerLeaves(c)
  BY <1>4 DEF PeerLeaves
<1> QED  BY <1>1, <1>2, <1>3, <1>4 DEF RoutineKind

(* So do a crash and the passing of time. *)
LEMMA SurroundingsType ==
  ASSUME SessionsTypeOK, LeaseInv, (\E p \in Pod : PodCrashes(p)) \/ LockTick
  PROVE  SessionsTypeOK'
<1> USE SessionsAssumption DEF SessionsTypeOK, HandlerStep, ErrChanCap, Fail, locking, routines
<1>1. CASE LockTick
  BY <1>1 DEF LockTick, LeaseInv
<1>2. ASSUME NEW p \in Pod, PodCrashes(p)
      PROVE  SessionsTypeOK'
  <2>1. /\ socket' \in [Conn -> {"none", "open", "closed"}]
        /\ registry' \in [Pod -> Conn \union {NoConn}]
        /\ faults' \in 0..MaxFaults
    BY <1>2 DEF PodCrashes
  <2>2. handler' \in [Conn -> {"none", "group", "wait", "check", "delete", "remove", "close",
                              "gone"}]
    BY <1>2 DEF PodCrashes
  <2>3. /\ client' \in [Conn -> {"off", "read", "end"}]
        /\ delivery' \in [Conn -> {"off", "loop", "end"}]
        /\ renewer' \in [Conn -> {"off", "wait", "extend", "end"}]
    BY <1>2 DEF PodCrashes
  <2> QED  BY <1>2, <2>1, <2>2, <2>3 DEF PodCrashes
<1> QED  BY <1>1, <1>2

(* Every step keeps the state well typed. *)
LEMMA StepType ==
  ASSUME SessionsTypeOK, LeaseInv, [SessionsNext]_svars
  PROVE  SessionsTypeOK'
<1>1. CASE UNCHANGED svars
  BY <1>1 DEF SessionsTypeOK, svars, routines, locking
<1> QED  BY <1>1, StepKinds, HandlerType, RoutineType, SurroundingsType

-----------------------------------------------------------------------------
(* The lease and the pods of the sessions are kept by every step. *)
LEMMA StepLease ==
  ASSUME SessionsTypeOK, LeaseInv, [SessionsNext]_svars
  PROVE  LeaseInv'
<1> USE SessionsAssumption DEF LeaseInv
<1>1. ASSUME NEW c \in Conn, HandlerKind(c)
      PROVE  LeaseInv'
  <2> USE <1>1 DEF SessionsTypeOK, Goto, locking
  <2>1. CASE AddClient(c)
    <3>1. PICK p \in Route[c] : pod' = [pod EXCEPT ![c] = p]
      BY <2>1 DEF AddClient
    <3>2. p \in Pod
      OBVIOUS
    <3> QED  BY <2>1, <3>1, <3>2 DEF AddClient
  <2>2. CASE AcquireConsumerLock(c) \/ AcquireFails(c)
    BY <2>2 DEF AcquireConsumerLock, AcquireFails
  <2>3. CASE HandlerReceives(c)
    BY <2>3 DEF HandlerReceives
  <2>4. CASE ReleaseGet(c) \/ ReleaseDel(c) \/ ReleaseFails(c)
    BY <2>4 DEF ReleaseGet, ReleaseDel, ReleaseFails
  <2>5. CASE RemoveClient(c) \/ Close(c) \/ GroupFails(c)
    BY <2>5 DEF RemoveClient, Close, GroupFails
  <2> QED  BY <2>1, <2>2, <2>3, <2>4, <2>5 DEF HandlerKind, HandlerRuns
<1>2. ASSUME NEW c \in Conn, RoutineKind(c)
      PROVE  LeaseInv'
  <2>1. lease' = lease \/ lease' = LockTTL
    BY <1>2 DEF RoutineKind, ClientStops, ClientFails, ClientSendsGarbage, ClientReports,
         DeliveryEnds, DeliveryFails, RenewerRuns, RenewerStops, RenewGet, RenewExtend,
         RenewFails, PeerLeaves, locking
  <2> QED  BY <1>2, <2>1, RoutineFrame
<1>3. ASSUME NEW p \in Pod, PodCrashes(p)
      PROVE  LeaseInv'
  BY <1>3 DEF PodCrashes, SessionsTypeOK, locking
<1>4. CASE LockTick
  BY <1>4 DEF LockTick, SessionsTypeOK
<1>5. CASE UNCHANGED svars
  BY <1>5 DEF svars, locking
<1> QED  BY <1>1, <1>2, <1>3, <1>4, <1>5, StepKinds

(* Only a session that has the lock's yes goes on to release it. *)
LEMMA StepHold ==
  ASSUME SessionsTypeOK, HoldInv, [SessionsNext]_svars
  PROVE  HoldInv'
<1> USE DEF HoldInv
<1>1. ASSUME NEW c \in Conn, HandlerKind(c)
      PROVE  HoldInv'
  <2> USE <1>1 DEF SessionsTypeOK, Goto, locking
  <2>1. CASE AddClient(c)
    BY <2>1 DEF AddClient
  <2>2. CASE AcquireConsumerLock(c) \/ AcquireFails(c)
    BY <2>2 DEF AcquireConsumerLock, AcquireFails
  <2>3. CASE HandlerReceives(c)
    BY <2>3 DEF HandlerReceives, AfterWait
  <2>4. CASE ReleaseGet(c) \/ ReleaseDel(c) \/ ReleaseFails(c)
    BY <2>4 DEF ReleaseGet, ReleaseDel, ReleaseFails
  <2>5. CASE RemoveClient(c) \/ Close(c) \/ GroupFails(c)
    BY <2>5 DEF RemoveClient, Close, GroupFails
  <2> QED  BY <2>1, <2>2, <2>3, <2>4, <2>5 DEF HandlerKind, HandlerRuns
<1>2. ASSUME NEW c \in Conn, RoutineKind(c)
      PROVE  HoldInv'
  BY <1>2, RoutineFrame
<1>3. ASSUME NEW p \in Pod, PodCrashes(p)
      PROVE  HoldInv'
  BY <1>3 DEF PodCrashes, SessionsTypeOK, locking
<1>4. CASE LockTick \/ UNCHANGED svars
  BY <1>4 DEF LockTick, svars, locking
<1> QED  BY <1>1, <1>2, <1>3, <1>4, StepKinds

(* A registry has connections of its own pod, whose handlers have not       *)
(* passed RemoveClient: that call deletes the entry of the handler's own    *)
(* pod, whoever it is, and no other entry can be the handler's connection.  *)
LEMMA StepRegistry ==
  ASSUME SessionsTypeOK, RegistryInv, [SessionsNext]_svars
  PROVE  RegistryInv'
<1> USE SessionsAssumption DEF RegistryInv, HandlerStep
<1>1. ASSUME NEW c \in Conn, HandlerKind(c)
      PROVE  RegistryInv'
  <2> USE <1>1 DEF SessionsTypeOK, Goto
  <2>1. CASE AddClient(c)
    <3>1. PICK p \in Route[c] :
            /\ pod' = [pod EXCEPT ![c] = p]
            /\ registry' = [registry EXCEPT ![p] = c]
      BY <2>1 DEF AddClient
    <3>2. p \in Pod
      OBVIOUS
    <3>3. handler' = [handler EXCEPT ![c] = "group"] /\ handler[c] = "none"
      BY <2>1 DEF AddClient
    <3>4. ASSUME NEW q \in Pod, registry'[q] # NoConn
          PROVE  /\ pod'[registry'[q]] = q
                 /\ handler'[registry'[q]] \in HandlerStep \ {"none", "close", "gone"}
      BY <3>1, <3>2, <3>3, <3>4
    <3> QED  BY <3>4
  <2>2. CASE AcquireConsumerLock(c) \/ AcquireFails(c)
    BY <2>2 DEF AcquireConsumerLock, AcquireFails
  <2>3. CASE HandlerReceives(c)
    BY <2>3 DEF HandlerReceives, AfterWait
  <2>4. CASE ReleaseGet(c) \/ ReleaseDel(c) \/ ReleaseFails(c)
    BY <2>4 DEF ReleaseGet, ReleaseDel, ReleaseFails
  <2>5. CASE RemoveClient(c)
    BY <2>5 DEF RemoveClient
  <2>6. CASE Close(c) \/ GroupFails(c)
    BY <2>6 DEF Close, GroupFails
  <2> QED  BY <2>1, <2>2, <2>3, <2>4, <2>5, <2>6 DEF HandlerKind, HandlerRuns
<1>2. ASSUME NEW c \in Conn, RoutineKind(c)
      PROVE  RegistryInv'
  BY <1>2, RoutineFrame
<1>3. ASSUME NEW p \in Pod, PodCrashes(p)
      PROVE  RegistryInv'
  BY <1>3 DEF PodCrashes, SessionsTypeOK
<1>4. CASE LockTick \/ UNCHANGED svars
  BY <1>4 DEF LockTick, svars
<1> QED  BY <1>1, <1>2, <1>3, <1>4, StepKinds

(* The initial state satisfies the invariant. *)
LEMMA SessionsInitInv ==
  ASSUME SessionsInit
  PROVE  SInv
<1>1. holds \in [Conn -> BOOLEAN] /\ ranOut \in BOOLEAN
  BY DEF SessionsInit
<1>2. /\ pod \in [Conn -> Pod \union {NoPod}]
      /\ socket \in [Conn -> {"none", "open", "closed"}]
      /\ registry \in [Pod -> Conn \union {NoConn}]
      /\ handler \in [Conn -> HandlerStep]
      /\ client \in [Conn -> {"off", "read", "end"}]
      /\ delivery \in [Conn -> {"off", "loop", "end"}]
      /\ renewer \in [Conn -> {"off", "wait", "extend", "end"}]
  BY DEF SessionsInit, HandlerStep
<1>3. /\ errChan \in [Conn -> 0..ErrChanCap]
      /\ lock \in Pod \union {NoPod}
      /\ lease \in 0..LockTTL
      /\ faults \in 0..MaxFaults
  BY SessionsAssumption DEF SessionsInit, ErrChanCap
<1>4. SessionsTypeOK
  BY <1>1, <1>2, <1>3 DEF SessionsTypeOK
<1>5. LeaseInv /\ HoldInv /\ RegistryInv
  BY DEF SessionsInit, LeaseInv, HoldInv, RegistryInv
<1> QED  BY <1>4, <1>5 DEF SInv

(* SInv is inductive. *)
LEMMA SessionsStepInv ==
  ASSUME SInv, [SessionsNext]_svars
  PROVE  SInv'
  BY StepType, StepLease, StepHold, StepRegistry DEF SInv

(* The invariant of the specification, from which the theorems below follow. *)
THEOREM SessionsInvariant == SessionsSpec => []SInv
<1>1. SessionsInit => SInv
  BY SessionsInitInv
<1>2. SInv /\ [SessionsNext]_svars => SInv'
  BY SessionsStepInv
<1> QED  BY <1>1, <1>2, PTL DEF SessionsSpec

(* The state of the handlers, the goroutines, the registries and the lock    *)
(* (HandleWebSocketConnection, ConnectionManager, consumer lock) is well      *)
(* typed: the error channel never has more errors than its capacity.          *)
THEOREM SessionsTypeCorrect == SessionsSpec => []SessionsTypeOK
<1>1. SInv => SessionsTypeOK
  BY DEF SInv
<1> QED  BY <1>1, SessionsInvariant, PTL

(* Whatever the number of pods and connections, no entry of a registry       *)
(* outlives the handler of its connection: RemoveClient, which deletes by key *)
(* without looking at the connection, may delete too much but never too little. *)
THEOREM SessionsRegistered == SessionsSpec => []RegisteredIsServed
<1>1. SInv => RegisteredIsServed
  BY DEF SInv, RegistryInv, RegisteredIsServed
<1> QED  BY <1>1, SessionsInvariant, PTL

-----------------------------------------------------------------------------
(* A step of the handler that is not an acquisition, and that does not       *)
(* release the lock, leaves the lock alone and adds no session to those that *)
(* hold it.                                                                  *)
LEMMA QuietHandler ==
  ASSUME SessionsTypeOK, HoldInv, NEW c \in Conn,
         \/ AddClient(c) \/ HandlerReceives(c) \/ ReleaseGet(c) \/ ReleaseFails(c)
         \/ RemoveClient(c) \/ Close(c) \/ GroupFails(c)
  PROVE  /\ UNCHANGED <<holds, lock, ranOut>>
         /\ \A d \in Conn : Holding(d)' => Holding(d) /\ pod'[d] = pod[d]
<1> USE DEF SessionsTypeOK, Goto, locking, Holding
<1>1. CASE AddClient(c)
  <2>1. PICK p \in Route[c] : pod' = [pod EXCEPT ![c] = p]
    BY <1>1 DEF AddClient
  <2> QED  BY <1>1, <2>1 DEF AddClient
<1>2. CASE HandlerReceives(c)
  BY <1>2 DEF HandlerReceives, AfterWait
<1>3. CASE ReleaseGet(c) \/ ReleaseFails(c)
  BY <1>3 DEF ReleaseGet, ReleaseFails
<1>4. CASE RemoveClient(c) \/ Close(c) \/ GroupFails(c)
  BY <1>4 DEF RemoveClient, Close, GroupFails, HoldInv
<1> QED  BY <1>1, <1>2, <1>3, <1>4

(* Every step keeps LockKept.  A session acquires the lock only while nobody *)
(* has it, and the one that deletes it is the one that holds it.             *)
LEMMA StepLockKept ==
  ASSUME SInv, LockKept, [SessionsNext]_svars
  PROVE  LockKept'
<1> SUFFICES ASSUME ~ranOut', NEW d \in Conn, Holding(d)'
             PROVE  lock' = pod'[d] /\ \A e \in Conn \ {d} : ~Holding(e)'
  BY DEF LockKept
<1> USE DEF SInv
<1>1. \A e \in Conn : Holding(e) => pod[e] \in Pod
  BY DEF LeaseInv, Holding
<1>2. ASSUME lock = NoPod, ~ranOut
      PROVE  \A e \in Conn : ~Holding(e)
  BY <1>1, <1>2, SessionsAssumption DEF LockKept
<1>3. ASSUME /\ UNCHANGED <<lock, ranOut>>
             /\ \A e \in Conn : Holding(e)' => Holding(e) /\ pod'[e] = pod[e]
      PROVE  lock' = pod'[d] /\ \A e \in Conn \ {d} : ~Holding(e)'
  BY <1>3 DEF LockKept
<1>4. ASSUME NEW c \in Conn, HandlerKind(c)
      PROVE  lock' = pod'[d] /\ \A e \in Conn \ {d} : ~Holding(e)'
  <2>1. CASE AcquireConsumerLock(c)
    <3> USE <2>1 DEF AcquireConsumerLock, Goto, SessionsTypeOK
    <3>1. CASE lock = NoPod
      <4>1. \A e \in Conn \ {c} : holds'[e] = holds[e] /\ handler'[e] = handler[e]
        BY <3>1
      <4>2. \A e \in Conn \ {c} : ~Holding(e)'
        BY <4>1, <3>1, <1>2 DEF Holding
      <4>3. lock' = pod'[c]
        BY <3>1
      <4> QED  BY <4>2, <4>3
    <3>2. CASE lock # NoPod
      <4>1. UNCHANGED <<holds, lock, ranOut, pod>>
        BY <3>2
      <4>2. \A e \in Conn : Holding(e)' => Holding(e)
        BY <4>1 DEF Holding, HoldInv
      <4> QED  BY <4>1, <4>2, <1>3
    <3> QED  BY <3>1, <3>2
  <2>2. CASE AcquireFails(c)
    <3> USE <2>2 DEF AcquireFails, Goto, SessionsTypeOK
    <3>1. UNCHANGED <<holds, ranOut, pod>>
      OBVIOUS
    <3>2. \A e \in Conn : Holding(e)' => Holding(e)
      BY <3>1 DEF Holding, HoldInv
    <3>3. CASE lock = NoPod
      BY <3>1, <3>2, <3>3, <1>2
    <3>4. CASE lock # NoPod
      BY <3>1, <3>2, <3>4, <1>3
    <3> QED  BY <3>3, <3>4
  <2>3. CASE ReleaseDel(c)
    <3> USE <2>3 DEF ReleaseDel, Goto, SessionsTypeOK
    <3>1. Holding(c) /\ UNCHANGED <<holds, ranOut, pod>>
      BY DEF HoldInv, Holding
    <3>2. \A e \in Conn : Holding(e)' => Holding(e) /\ e # c
      BY <3>1 DEF Holding
    <3> QED  BY <3>1, <3>2 DEF LockKept
  <2> QED  BY <1>3, <1>4, <2>1, <2>2, <2>3, QuietHandler DEF HandlerKind, HandlerRuns
<1>5. ASSUME NEW c \in Conn, RoutineKind(c)
      PROVE  lock' = pod'[d] /\ \A e \in Conn \ {d} : ~Holding(e)'
  BY <1>3, <1>5, RoutineFrame DEF Holding
<1>6. ASSUME NEW p \in Pod, PodCrashes(p)
      PROVE  lock' = pod'[d] /\ \A e \in Conn \ {d} : ~Holding(e)'
  <2>1. /\ UNCHANGED <<holds, lock, ranOut, pod>>
        /\ \A e \in Conn : handler'[e] \in {handler[e], "gone"}
    BY <1>6 DEF PodCrashes, locking
  <2> QED  BY <1>3, <2>1 DEF Holding
<1>7. CASE LockTick
  <2>1. UNCHANGED <<holds, handler, ranOut, pod, lock>>
    BY <1>7 DEF LockTick, SessionsTypeOK
  <2> QED  BY <1>3, <2>1 DEF Holding
<1>8. CASE UNCHANGED svars
  BY <1>3, <1>8 DEF svars, locking, Holding
<1> QED  BY <1>4, <1>5, <1>6, <1>7, <1>8, StepKinds

(* As long as the lock of a user has not run out, a session that acquired it *)
(* has it alone until it releases it (AcquireConsumerLock, RenewConsumerLock *)
(* and ReleaseConsumerLock, whose GET and DEL are two requests).             *)
THEOREM SessionsLockKept == SessionsSpec => []LockKept
<1>1. SessionsInit => LockKept
  BY DEF SessionsInit, LockKept, Holding
<1>2. SInv /\ LockKept /\ [SessionsNext]_svars => LockKept'
  BY StepLockKept
<1> QED  BY <1>1, <1>2, SessionsInvariant, PTL DEF SessionsSpec

-----------------------------------------------------------------------------
(* Without failures, the session that holds the lock keeps it until it       *)
(* deletes it or it runs out; one that reads a lock of its pod deletes it.   *)
LEMMA StepHasHolder ==
  ASSUME SInv, LockHasHolder, [SessionsNext]_svars
  PROVE  LockHasHolder'
<1> SUFFICES ASSUME faults' = 0, lock' # NoPod
             PROVE  \E d \in Conn : Holding(d)' /\ pod'[d] = lock'
  BY DEF LockHasHolder
<1> USE DEF SInv
<1>1. ASSUME faults = 0, lock' = lock,
             \A e \in Conn : Holding(e) /\ pod[e] = lock => Holding(e)' /\ pod'[e] = pod[e]
      PROVE  \E d \in Conn : Holding(d)' /\ pod'[d] = lock'
  BY <1>1 DEF LockHasHolder
<1>2. faults \in Nat
  BY SessionsAssumption DEF SessionsTypeOK
<1>3. ~Fail
  BY <1>2 DEF Fail
<1>4. ASSUME NEW c \in Conn, HandlerKind(c)
      PROVE  \E d \in Conn : Holding(d)' /\ pod'[d] = lock'
  <2> USE <1>4 DEF SessionsTypeOK, Goto, locking
  <2>1. CASE AddClient(c)
    <3>1. PICK p \in Route[c] : pod' = [pod EXCEPT ![c] = p]
      BY <2>1 DEF AddClient
    <3>2. \A e \in Conn \ {c} : pod'[e] = pod[e] /\ handler'[e] = handler[e]
      BY <2>1, <3>1 DEF AddClient
    <3>3. ~Holding(c)
      BY <2>1 DEF AddClient, Holding
    <3> QED  BY <2>1, <3>2, <3>3, <1>1 DEF AddClient, Holding
  <2>2. CASE AcquireConsumerLock(c)
    <3>1. CASE lock = NoPod
      BY <2>2, <3>1 DEF AcquireConsumerLock, Holding
    <3>2. CASE lock # NoPod
      BY <2>2, <3>2, <1>1 DEF AcquireConsumerLock, Holding
    <3> QED  BY <3>1, <3>2
  <2>3. CASE HandlerReceives(c)
    BY <2>3, <1>1 DEF HandlerReceives, AfterWait, Holding
  <2>4. CASE ReleaseGet(c)
    BY <2>4, <1>1 DEF ReleaseGet, Holding
  <2>5. CASE ReleaseDel(c)
    BY <2>5 DEF ReleaseDel
  <2>6. CASE RemoveClient(c) \/ Close(c)
    BY <2>6, <1>1 DEF RemoveClient, Close, Holding
  <2>7. ~(GroupFails(c) \/ AcquireFails(c) \/ ReleaseFails(c))
    BY <1>3 DEF GroupFails, AcquireFails, ReleaseFails
  <2> QED  BY <2>1, <2>2, <2>3, <2>4, <2>5, <2>6, <2>7 DEF HandlerKind, HandlerRuns
<1>5. ASSUME NEW c \in Conn, RoutineKind(c)
      PROVE  \E d \in Conn : Holding(d)' /\ pod'[d] = lock'
  <2>1. faults' = faults
    BY <1>5, <1>3 DEF RoutineKind, ClientStops, ClientFails, ClientSendsGarbage, ClientReports,
         DeliveryEnds, DeliveryFails, RenewerRuns, RenewerStops, RenewGet, RenewExtend,
         RenewFails, PeerLeaves
  <2> QED  BY <1>1, <1>5, <2>1, RoutineFrame DEF Holding
<1>6. ASSUME NEW p \in Pod
      PROVE  ~PodCrashes(p)
  BY <1>3 DEF PodCrashes
<1>7. CASE LockTick
  BY <1>7, <1>1 DEF LockTick, Holding
<1>8. CASE UNCHANGED svars
  BY <1>1, <1>8 DEF svars, locking, Holding
<1> QED  BY <1>4, <1>5, <1>6, <1>7, <1>8, StepKinds

(* Without failures no session leaves the lock behind when it ends: the      *)
(* deferred ReleaseConsumerLock of a session of the lock's pod is to come.   *)
THEOREM SessionsLockHasHolder == SessionsSpec => []LockHasHolder
<1>1. SessionsInit => LockHasHolder
  BY DEF SessionsInit, LockHasHolder
<1>2. SInv /\ LockHasHolder /\ [SessionsNext]_svars => LockHasHolder'
  BY StepHasHolder
<1> QED  BY <1>1, <1>2, SessionsInvariant, PTL DEF SessionsSpec

-----------------------------------------------------------------------------
(* Each of the two goroutines reports once: the places that are left in    *)
(* the channel are enough for those that still run.                        *)
ChanInv ==
  \A c \in Conn :
    /\ handler[c] \in {"none", "group"} =>
         errChan[c] = 0 /\ client[c] # "read" /\ delivery[c] # "loop"
    /\ client[c] = "read" /\ delivery[c] = "loop" => errChan[c] = 0
    /\ client[c] = "read" \/ delivery[c] = "loop" => errChan[c] <= 1

(* ChanInv: a goroutine that reports has ended, and the handler, which only *)
(* takes errors out, starts them with an empty channel.                    *)
LEMMA StepChan ==
  ASSUME SessionsTypeOK, ChanInv, [SessionsNext]_svars
  PROVE  ChanInv'
<1> USE DEF ChanInv, SessionsTypeOK, ErrChanCap
<1>1. ASSUME NEW c \in Conn, HandlerKind(c)
      PROVE  ChanInv'
  <2> USE <1>1 DEF Goto, routines
  <2>1. CASE AddClient(c)
    BY <2>1 DEF AddClient
  <2>2. CASE AcquireConsumerLock(c) \/ AcquireFails(c)
    BY <2>2 DEF AcquireConsumerLock, AcquireFails, StartGoroutines
  <2>3. CASE HandlerReceives(c)
    <3>1. /\ UNCHANGED <<client, delivery>> /\ handler[c] = "wait"
          /\ errChan' = [errChan EXCEPT ![c] = @ - 1]
          /\ \E to \in {"check", "remove"} : handler' = [handler EXCEPT ![c] = to]
      BY <2>3 DEF HandlerReceives, AfterWait
    <3>2. errChan[c] \in 1..2
      BY <2>3 DEF HandlerReceives
    <3> QED  BY <3>1, <3>2
  <2>4. CASE ReleaseGet(c) \/ ReleaseDel(c) \/ ReleaseFails(c)
    BY <2>4 DEF ReleaseGet, ReleaseDel, ReleaseFails
  <2>5. CASE RemoveClient(c) \/ Close(c) \/ GroupFails(c)
    BY <2>5 DEF RemoveClient, Close, GroupFails
  <2> QED  BY <2>1, <2>2, <2>3, <2>4, <2>5 DEF HandlerKind, HandlerRuns
<1>2. ASSUME NEW c \in Conn, RoutineKind(c)
      PROVE  ChanInv'
  <2>1. CASE ClientReports(c) \/ DeliveryFails(c)
    <3>1. /\ errChan' = [errChan EXCEPT ![c] = @ + 1] /\ handler' = handler
          /\ \/ /\ client[c] = "read" /\ client' = [client EXCEPT ![c] = "end"]
                /\ delivery' = delivery
             \/ /\ delivery[c] = "loop" /\ delivery' = [delivery EXCEPT ![c] = "end"]
                /\ client' = client
      BY <2>1 DEF ClientReports, DeliveryFails, Report
    <3> QED  BY <3>1
  <2>2. CASE ClientStops(c) \/ DeliveryEnds(c)
    BY <2>2 DEF ClientStops, DeliveryEnds
  <2>3. CASE RenewerRuns(c) \/ RenewFails(c) \/ PeerLeaves(c)
    BY <2>3 DEF RenewerRuns, RenewerStops, RenewGet, RenewExtend, RenewFails, PeerLeaves, routines
  <2> QED
    BY <1>2, <2>1, <2>2, <2>3 DEF RoutineKind, ClientFails, ClientSendsGarbage
<1>3. ASSUME NEW p \in Pod, PodCrashes(p)
      PROVE  ChanInv'
  <2>1. /\ errChan' = errChan
        /\ \A c \in Conn : /\ handler'[c] \in {handler[c], "gone"}
                          /\ client'[c] \in {client[c], "end"}
                          /\ delivery'[c] \in {delivery[c], "end"}
    BY <1>3 DEF PodCrashes
  <2> QED  BY <2>1
<1>4. CASE LockTick \/ UNCHANGED svars
  BY <1>4 DEF LockTick, svars, routines
<1> QED  BY <1>1, <1>2, <1>3, <1>4, StepKinds

(* No goroutine of a session can be kept from ending by the error channel: *)
(* what a full channel would have to wait for never has to happen.         *)
THEOREM SessionsReport == SessionsSpec => []ReportsNeverWait
<1>1. SessionsInit => ChanInv
  BY DEF SessionsInit, ChanInv
<1>2. SInv /\ ChanInv /\ [SessionsNext]_svars => ChanInv'
  BY StepChan DEF SInv
<1>3. SInv /\ ChanInv => ReportsNeverWait
  BY DEF SInv, SessionsTypeOK, ChanInv, ReportsNeverWait, ErrChanCap
<1> QED  BY <1>1, <1>2, <1>3, SessionsInvariant, PTL DEF SessionsSpec

-----------------------------------------------------------------------------
(* The refinement of SessionLife. *)

LifeOf == [c \in Conn |-> IF client[c] = "off" THEN "none"
                          ELSE IF Canceled(c) THEN "returned" ELSE "running"]

LinkOf == [c \in Conn |-> IF client[c] = "off" THEN "none"
                          ELSE IF socket[c] = "open" THEN "open" ELSE "gone"]

EndedOf == [c \in Conn |-> (IF delivery[c] = "end" THEN {"delivery"} ELSE {})
                           \union (IF client[c] = "end" THEN {"client"} ELSE {})]

(* The goroutines start together, and what the handler has received, or is *)
(* about to, is the report of one that has ended.                          *)
EndInv ==
  \A c \in Conn :
    /\ client[c] = "off" <=> delivery[c] = "off"
    /\ handler[c] \in {"none", "group"} => client[c] = "off"
    /\ client[c] = "off" => errChan[c] = 0 /\ handler[c] # "wait"
    /\ client[c] # "off" /\ (errChan[c] > 0 \/ handler[c] # "wait") =>
         client[c] = "end" \/ delivery[c] = "end"

LEMMA StepEnd ==
  ASSUME SessionsTypeOK, EndInv, [SessionsNext]_svars
  PROVE  EndInv'
<1> USE DEF EndInv, SessionsTypeOK, ErrChanCap
<1>1. ASSUME NEW c \in Conn, HandlerKind(c)
      PROVE  EndInv'
  <2> USE <1>1 DEF Goto, routines
  <2>1. CASE AddClient(c)
    BY <2>1 DEF AddClient
  <2>2. CASE AcquireConsumerLock(c) \/ AcquireFails(c)
    BY <2>2 DEF AcquireConsumerLock, AcquireFails, StartGoroutines
  <2>3. CASE HandlerReceives(c)
    <3>1. /\ UNCHANGED <<client, delivery>> /\ handler[c] = "wait" /\ errChan[c] > 0
          /\ errChan' = [errChan EXCEPT ![c] = @ - 1]
          /\ \E to \in {"check", "remove"} : handler' = [handler EXCEPT ![c] = to]
      BY <2>3 DEF HandlerReceives, AfterWait
    <3> QED  BY <3>1
  <2>4. CASE ReleaseGet(c) \/ ReleaseDel(c) \/ ReleaseFails(c)
    BY <2>4 DEF ReleaseGet, ReleaseDel, ReleaseFails
  <2>5. CASE RemoveClient(c) \/ Close(c) \/ GroupFails(c)
    BY <2>5 DEF RemoveClient, Close, GroupFails
  <2> QED  BY <2>1, <2>2, <2>3, <2>4, <2>5 DEF HandlerKind, HandlerRuns
<1>2. ASSUME NEW c \in Conn, RoutineKind(c)
      PROVE  EndInv'
  <2>1. CASE ClientReports(c)
    BY <2>1 DEF ClientReports, Report
  <2>2. CASE DeliveryFails(c)
    BY <2>2 DEF DeliveryFails, Report
  <2>3. CASE ClientStops(c) \/ DeliveryEnds(c)
    BY <2>3 DEF ClientStops, DeliveryEnds
  <2>4. CASE RenewerRuns(c) \/ RenewFails(c) \/ PeerLeaves(c)
    BY <2>4 DEF RenewerRuns, RenewerStops, RenewGet, RenewExtend, RenewFails, PeerLeaves, routines
  <2> QED
    BY <1>2, <2>1, <2>2, <2>3, <2>4 DEF RoutineKind, ClientFails, ClientSendsGarbage
<1>3. ASSUME NEW p \in Pod, PodCrashes(p)
      PROVE  EndInv'
  <2>1. /\ errChan' = errChan
        /\ \A c \in Conn :
             \/ handler'[c] = "gone" /\ client'[c] = "end" /\ delivery'[c] = "end"
             \/ UNCHANGED <<handler[c], client[c], delivery[c]>>
    BY <1>3 DEF PodCrashes
  <2> QED  BY <2>1
<1>4. CASE LockTick \/ UNCHANGED svars
  BY <1>4 DEF LockTick, svars, routines
<1> QED  BY <1>1, <1>2, <1>3, <1>4, StepKinds

LEMMA HandlerLife ==
  ASSUME SessionsTypeOK, EndInv, NEW c \in Conn, HandlerKind(c)
  PROVE  [Life!Next]_(Life!lifeVars)
<1> USE DEF EndInv, SessionsTypeOK, Canceled
<1> DEFINE Same == LifeOf' = LifeOf /\ LinkOf' = LinkOf /\ EndedOf' = EndedOf
<1>1. ASSUME Same  PROVE UNCHANGED Life!lifeVars
  BY <1>1 DEF Life!lifeVars, LifeOf, LinkOf, EndedOf
<1>2. ASSUME NEW d \in Conn, LinkOf[d] = "open", LinkOf' = [LinkOf EXCEPT ![d] = "gone"],
             LifeOf' = LifeOf, EndedOf' = EndedOf
      PROVE  Life!Next
  <2>1. Life!Lose(d)
    BY <1>2 DEF Life!Lose, LifeOf, LinkOf, EndedOf
  <2> QED  BY <2>1 DEF Life!Next
<1> USE DEF Goto, routines
<1>3. CASE AddClient(c)
  <2>1. PICK p \in Route[c] :
          socket' = [d \in Conn |-> IF d = c THEN "open"
                                   ELSE IF d = registry[p] THEN "closed" ELSE socket[d]]
    BY <1>3 DEF AddClient
  <2>2. LifeOf' = LifeOf /\ EndedOf' = EndedOf
    BY <1>3 DEF AddClient, LifeOf, EndedOf
  <2>3. client' = client /\ client[c] = "off"
    BY <1>3 DEF AddClient
  <2> DEFINE d == registry[p]
  <2>4. CASE d \in Conn /\ d # c /\ LinkOf[d] = "open"
    <3>1. LinkOf' = [LinkOf EXCEPT ![d] = "gone"]
      BY <2>1, <2>3, <2>4 DEF LinkOf
    <3> QED  BY <1>2, <2>2, <2>4, <3>1
  <2>5. CASE ~(d \in Conn /\ d # c /\ LinkOf[d] = "open")
    <3>1. LinkOf' = LinkOf
      BY <2>1, <2>3, <2>5 DEF LinkOf
    <3> QED  BY <1>1, <2>2, <3>1
  <2> QED  BY <2>4, <2>5
<1>4. CASE AcquireConsumerLock(c) \/ AcquireFails(c)
  <2>1. /\ handler[c] = "group" /\ handler' = [handler EXCEPT ![c] = "wait"]
        /\ client' = [client EXCEPT ![c] = "read"]
        /\ delivery' = [delivery EXCEPT ![c] = "loop"] /\ socket' = socket
    BY <1>4 DEF AcquireConsumerLock, AcquireFails, StartGoroutines
  <2>2. client[c] = "off" /\ delivery[c] = "off"
    BY <2>1
  <2>3. LifeOf[c] = "none" /\ LifeOf' = [LifeOf EXCEPT ![c] = "running"]
    BY <2>1, <2>2 DEF LifeOf
  <2>4. \E l \in {"open", "gone"} : LinkOf' = [LinkOf EXCEPT ![c] = l]
    <3> DEFINE l == IF socket[c] = "open" THEN "open" ELSE "gone"
    <3>1. LinkOf' = [LinkOf EXCEPT ![c] = l]
      BY <2>1, <2>2 DEF LinkOf
    <3> QED  BY <3>1
  <2>5. EndedOf' = EndedOf
    BY <2>1, <2>2 DEF EndedOf
  <2>6. Life!Start(c)
    BY <2>3, <2>4, <2>5 DEF Life!Start, LifeOf, LinkOf, EndedOf
  <2> QED  BY <2>6 DEF Life!Next
<1>5. CASE HandlerReceives(c) \/ ReleaseGet(c) \/ ReleaseDel(c) \/ ReleaseFails(c) \/ GroupFails(c)
  <2>1. /\ UNCHANGED <<client, delivery, socket>>
        /\ handler[c] \notin {"close", "gone"}
        /\ \E to \in {"check", "delete", "remove"} : handler' = [handler EXCEPT ![c] = to]
    BY <1>5 DEF HandlerReceives, AfterWait, ReleaseGet, ReleaseDel, ReleaseFails, GroupFails
  <2>2. Same
    BY <2>1 DEF LifeOf, LinkOf, EndedOf
  <2> QED  BY <1>1, <2>2
<1>6. CASE RemoveClient(c)
  <2>1. /\ UNCHANGED <<client, delivery, socket>>
        /\ handler[c] = "remove" /\ handler' = [handler EXCEPT ![c] = "close"]
    BY <1>6 DEF RemoveClient
  <2>2. LinkOf' = LinkOf /\ EndedOf' = EndedOf
    BY <2>1 DEF LinkOf, EndedOf
  <2>3. CASE client[c] = "off"
    <3>1. LifeOf' = LifeOf
      BY <2>1, <2>3 DEF LifeOf
    <3> QED  BY <1>1, <2>2, <3>1
  <2>4. CASE client[c] # "off"
    <3>1. LifeOf[c] = "running" /\ LifeOf' = [LifeOf EXCEPT ![c] = "returned"]
      BY <2>1, <2>4 DEF LifeOf
    <3>2. EndedOf[c] # {}
      BY <2>1, <2>4 DEF EndedOf
    <3>3. Life!Cancel(c)
      BY <2>2, <3>1, <3>2 DEF Life!Cancel, LifeOf, LinkOf, EndedOf
    <3> QED  BY <3>3 DEF Life!Next
  <2> QED  BY <2>3, <2>4
<1>7. CASE Close(c)
  <2>1. /\ UNCHANGED <<client, delivery>> /\ socket' = [socket EXCEPT ![c] = "closed"]
        /\ handler[c] = "close" /\ handler' = [handler EXCEPT ![c] = "gone"]
    BY <1>7 DEF Close
  <2>2. LifeOf' = LifeOf /\ EndedOf' = EndedOf
    BY <2>1 DEF LifeOf, EndedOf
  <2>3. CASE LinkOf[c] = "open"
    <3>1. LinkOf' = [LinkOf EXCEPT ![c] = "gone"]
      BY <2>1, <2>3 DEF LinkOf
    <3> QED  BY <1>2, <2>2, <2>3, <3>1
  <2>4. CASE LinkOf[c] # "open"
    <3>1. LinkOf' = LinkOf
      BY <2>1, <2>4 DEF LinkOf
    <3> QED  BY <1>1, <2>2, <3>1
  <2> QED  BY <2>3, <2>4
<1> QED  BY <1>3, <1>4, <1>5, <1>6, <1>7 DEF HandlerKind, HandlerRuns

LEMMA RoutineLife ==
  ASSUME SessionsTypeOK, EndInv, NEW c \in Conn, RoutineKind(c)
  PROVE  [Life!Next]_(Life!lifeVars)
<1> USE DEF EndInv, SessionsTypeOK, Canceled
<1>1. CASE ClientReports(c) \/ ClientStops(c)
  <2>1. /\ client[c] = "read" /\ client' = [client EXCEPT ![c] = "end"]
        /\ UNCHANGED <<handler, delivery, socket>>
    BY <1>1 DEF ClientReports, ClientStops
  <2>2. LifeOf' = LifeOf /\ LinkOf' = LinkOf /\ LifeOf[c] # "none"
    BY <2>1 DEF LifeOf, LinkOf
  <2>3. "client" \notin EndedOf[c] /\ EndedOf' = [EndedOf EXCEPT ![c] = @ \union {"client"}]
    BY <2>1 DEF EndedOf
  <2>4. Life!End(c, "client")
    BY <2>2, <2>3 DEF Life!End, LifeOf, LinkOf, EndedOf
  <2> QED  BY <2>4 DEF Life!Next, Life!Role
<1>2. CASE DeliveryFails(c) \/ DeliveryEnds(c)
  <2>1. /\ delivery[c] = "loop" /\ delivery' = [delivery EXCEPT ![c] = "end"]
        /\ UNCHANGED <<handler, client, socket>>
    BY <1>2 DEF DeliveryFails, DeliveryEnds
  <2>2. LifeOf' = LifeOf /\ LinkOf' = LinkOf /\ LifeOf[c] # "none"
    BY <2>1 DEF LifeOf, LinkOf
  <2>3. "delivery" \notin EndedOf[c] /\ EndedOf' = [EndedOf EXCEPT ![c] = @ \union {"delivery"}]
    BY <2>1 DEF EndedOf
  <2>4. Life!End(c, "delivery")
    BY <2>2, <2>3 DEF Life!End, LifeOf, LinkOf, EndedOf
  <2> QED  BY <2>4 DEF Life!Next, Life!Role
<1>3. CASE RenewerRuns(c) \/ RenewFails(c)
  <2>1. UNCHANGED <<handler, client, delivery, socket>>
    BY <1>3 DEF RenewerRuns, RenewerStops, RenewGet, RenewExtend, RenewFails
  <2> QED  BY <2>1 DEF Life!lifeVars
<1>4. CASE PeerLeaves(c)
  <2>1. /\ UNCHANGED <<handler, client, delivery>> /\ socket[c] = "open"
        /\ socket' = [socket EXCEPT ![c] = "closed"]
    BY <1>4 DEF PeerLeaves, routines
  <2>2. LifeOf' = LifeOf /\ EndedOf' = EndedOf
    BY <2>1 DEF LifeOf, EndedOf
  <2>3. CASE client[c] = "off"
    <3>1. LinkOf' = LinkOf
      BY <2>1, <2>3 DEF LinkOf
    <3> QED  BY <2>2, <3>1 DEF Life!lifeVars, LifeOf, LinkOf, EndedOf
  <2>4. CASE client[c] # "off"
    <3>1. LinkOf[c] = "open" /\ LinkOf' = [LinkOf EXCEPT ![c] = "gone"]
      BY <2>1, <2>4 DEF LinkOf
    <3>2. Life!Lose(c)
      BY <2>2, <3>1 DEF Life!Lose, LifeOf, LinkOf, EndedOf
    <3> QED  BY <3>2 DEF Life!Next
  <2> QED  BY <2>3, <2>4
<1> QED  BY <1>1, <1>2, <1>3, <1>4 DEF RoutineKind, ClientFails, ClientSendsGarbage

LEMMA CrashLife ==
  ASSUME SessionsTypeOK, NEW p \in Pod, PodCrashes(p)
  PROVE  Life!Next
<1> PICK S \in SUBSET Conn : S = {c \in Conn : pod[c] = p /\ handler[c] # "none"}
  OBVIOUS
<1>1. /\ socket' = [c \in Conn |-> IF c \in S THEN "closed" ELSE socket[c]]
      /\ handler' = [c \in Conn |-> IF c \in S THEN "gone" ELSE handler[c]]
      /\ client' = [c \in Conn |-> IF c \in S THEN "end" ELSE client[c]]
      /\ delivery' = [c \in Conn |-> IF c \in S THEN "end" ELSE delivery[c]]
  BY DEF PodCrashes, SessionsTypeOK
<1>2. LifeOf' = [c \in Conn |-> IF c \in S THEN "returned" ELSE LifeOf[c]]
  BY <1>1 DEF LifeOf, Canceled
<1>3. LinkOf' = [c \in Conn |-> IF c \in S THEN "gone" ELSE LinkOf[c]]
  BY <1>1 DEF LinkOf
<1>4. EndedOf' = [c \in Conn |-> IF c \in S THEN {"delivery", "client"} ELSE EndedOf[c]]
  BY <1>1 DEF EndedOf
<1>5. Life!Crash(S)
  BY <1>2, <1>3, <1>4 DEF Life!Crash, Life!Role, LifeOf, LinkOf, EndedOf
<1> QED  BY <1>5 DEF Life!Next

(* The handlers, their locks and registries implement the sessions that    *)
(* Delivery is about: two goroutines that start together, and a context    *)
(* that only the end of one of them cancels.                               *)
THEOREM SessionsLive == SessionsSpec => LifeRefined
<1>1. SessionsInit => EndInv /\ Life!Init
  BY DEF SessionsInit, EndInv, Life!Init
<1>2. SInv /\ EndInv /\ [SessionsNext]_svars => EndInv'
  BY StepEnd DEF SInv
<1>3. SInv /\ EndInv /\ [SessionsNext]_svars => [Life!Next]_(Life!lifeVars)
  <2> SUFFICES ASSUME SInv, EndInv, [SessionsNext]_svars
               PROVE  [Life!Next]_(Life!lifeVars)
    OBVIOUS
  <2>1. SessionsTypeOK
    BY DEF SInv
  <2>2. CASE LockTick \/ UNCHANGED svars
    <3>1. UNCHANGED <<handler, client, delivery, socket>>
      BY <2>2 DEF LockTick, svars, routines
    <3> QED  BY <3>1 DEF Life!lifeVars, Canceled
  <2>3. EndInv
    OBVIOUS
  <2>4. CASE \E c \in Conn : HandlerKind(c) \/ RoutineKind(c)
    BY <2>1, <2>3, <2>4, HandlerLife, RoutineLife
  <2>5. CASE \E p \in Pod : PodCrashes(p)
    BY <2>1, <2>5, CrashLife
  <2> QED  BY <2>2, <2>4, <2>5, StepKinds
<1> QED  BY <1>1, <1>2, <1>3, SessionsInvariant, PTL DEF SessionsSpec, LifeRefined, Life!Spec
=============================================================================
