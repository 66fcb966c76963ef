------------------------------- MODULE Sessions -------------------------------
(***************************************************************************)
(* The life of the WebSocket sessions of ONE user: the handler and the     *)
(* goroutines it starts, the registry of connections of each pod           *)
(* (ConnectionManager), and the consumer lock of the user in Redis.        *)
(*                                                                         *)
(* What the goroutines do for the user while the session lasts is the      *)
(* subject of Delivery; here they only run, fail and end.                  *)
(***************************************************************************)
EXTENDS Integers, FiniteSets

CONSTANTS
  Conn,      \* WebSocket connections of the user, each used once
  Pod,       \* server processes
  Route,     \* Route[c]: the pods that c may reach
  NoConn,    \* no connection in a registry
  NoPod,     \* no pod: nobody has the lock
  LockTTL,   \* lifetime of the lock, in ticks
  MaxFaults  \* bound: failing requests and crashes in one behaviour

ASSUME SessionsAssumption ==
  /\ Route \in [Conn -> SUBSET Pod]
  /\ NoConn \notin Conn /\ NoPod \notin Pod
  /\ LockTTL \in Nat \ {0} /\ MaxFaults \in Nat

VARIABLES
  pod,       \* pod[c]: the pod that c has reached
  socket,    \* socket[c]: none, open, closed (by either side)
  registry,  \* registry[p]: the connection of the user in clients of pod p
  handler,   \* handler[c]: the next thing that WebSocketHandler does for c
  client,    \* client[c]: the goroutine handleClientMessages
  delivery,  \* delivery[c]: the goroutine handleNotificationDelivery
  renewer,   \* renewer[c]: the goroutine that renews the lock
  errChan,   \* errChan[c]: number of errors in the channel
  holds,     \* holds[c]: AcquireConsumerLock said yes to c
  lock,      \* value of notif:lock:consumer:<key>: a pod, or NoPod
  lease,     \* ticks until the lock expires
  faults,    \* failures so far
  ranOut     \* history: whether the lock has ever expired

locking  == <<holds, lock, lease, ranOut>>
routines == <<client, delivery, renewer, errChan>>
svars    == <<pod, socket, registry, handler, routines, locking, faults>>

HandlerStep == {"none", "group", "wait", "check", "delete", "remove", "close", "gone"}

SessionsInit ==
  /\ pod = [c \in Conn |-> NoPod]
  /\ socket = [c \in Conn |-> "none"]
  /\ registry = [p \in Pod |-> NoConn]
  /\ handler = [c \in Conn |-> "none"]
  /\ client = [c \in Conn |-> "off"]
  /\ delivery = [c \in Conn |-> "off"]
  /\ renewer = [c \in Conn |-> "off"]
  /\ errChan = [c \in Conn |-> 0]
  /\ holds = [c \in Conn |-> FALSE]
  /\ lock = NoPod /\ lease = 0
  /\ faults = 0
  /\ ranOut = FALSE

Goto(c, from, to) ==
  /\ handler[c] = from
  /\ handler' = [handler EXCEPT ![c] = to]

Fail ==
  /\ faults < MaxFaults
  /\ faults' = faults + 1

(* The context of the goroutines; the request's own context is not canceled *)
(* when the peer of an upgraded connection goes away.                       *)
Canceled(c) == handler[c] \in {"close", "gone"}
-----------------------------------------------------------------------------
(* The handler. *)

(* The client reaches a pod.  AddClient, under the mutex: the user's       *)
(* earlier connection to this pod is closed.                               *)
AddClient(c) ==
  /\ Goto(c, "none", "group")
  /\ \E p \in Route[c] :
       /\ pod' = [pod EXCEPT ![c] = p]
       /\ socket' = [d \in Conn |-> IF d = c THEN "open"
                                   ELSE IF d = registry[p] THEN "closed" ELSE socket[d]]
       /\ registry' = [registry EXCEPT ![p] = c]
  /\ UNCHANGED <<routines, locking, faults>>

(* Mutant: the early return skips RemoveClient. *)
GroupFailsUnregistered(c) ==
  /\ Fail
  /\ Goto(c, "group", "close")
  /\ UNCHANGED <<pod, socket, registry, routines, locking>>

GroupFails(c) ==
  /\ Fail
  /\ Goto(c, "group", "remove")
  /\ UNCHANGED <<pod, socket, registry, routines, locking>>

StartGoroutines(c) ==
  /\ client' = [client EXCEPT ![c] = "read"]
  /\ delivery' = [delivery EXCEPT ![c] = "loop"]

(* The group is there.  SETNX: the session goes on whether or not it gets the lock. *)
AcquireConsumerLock(c) ==
  /\ Goto(c, "group", "wait")
  /\ StartGoroutines(c)
  /\ \/ /\ lock = NoPod
        /\ lock' = pod[c] /\ lease' = LockTTL
        /\ holds' = [holds EXCEPT ![c] = TRUE]
        /\ renewer' = [renewer EXCEPT ![c] = "wait"]
     \/ /\ lock # NoPod
        /\ UNCHANGED <<lock, lease, holds, renewer>>
  /\ UNCHANGED <<pod, socket, registry, errChan, faults, ranOut>>

(* The SETNX fails, or its reply is lost: nobody will release the lock. *)
AcquireFails(c) ==
  /\ Fail
  /\ Goto(c, "group", "wait")
  /\ StartGoroutines(c)
  /\ \/ lock = NoPod /\ lock' = pod[c] /\ lease' = LockTTL
     \/ UNCHANGED <<lock, lease>>
  /\ UNCHANGED <<pod, socket, registry, renewer, errChan, holds, ranOut>>

(* Mutant: the deferred release also runs when the lock was not acquired. *)
AlwaysRelease(c) == "check"

(* Mutant: the release is not deferred. *)
NeverRelease(c) == "remove"

AfterWait(c) == IF holds[c] THEN "check" ELSE "remove"

(* Mutant: the wait ends when the connection is gone. *)
HandlerSeesClose(c) ==
  /\ socket[c] # "open"
  /\ Goto(c, "wait", AfterWait(c))
  /\ UNCHANGED <<pod, socket, registry, routines, locking, faults>>

(* The first error ends the wait; the deferred calls run. *)
HandlerReceives(c) ==
  /\ errChan[c] > 0
  /\ Goto(c, "wait", AfterWait(c))
  /\ errChan' = [errChan EXCEPT ![c] = @ - 1]
  /\ UNCHANGED <<pod, socket, registry, client, delivery, renewer, locking, faults>>

(* ReleaseConsumerLock: GET, and DEL if the value is this pod. *)
ReleaseGet(c) ==
  /\ Goto(c, "check", IF lock = pod[c] THEN "delete" ELSE "remove")
  /\ UNCHANGED <<pod, socket, registry, routines, locking, faults>>

ReleaseDel(c) ==
  /\ Goto(c, "delete", "remove")
  /\ lock' = NoPod /\ lease' = 0
  /\ UNCHANGED <<pod, socket, registry, routines, holds, faults, ranOut>>

ReleaseFails(c) ==
  /\ Fail
  /\ handler[c] \in {"check", "delete"}
  /\ handler' = [handler EXCEPT ![c] = "remove"]
  /\ UNCHANGED <<pod, socket, registry, routines, locking>>

(* The context is canceled, HandleWebSocketConnection returns, and         *)
(* RemoveClient deletes what the registry has for the user, whoever it is. *)
RemoveClient(c) ==
  /\ Goto(c, "remove", "close")
  /\ registry' = [registry EXCEPT ![pod[c]] = NoConn]
  /\ UNCHANGED <<pod, socket, routines, locking, faults>>

(* Mutant: the connection stays open. *)
NeverClose(c) ==
  /\ Goto(c, "close", "gone")
  /\ UNCHANGED <<pod, socket, registry, routines, locking, faults>>

Close(c) ==
  /\ Goto(c, "close", "gone")
  /\ socket' = [socket EXCEPT ![c] = "closed"]
  /\ UNCHANGED <<pod, registry, routines, locking, faults>>

HandlerRuns(c) ==
  \/ AcquireConsumerLock(c)
  \/ HandlerReceives(c) \/ ReleaseGet(c) \/ ReleaseDel(c)
  \/ RemoveClient(c) \/ Close(c)
-----------------------------------------------------------------------------
(* The goroutines of a session. *)

(* Mutant: make(chan error, 1). *)
OneSlot == 1

ErrChanCap == 2

(* A goroutine reports its error and ends.  A send to a full channel waits *)
(* for the handler to receive.                                             *)
Report(c) ==
  /\ errChan[c] < ErrChanCap \/ (errChan[c] = 0 /\ handler[c] = "wait")
  /\ errChan' = [errChan EXCEPT ![c] = @ + 1]

(* The context is looked at between two messages of the client. *)
ClientStops(c) ==
  /\ client[c] = "read" /\ Canceled(c)
  /\ client' = [client EXCEPT ![c] = "end"]
  /\ UNCHANGED <<pod, socket, registry, handler, delivery, renewer, errChan, locking,
                 faults>>

ClientReports(c) ==
  /\ client[c] = "read"
  /\ Report(c)
  /\ client' = [client EXCEPT ![c] = "end"]
  /\ UNCHANGED <<pod, socket, registry, handler, delivery, renewer, locking, faults>>

(* ReadJSON returns an error when the connection is gone. *)
ClientFails(c) == socket[c] # "open" /\ ClientReports(c)

(* It also does when the client sends what is not JSON. *)
ClientSendsGarbage(c) == socket[c] = "open" /\ ClientReports(c)

DeliveryEnds(c) ==
  /\ delivery[c] = "loop" /\ Canceled(c)
  /\ delivery' = [delivery EXCEPT ![c] = "end"]
  /\ UNCHANGED <<pod, socket, registry, handler, client, renewer, errChan, locking,
                 faults>>

(* A write to a connection that is gone, a canceled request, or a request  *)
(* that fails.                                                             *)
DeliveryFails(c) ==
  /\ delivery[c] = "loop"
  /\ Report(c)
  /\ \/ (socket[c] # "open" \/ Canceled(c)) /\ UNCHANGED faults
     \/ Fail
  /\ delivery' = [delivery EXCEPT ![c] = "end"]
  /\ UNCHANGED <<pod, socket, registry, handler, client, renewer, locking>>

(* Mutant: the renewer's context is never canceled. *)
RenewGetUncanceled(c) ==
  /\ renewer[c] = "wait"
  /\ renewer' = [renewer EXCEPT ![c] = IF lock = pod[c] THEN "extend" ELSE "end"]
  /\ UNCHANGED <<pod, socket, registry, handler, client, delivery, errChan, locking,
                 faults>>

(* A tick, each 20 seconds.  RenewConsumerLock: GET, and PEXPIRE if the    *)
(* value is this pod.                                                      *)
RenewGet(c) ==
  /\ renewer[c] = "wait" /\ ~Canceled(c)
  /\ renewer' = [renewer EXCEPT ![c] = IF lock = pod[c] THEN "extend" ELSE "end"]
  /\ UNCHANGED <<pod, socket, registry, handler, client, delivery, errChan, locking,
                 faults>>

(* The end of the context; when select takes the tick of a canceled        *)
(* context instead, the GET fails at once.                                 *)
RenewerStops(c) ==
  /\ renewer[c] = "wait" /\ Canceled(c)
  /\ renewer' = [renewer EXCEPT ![c] = "end"]
  /\ UNCHANGED <<pod, socket, registry, handler, client, delivery, errChan, locking,
                 faults>>

RenewExtend(c) ==
  /\ renewer[c] = "extend"
  /\ lease' = IF lock = NoPod THEN lease ELSE LockTTL
  /\ renewer' = [renewer EXCEPT ![c] = "wait"]
  /\ UNCHANGED <<pod, socket, registry, handler, client, delivery, errChan, holds, lock,
                 ranOut, faults>>

(* One failing request ends the renewing for good. *)
RenewFails(c) ==
  /\ \/ renewer[c] = "extend" /\ Canceled(c) /\ UNCHANGED faults
     \/ renewer[c] \in {"wait", "extend"} /\ Fail
  /\ renewer' = [renewer EXCEPT ![c] = "end"]
  /\ UNCHANGED <<pod, socket, registry, handler, client, delivery, errChan, locking>>

RenewerRuns(c) == RenewerStops(c) \/ RenewGet(c) \/ RenewExtend(c)
-----------------------------------------------------------------------------
(* The surroundings. *)

PeerLeaves(c) ==
  /\ socket[c] = "open"
  /\ socket' = [socket EXCEPT ![c] = "closed"]
  /\ UNCHANGED <<pod, registry, handler, routines, locking, faults>>

LockTick ==
  /\ lock # NoPod
  /\ lease' = lease - 1
  /\ lock' = IF lease = 1 THEN NoPod ELSE lock
  /\ ranOut' = (ranOut \/ lease = 1)
  /\ UNCHANGED <<pod, socket, registry, handler, routines, holds, faults>>

(* The process is killed, is shut down, or panics, as gorilla does when two *)
(* goroutines write to one connection: only Redis keeps its state.          *)
PodCrashes(p) ==
  /\ Fail
  /\ LET here(c) == pod[c] = p /\ handler[c] # "none" IN
     /\ socket' = [c \in Conn |-> IF here(c) THEN "closed" ELSE socket[c]]
     /\ handler' = [c \in Conn |-> IF here(c) THEN "gone" ELSE handler[c]]
     /\ client' = [c \in Conn |-> IF here(c) THEN "end" ELSE client[c]]
     /\ delivery' = [c \in Conn |-> IF here(c) THEN "end" ELSE delivery[c]]
     /\ renewer' = [c \in Conn |-> IF here(c) THEN "end" ELSE renewer[c]]
  /\ registry' = [registry EXCEPT ![p] = NoConn]
  /\ UNCHANGED <<pod, errChan, locking>>

SessionSteps(c) ==
  \/ AddClient(c) \/ HandlerRuns(c) \/ GroupFails(c) \/ AcquireFails(c) \/ ReleaseFails(c)
  \/ ClientStops(c) \/ ClientFails(c) \/ ClientSendsGarbage(c)
  \/ DeliveryEnds(c) \/ DeliveryFails(c)
  \/ RenewerRuns(c) \/ RenewFails(c)
  \/ PeerLeaves(c)

SessionsNext ==
  \/ \E c \in Conn : SessionSteps(c)
  \/ \E p \in Pod : PodCrashes(p)
  \/ LockTick

SessionsSpec == SessionsInit /\ [][SessionsNext]_svars

(* Handlers and goroutines that do not wait for anything run on; the block *)
(* of XREADGROUP and the tickers end; time passes.                         *)
SessionsFairness ==
  /\ \A c \in Conn : /\ WF_svars(HandlerRuns(c))
                     /\ WF_svars(ClientFails(c))
                     /\ WF_svars(DeliveryEnds(c))
                     /\ WF_svars(RenewerRuns(c))
  /\ WF_svars(LockTick)

SessionsFairSpec == SessionsSpec /\ SessionsFairness
-----------------------------------------------------------------------------
(* Properties. *)

SessionsTypeOK ==
  /\ pod \in [Conn -> Pod \union {NoPod}]
  /\ socket \in [Conn -> {"none", "open", "closed"}]
  /\ registry \in [Pod -> Conn \union {NoConn}]
  /\ handler \in [Conn -> HandlerStep]
  /\ client \in [Conn -> {"off", "read", "end"}]
  /\ delivery \in [Conn -> {"off", "loop", "end"}]
  /\ renewer \in [Conn -> {"off", "wait", "extend", "end"}]
  /\ errChan \in [Conn -> 0..ErrChanCap]
  /\ holds \in [Conn -> BOOLEAN]
  /\ lock \in Pod \union {NoPod}
  /\ lease \in 0..LockTTL
  /\ faults \in 0..MaxFaults
  /\ ranOut \in BOOLEAN

Holding(c) == holds[c] /\ handler[c] \in {"wait", "check", "delete"}

(* As long as the lock never ran out, a session that acquired it has it    *)
(* until it releases it itself: no session of the same pod, which stores   *)
(* the same value, and no renewer of a session that is over, takes it away *)
(* or gives it to somebody else.                                           *)
LockKept ==
  ~ranOut =>
    \A c \in Conn : Holding(c) => /\ lock = pod[c]
                                  /\ \A d \in Conn \ {c} : ~Holding(d)

(* Without failures the lock is never left behind: while it is there, a    *)
(* session of its pod that acquired it is still going to release it, even  *)
(* when it ran out and was taken again in between.                         *)
LockHasHolder ==
  faults = 0 /\ lock # NoPod => \E c \in Conn : Holding(c) /\ pod[c] = lock

(* The registry never keeps a connection whose handler has passed          *)
(* RemoveClient: a message for the user is not sent into a dead session.   *)
RegisteredIsServed ==
  \A p \in Pod : registry[p] # NoConn =>
    handler[registry[p]] \in HandlerStep \ {"none", "close", "gone"}

(* A goroutine that still runs can report its error and end, whoever       *)
(* reported before it and whether or not the handler still listens: it     *)
(* never waits at the channel with a connection that nobody reads.         *)
ReportsNeverWait ==
  \A c \in Conn :
    client[c] = "read" \/ delivery[c] = "loop" => errChan[c] < ErrChanCap

(* Handlers, locks, displaced connections and crashes amount to the        *)
(* sessions that Delivery works with: both goroutines start together and   *)
(* once, and what cancels their context is the end of one of them, never   *)
(* the loss of the lock, a newer connection or another session.            *)
Life == INSTANCE SessionLife WITH
  life  <- [c \in Conn |-> IF client[c] = "off" THEN "none"
                           ELSE IF Canceled(c) THEN "returned" ELSE "running"],
  link  <- [c \in Conn |-> IF client[c] = "off" THEN "none"
                           ELSE IF socket[c] = "open" THEN "open" ELSE "gone"],
  ended <- [c \in Conn |-> (IF delivery[c] = "end" THEN {"delivery"} ELSE {})
                           \union (IF client[c] = "end" THEN {"client"} ELSE {})]

LifeRefined == Life!Spec

(* When a connection is gone, its handler ends, and when a handler has     *)
(* ended, whatever it did on the way, so have its goroutines: neither waits *)
(* for ever at the error channel or in ReadJSON for a silent peer.          *)
AllEnd ==
  \A c \in Conn :
    socket[c] = "closed" \/ handler[c] = "gone"
      ~> /\ handler[c] = "gone"
         /\ {client[c], delivery[c], renewer[c]} \subseteq {"off", "end"}

(* A lock of a user who has no session any more goes away, by release or   *)
(* by expiry, whatever failed or crashed: no goroutine keeps renewing it.  *)
LockFreed ==
  (\A c \in Conn : handler[c] \in {"none", "gone"})
    ~> lock = NoPod \/ \E c \in Conn : handler[c] \notin {"none", "gone"}

(* connection_manager.go:42 closes the old connection of a user who is     *)
(* connected already: a user has one open connection in a pod.             *)
OneConnectionPerPod ==
  \A c, d \in Conn :
    /\ c # d /\ pod[c] = pod[d]
    /\ handler[c] = "wait" /\ handler[d] = "wait"
    => ~(socket[c] = "open" /\ socket[d] = "open")
=============================================================================
