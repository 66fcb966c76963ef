------------------------------- MODULE Delivery -------------------------------
(***************************************************************************)
(* What the WebSocket sessions of one user do with the user's Redis keys   *)
(* (NotificationService of internal/service): the initial synchronisation, *)
(* the delivery loop, and the messages of the client.                      *)
(*                                                                         *)
(* A session runs two goroutines that send notifications to its client:    *)
(* the delivery goroutine, and the one that reads the client's messages,   *)
(* which answers sync.request itself.                                      *)
(***************************************************************************)
EXTENDS NotificationRepository

CONSTANTS
  Conn,         \* WebSocket connections of the user, each used once
  SyncLimit,    \* lengths a client may ask a synchronisation for, of 1..1000
  HistoryCount, \* length of the initial synchronisation, 100
  MaxErrors     \* bound: requests of sessions that fail

ASSUME DeliveryAssumption ==
  /\ HistoryCount \in Nat /\ MaxErrors \in Nat
  /\ SyncLimit \subseteq Nat

(* The initial synchronisation asks for as many messages as the stream may *)
(* have: both are 100 in the code, in two files.                           *)
ASSUME HistoryAssumption == MaxLen <= HistoryCount

VARIABLES
  socket,   \* socket[c]: none, open, broken (the peer has left unnoticed), closed
  handler,  \* handler[c]: HandleWebSocketConnection: none, running, returned (the
            \* context is canceled from then on)
  task,     \* task[<<c, g>>]: what goroutine g of session c is doing
  got,      \* got[c]: the pushes that reached the client
  errors,   \* requests of sessions that failed so far
  \* History: read by properties only.
  atConnect, \* atConnect[c]: IDs of the stream when c connected
  took       \* took[c]: IDs that c's XREADGROUP ">" returned

history  == <<atConnect, took>>
sessions == <<socket, handler, task, got, errors, history>>
dvars    == <<vars, sessions>>

Role      == {"delivery", "client"}
Goroutine == Conn \X Role
ConnOf(g) == g[1]
-----------------------------------------------------------------------------
(* A message read from Redis, and the push made of it. *)
Item == [id : Nat, nid : Nid \union {NoNid}]
Push == [id : Nat, nid : Nid \union {NoNid}, cleared : BOOLEAN, read : BOOLEAN]

(* kind: which part of the work; step: where in it; toLoad: messages whose *)
(* payload is not loaded yet; loaded: pushes that are not sent yet.        *)
Kind == {"idle", "pending", "history", "new", "ack", "done"}
Task == [kind : Kind, step : {"start", "block", "load", "status", "push"},
         toLoad : SUBSET Item, loaded : SUBSET Push]

Begin(kind) == [kind |-> kind, step |-> "start", toLoad |-> {}, loaded |-> {}]

DeliveryInit ==
  /\ Init
  /\ socket = [c \in Conn |-> "none"]
  /\ handler = [c \in Conn |-> "none"]
  /\ task = [g \in Goroutine |-> Begin("idle")]
  /\ got = [c \in Conn |-> {}]
  /\ errors = 0
  /\ atConnect = [c \in Conn |-> {}]
  /\ took = [c \in Conn |-> {}]

At(g, kind, step) == task[g].kind = kind /\ task[g].step = step

(* The work that follows when a goroutine is through with its messages.  *)
Following(g) ==
  CASE task[g].kind = "pending" -> Begin("history")
    [] task[g].kind = "history" /\ g[2] = "client" -> Begin("idle")
    [] OTHER -> Begin("new")

(* An error ends the delivery goroutine, except in a synchronisation, where *)
(* it is only logged.                                                       *)
AfterError(g) == IF task[g].kind = "history" THEN Following(g) ELSE Begin("done")

Fetched(g, items) ==
  IF items = {} THEN Following(g)
  ELSE [task[g] EXCEPT !.step = "load", !.toLoad = items]

(* Mutant: messages go out from the newest to the oldest. *)
NewestOf(S) == {m \in S : \A l \in S : m.id >= l.id}

OldestOf(S) == {m \in S : \A l \in S : m.id <= l.id}

-----------------------------------------------------------------------------
(* Mutant: every session moves the group to the end of the stream. *)
SetGroupToEnd ==
  /\ group' = lastId
  /\ UNCHANGED <<now, payload, stream, lastId, pel, schedule, readState, retention,
                 calls, acks, workers, faults, confirmed>>

(* Mutant: every session makes the group anew, at the start of the stream. *)
RecreateGroup ==
  /\ group' = 0 /\ pel' = {}
  /\ UNCHANGED <<now, payload, stream, lastId, schedule, readState, retention,
                 calls, acks, workers, faults, confirmed>>

EnsureGroup == EnsureConsumerGroup \/ (group # NoGroup /\ UNCHANGED vars)

(* A client connects; the session starts once the group is there. *)
Connect(c) ==
  /\ socket[c] = "none"
  /\ EnsureGroup
  /\ socket' = [socket EXCEPT ![c] = "open"]
  /\ handler' = [handler EXCEPT ![c] = "running"]
  /\ task' = [task EXCEPT ![<<c, "delivery">>] = Begin("pending")]
  /\ atConnect' = [atConnect EXCEPT ![c] = {e.id : e \in stream}]
  /\ UNCHANGED <<got, errors, took>>

(* XREADGROUP "0": the oldest pending IDs, without fields for an entry that *)
(* has left the stream.                                                     *)
NidOf(id) == LET found == {e \in stream : e.id = id}
             IN  IF found = {} THEN NoNid ELSE (CHOOSE e \in found : TRUE).nid

PendingItems ==
  {[id |-> id, nid |-> NidOf(id)] :
     id \in {i \in pel : Cardinality({j \in pel : j < i}) < BatchLimit}}

ReadPendingMessages(g) ==
  /\ At(g, "pending", "start")
  /\ task' = [task EXCEPT ![g] = Fetched(g, PendingItems)]
  /\ UNCHANGED <<vars, socket, handler, got, errors, history>>

ItemsOf(S) == {[id |-> e.id, nid |-> e.nid] : e \in S}

(* Mutant: the synchronisation is one message short. *)
HistoryOneShort(k) == ItemsOf(Newest(stream, k - 1))

(* XREVRANGE ... COUNT, turned into the order of the stream. *)
HistoryItems(k) == ItemsOf(Newest(stream, k))

Limits(g) == IF g[2] = "client" THEN SyncLimit ELSE {HistoryCount}

RangeLastMessages(g) ==
  /\ At(g, "history", "start")
  /\ \E k \in Limits(g) : task' = [task EXCEPT ![g] = Fetched(g, HistoryItems(k))]
  /\ UNCHANGED <<vars, socket, handler, got, errors, history>>

(* Mutant: the loop does not look at the context. *)
NextRound(g) == [task[g] EXCEPT !.step = "block"]

(* The loop looks at the context only between two reads. *)
LoopRound(g) == IF handler[ConnOf(g)] = "returned" THEN Begin("done") 
                ELSE [task[g] EXCEPT !.step = "block"]

LoopStart(g) ==
  /\ At(g, "new", "start")
  /\ task' = [task EXCEPT ![g] = LoopRound(g)]
  /\ UNCHANGED <<vars, socket, handler, got, errors, history>>

(* XREADGROUP ">" BLOCK: the canceled context does not interrupt it. *)
LoopRead(g) ==
  /\ At(g, "new", "block")
  /\ ReadNewMessages
  /\ task' = [task EXCEPT ![g] = Fetched(g, ItemsOf(NewBatch))]
  /\ took' = [took EXCEPT ![ConnOf(g)] = @ \union {e.id : e \in NewBatch}]
  /\ UNCHANGED <<socket, handler, got, errors, atConnect>>

LoopTimeout(g) ==
  /\ At(g, "new", "block")
  /\ NewBatch = {}
  /\ task' = [task EXCEPT ![g] = Begin("new")]
  /\ UNCHANGED <<vars, socket, handler, got, errors, history>>

(* A request fails, as every new one does once the context is canceled. *)
Error(g) ==
  \/ errors < MaxErrors /\ errors' = errors + 1
  \/ handler[ConnOf(g)] = "returned" /\ UNCHANGED errors

(* A read from Redis fails: pending messages, history, statuses, new ones. *)
ReadFails(g) ==
  /\ Error(g)
  /\ \/ task[g].kind \in {"pending", "history"} /\ task[g].step = "start"
     \/ task[g].step \in {"block", "status"}
  /\ task' = [task EXCEPT ![g] = AfterError(g)]
  /\ UNCHANGED <<vars, socket, handler, got, history>>

(* XREADGROUP ">" takes effect and its reply is lost. *)
LoopReplyLost(g) ==
  /\ Error(g)
  /\ At(g, "new", "block")
  /\ ReadNewMessages
  /\ task' = [task EXCEPT ![g] = AfterError(g)]
  /\ took' = [took EXCEPT ![ConnOf(g)] = @ \union {e.id : e \in NewBatch}]
  /\ UNCHANGED <<socket, handler, got, atConnect>>

-----------------------------------------------------------------------------
(* GetNotification for each message, then the pushes. *)
LoadedTask(g, i, pushes) ==
  LET left == task[g].toLoad \ {i}
      done == task[g].loaded \union pushes
  IN  IF left = {} /\ done = {} THEN Following(g)
      ELSE [kind |-> task[g].kind, toLoad |-> left, loaded |-> done,
            step |-> IF left # {} THEN "load"
                     ELSE IF task[g].kind = "history" THEN "status" ELSE "push"]

Expiry(i) == [id |-> i.id, nid |-> i.nid, cleared |-> TRUE, read |-> TRUE]
Unread(i) == [id |-> i.id, nid |-> i.nid, cleared |-> FALSE, read |-> FALSE]

(* A missing payload means that the notification has expired. *)
PushOf(i) == IF i.nid # NoNid /\ payload[i.nid] > now THEN Unread(i) ELSE Expiry(i)

GetNotification(g) ==
  /\ task[g].step = "load"
  /\ \E i \in OldestOf(task[g].toLoad) :
       task' = [task EXCEPT ![g] = LoadedTask(g, i, {PushOf(i)})]
  /\ UNCHANGED <<vars, socket, handler, got, errors, history>>

(* A failing GET skips the message, or shows it as expired in a history. *)
GetFails(g) ==
  /\ Error(g)
  /\ task[g].step = "load"
  /\ \E i \in OldestOf(task[g].toLoad) :
       /\ i.nid # NoNid
       /\ task' = [task EXCEPT ![g] =
            LoadedTask(g, i, IF task[g].kind = "history" THEN {Expiry(i)} ELSE {})]
  /\ UNCHANGED <<vars, socket, handler, got, history>>

(* Mutant: a notification without a status counts as read. *)
GetUnreadStatuses(g) ==
  /\ task[g].step = "status"
  /\ task' = [task EXCEPT ![g] = [@ EXCEPT !.step = "push", !.loaded =
       {[m EXCEPT !.read = m.cleared \/ m.nid \notin readState] : m \in task[g].loaded}]]
  /\ UNCHANGED <<vars, socket, handler, got, errors, history>>

GetReadStatuses(g) ==
  /\ task[g].step = "status"
  /\ task' = [task EXCEPT ![g] = [@ EXCEPT !.step = "push", !.loaded =
       {[m EXCEPT !.read = m.cleared \/ m.nid \in readState] : m \in task[g].loaded}]]
  /\ UNCHANGED <<vars, socket, handler, got, errors, history>>

PushedTask(g, m) ==
  IF task[g].loaded = {m} THEN Following(g)
  ELSE [task[g] EXCEPT !.loaded = task[g].loaded \ {m}]

(* WriteJSON: a write to a peer that has left may still succeed. *)
WriteJSON(g) ==
  LET c == ConnOf(g) IN
  /\ task[g].step = "push"
  /\ \E m \in OldestOf(task[g].loaded) :
       \/ /\ socket[c] = "open"
          /\ got' = [got EXCEPT ![c] = @ \union {m}]
          /\ task' = [task EXCEPT ![g] = PushedTask(g, m)]
       \/ /\ socket[c] = "broken"
          /\ task' = [task EXCEPT ![g] = PushedTask(g, m)]
          /\ UNCHANGED got
       \/ /\ socket[c] # "open"
          /\ task' = [task EXCEPT ![g] = AfterError(g)]
          /\ UNCHANGED got
  /\ UNCHANGED <<vars, socket, handler, errors, history>>

-----------------------------------------------------------------------------
(* The client confirms, sets its retention, and asks for a synchronisation. *)

(* The server passes on whatever IDs the client names.  The page of the     *)
(* server confirms what it was shown unread; the documented client confirms *)
(* every push, an expired one or one shown as read too, and whoever types   *)
(* an ack may name a push that another connection of the user got.          *)
ClientAcks(c) ==
  LET g == <<c, "client">> IN
  /\ task[g].kind = "idle" /\ socket[c] = "open"
  /\ \E m \in UNION {got[d] : d \in Conn} :
       LET i == [id |-> m.id, nid |-> m.nid] IN
       /\ AckMessage(i)
       /\ task' = [task EXCEPT ![g] = [Begin("ack") EXCEPT !.toLoad = {i}]]
  /\ UNCHANGED <<socket, handler, got, errors, history>>

AckReturns(c) ==
  LET g == <<c, "client">> IN
  /\ task[g].kind = "ack"
  /\ task[g].toLoad \intersect (acking \union marking) = {}
  /\ task' = [task EXCEPT ![g] = Begin("idle")]
  /\ UNCHANGED <<vars, socket, handler, got, errors, history>>

ClientSetsRetention(c) ==
  /\ task[<<c, "client">>].kind = "idle" /\ socket[c] = "open"
  /\ \E d \in RetentionInput : SetUserRetentionDays(d)
  /\ UNCHANGED sessions

ClientSyncs(c) ==
  /\ SyncLimit # {}
  /\ task[<<c, "client">>].kind = "idle" /\ socket[c] = "open"
  /\ task' = [task EXCEPT ![<<c, "client">>] = Begin("history")]
  /\ UNCHANGED <<vars, socket, handler, got, errors, history>>

(* ReadJSON fails, or the loop sees the canceled context.  (A message that  *)
(* is not JSON ends the session as a peer that leaves does.)                *)
ClientStops(c) ==
  /\ task[<<c, "client">>].kind = "idle" /\ socket[c] \in {"broken", "closed"}
  /\ task' = [task EXCEPT ![<<c, "client">>] = Begin("done")]
  /\ UNCHANGED <<vars, socket, handler, got, errors, history>>

PeerLeaves(c) ==
  /\ socket[c] = "open"
  /\ socket' = [socket EXCEPT ![c] = "broken"]
  /\ UNCHANGED <<vars, handler, task, got, errors, history>>

(* AddClient closes the connection when the user connects again to its pod, *)
(* by a connection of Conn or by one that never gets a session.             *)
Displaced(c) ==
  /\ socket[c] \in {"open", "broken"}
  /\ socket' = [socket EXCEPT ![c] = "closed"]
  /\ UNCHANGED <<vars, handler, task, got, errors, history>>

(* Mutant: the handler returns when the connection is gone. *)
ReturnsWhenClosed(c) ==
  /\ handler[c] = "running" /\ socket[c] # "open"
  /\ handler' = [handler EXCEPT ![c] = "returned"]
  /\ UNCHANGED <<vars, socket, task, got, errors, history>>

(* The first error of a goroutine ends the session: the context is canceled, *)
(* and then the connection closed.                                           *)
HandlerReturns(c) ==
  /\ handler[c] = "running"
  /\ \E r \in Role : task[<<c, r>>].kind = "done"
  /\ handler' = [handler EXCEPT ![c] = "returned"]
  /\ UNCHANGED <<vars, socket, task, got, errors, history>>

Close(c) ==
  /\ handler[c] = "returned" /\ socket[c] # "closed"
  /\ socket' = [socket EXCEPT ![c] = "closed"]
  /\ UNCHANGED <<vars, handler, task, got, errors, history>>

-----------------------------------------------------------------------------
GoroutineStep(g) ==
  \/ ReadPendingMessages(g) \/ RangeLastMessages(g)
  \/ LoopStart(g) \/ LoopRead(g) \/ LoopTimeout(g)
  \/ GetNotification(g) \/ GetReadStatuses(g) \/ WriteJSON(g)

GoroutineError(g) == ReadFails(g) \/ LoopReplyLost(g) \/ GetFails(g)

ClientStep(c) ==
  \/ ClientAcks(c) \/ ClientSetsRetention(c) \/ ClientSyncs(c) \/ PeerLeaves(c)

SessionStep(c) ==
  \/ Connect(c) \/ AckReturns(c) \/ ClientStops(c) \/ Displaced(c)
  \/ HandlerReturns(c) \/ Close(c)

(* The rest of the system: creations, acknowledgements in flight, workers. *)
Environment ==
  /\ Creation \/ AckInFlight \/ Worker \/ Tick
  /\ UNCHANGED sessions

DeliveryNext ==
  \/ \E g \in Goroutine : GoroutineStep(g) \/ GoroutineError(g)
  \/ \E c \in Conn : ClientStep(c) \/ SessionStep(c)
  \/ Environment

DeliverySpec == DeliveryInit /\ [][DeliveryNext]_dvars

(* The goroutines of a session run on, and its handler hears of an error. *)
DeliveryFairness ==
  /\ \A g \in Goroutine : WF_dvars(GoroutineStep(g))
  /\ \A c \in Conn : /\ WF_dvars(AckReturns(c) \/ ClientStops(c))
                     /\ WF_dvars(HandlerReturns(c) \/ Close(c))
  /\ WF_dvars(AckInFlight /\ UNCHANGED sessions)

DeliveryFairSpec == DeliverySpec /\ DeliveryFairness
-----------------------------------------------------------------------------
(* Properties. *)

DeliveryTypeOK ==
  /\ TypeOK
  /\ socket \in [Conn -> {"none", "open", "broken", "closed"}]
  /\ handler \in [Conn -> {"none", "running", "returned"}]
  /\ task \in [Goroutine -> Task]
  /\ got \in [Conn -> SUBSET Push]
  /\ errors \in 0..MaxErrors
  /\ atConnect \in [Conn -> SUBSET Nat] /\ took \in [Conn -> SUBSET Nat]

Listening(c) ==
  /\ socket[c] = "open" /\ handler[c] = "running"
  /\ task[<<c, "delivery">>].kind = "new"

Shown(c, id) == \E m \in got[c] : m.id = id

InHand(c, id) ==
  LET t == task[<<c, "delivery">>] IN
  (\E i \in t.toLoad : i.id = id) \/ (\E m \in t.loaded : m.id = id)

(* When a session reaches its live loop, its client has been shown         *)
(* everything that was in the stream when it connected and still is,       *)
(* whoever read or confirmed it meanwhile, unless a request failed.        *)
InitialSyncComplete ==
  errors = 0 =>
    \A c \in Conn : Listening(c) =>
      \A e \in stream : e.id \in atConnect[c] => Shown(c, e.id)

(* Nothing falls between the synchronisation and the live loop: an entry   *)
(* of the stream is ahead of the group, or the session has it in hand or   *)
(* has shown it, or another session of the user took it from the group.    *)
NoGap ==
  errors = 0 =>
    \A c \in Conn : Listening(c) =>
      \A e \in stream :
        \/ e.id > group \/ InHand(c, e.id) \/ Shown(c, e.id)
        \/ \E d \in Conn \ {c} : e.id \in took[d]

(* The group gives a new message to one session only, however many of the  *)
(* user's sessions wait for it, on whatever pods, and whoever of them made *)
(* the group: no entry of the stream is pushed twice as a new one.         *)
TakenOnce ==
  \A c, d \in Conn : c # d => took[c] \intersect took[d] = {}

(* While no request fails, the live loop sends what it takes in the order  *)
(* of the stream, from one batch to the next: what it is through with is   *)
(* older than what it has in hand.                                         *)
LiveInOrder ==
  errors = 0 =>
    \A c \in Conn :
      handler[c] = "running" /\ task[<<c, "delivery">>].kind = "new" =>
        \A id, held \in took[c] :
          InHand(c, held) => InHand(c, id) \/ id < held

(* What was pushed as cleared although nothing says that it has expired.   *)
Doubtful(d, n) ==
  errors # 0 \/ faults # 0 \/ handler[d] = "returned" \/ now > born[n] + TTL - Tolerance

(* A notification is called read only after a client of the user has been  *)
(* shown it, with its text: the status comes from a confirmation, and what *)
(* was confirmed first was pushed unread, or as an expired one.  The latter *)
(* makes a notification read that nobody saw only if it has expired by now, *)
(* or if a request failed; a payload that is there is never pushed so.     *)
ReadWasShown ==
  \A c \in Conn : \A m \in got[c] :
    m.read /\ ~m.cleared =>
      \E d \in Conn : \E l \in got[d] :
        l.nid = m.nid /\ (~l.read \/ (l.cleared /\ Doubtful(d, m.nid)))

(* notification_service.go:372 and :418 take a missing payload or entry    *)
(* for an expired notification.  While no request fails they are right: a  *)
(* message that a session marks as cleared has had its time, or its entry  *)
(* has left the stream; a payload never goes before its entry's time.      *)
ClearedIsExpired ==
  [][\A g \in Goroutine : \A m \in task'[g].loaded \ task[g].loaded :
       m.cleared /\ errors' = 0 /\ handler[ConnOf(g)] = "running" =>
         \A s \in sent : s.id = m.id =>
           \/ now > born[s.nid] + TTL - Tolerance
           \/ \A e \in stream : e.id # m.id]_dvars

(* With one session, whatever enters the stream while it is open is shown  *)
(* to its client, unless a request fails, the connection ends, or the      *)
(* entry leaves first.                                                     *)
ShownWhileConnected ==
  \A c \in Conn, n \in Nid :
    socket[c] = "open" /\ (\E e \in stream : e.nid = n)
      ~> \/ errors # 0 \/ socket[c] # "open" \/ (\E m \in got[c] : m.nid = n)
         \/ \A e \in stream : e.nid # n

(* When the connection is gone, the handler returns and both goroutines of *)
(* the session end: none is left reading the user's messages.              *)
SessionEnds ==
  \A c \in Conn :
    socket[c] \in {"broken", "closed"}
      ~> handler[c] = "returned" /\ \A r \in Role : task[<<c, r>>].kind = "done"

(* A session as its goroutines see it: they start once, and the context is *)
(* canceled only when one of them has ended, never under two that still    *)
(* serve the client.  Sessions makes the same of its handlers.             *)
Life == INSTANCE SessionLife WITH
  life  <- handler,
  link  <- [c \in Conn |-> IF socket[c] \in {"broken", "closed"} THEN "gone" ELSE socket[c]],
  ended <- [c \in Conn |-> {r \in Role : task[<<c, r>>].kind = "done"}]

LifeRefined == Life!Spec

(* Everything the sessions do to Redis is a behaviour of the repository.   *)
RepositorySpec == Spec
=============================================================================
