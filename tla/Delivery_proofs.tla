---------------------------- MODULE Delivery_proofs ----------------------------
(***************************************************************************)
(* Proofs about Delivery: its type invariant, and that the sessions of a   *)
(* user implement the repository's specification, so that everything       *)
(* proved about the repository holds of the whole.                         *)
(***************************************************************************)
EXTENDS Delivery, NotificationRepository_proofs

(* Every task a goroutine can be given is a Task. *)
LEMMA BeginType == \A k \in Kind : Begin(k) \in Task
  BY DEF Begin, Task

(* The work that follows a task, or an error, is a Task. *)
LEMMA FollowingType ==
  ASSUME NEW g \in Goroutine  PROVE Following(g) \in Task /\ AfterError(g) \in Task
  BY BeginType DEF Following, AfterError, Kind

(* What a read gives a goroutine is a Task. *)
LEMMA FetchedType ==
  ASSUME task \in [Goroutine -> Task], NEW g \in Goroutine, NEW items \in SUBSET Item
  PROVE  Fetched(g, items) \in Task
  BY FollowingType DEF Fetched, Task

(* A task stays one when a payload has been loaded. *)
LEMMA LoadedType ==
  ASSUME task \in [Goroutine -> Task], NEW g \in Goroutine, NEW i, NEW pushes \in SUBSET Push
  PROVE  LoadedTask(g, i, pushes) \in Task
<1>1. CASE task[g].toLoad \ {i} = {} /\ task[g].loaded \union pushes = {}
  BY <1>1, FollowingType DEF LoadedTask
<1>2. CASE ~(task[g].toLoad \ {i} = {} /\ task[g].loaded \union pushes = {})
  BY <1>2 DEF LoadedTask, Task
<1> QED  BY <1>1, <1>2

(* What is made of a message is a Push. *)
LEMMA PushType ==
  ASSUME NEW i \in Item  PROVE PushOf(i) \in Push /\ Expiry(i) \in Push
  BY DEF PushOf, Expiry, Unread, Item, Push

(* Entries of the stream give messages of the right type. *)
LEMMA ItemsType == TypeOK => \A S \in SUBSET stream : ItemsOf(S) \in SUBSET Item
  BY DEF TypeOK, ItemsOf, Item, Entry

(* So does the list of pending IDs. *)
LEMMA PendingType ==
  ASSUME TypeOK  PROVE PendingItems \in SUBSET Item
<1>1. \A id : NidOf(id) \in Nid \union {NoNid}
  BY DEF NidOf, TypeOK, Entry
<1>2. \A id \in pel : [id |-> id, nid |-> NidOf(id)] \in Item
  BY <1>1 DEF Item, TypeOK
<1> QED  BY <1>2 DEF PendingItems

(* The initial state of the sessions is well typed. *)
LEMMA DeliveryInitType == DeliveryInit => DeliveryTypeOK
<1> SUFFICES ASSUME DeliveryInit  PROVE DeliveryTypeOK
  OBVIOUS
<1>1. TypeOK
  BY InitType DEF DeliveryInit
<1>2. task \in [Goroutine -> Task]
  BY BeginType DEF DeliveryInit, Kind
<1> QED  BY <1>1, <1>2, DeliveryAssumption DEF DeliveryInit, DeliveryTypeOK

(* The steps of the two goroutines of a session. *)
LEMMA GoroutineType ==
  ASSUME DeliveryTypeOK, NEW g \in Goroutine, GoroutineStep(g) \/ GoroutineError(g),
         TypeOK'
  PROVE  DeliveryTypeOK'
<1> USE DEF DeliveryTypeOK
<1>1. ConnOf(g) \in Conn
  BY DEF ConnOf, Goroutine
<1>2. ASSUME NEW t \in Task, task' = [task EXCEPT ![g] = t],
             UNCHANGED <<socket, handler, atConnect>>, got' = got, took' = took,
             errors' = errors \/ Error(g)
      PROVE  DeliveryTypeOK'
  <2>1. errors' \in 0..MaxErrors
    BY <1>2, DeliveryAssumption DEF Error
  <2> QED  BY <1>2, <2>1
<1>3. CASE ReadPendingMessages(g)
  BY <1>2, <1>3, PendingType, FetchedType DEF ReadPendingMessages, history
<1>4. CASE RangeLastMessages(g)
  <2>1. \A k : Newest(stream, k) \in SUBSET stream
    BY DEF Newest
  <2>2. \A k \in Limits(g) : HistoryItems(k) \in SUBSET Item
    BY <2>1, ItemsType DEF HistoryItems, Limits
  <2> QED  BY <1>2, <1>4, <2>2, FetchedType DEF RangeLastMessages, history
<1>5. CASE LoopStart(g)
  <2>1. LoopRound(g) \in Task
    BY BeginType DEF LoopRound, Task, Kind
  <2> QED  BY <1>2, <1>5, <2>1 DEF LoopStart, history
<1>6. ASSUME NewBatch # {}
      PROVE  ItemsOf(NewBatch) \in SUBSET Item /\ {e.id : e \in NewBatch} \in SUBSET Nat
  <2>1. NewBatch \in SUBSET stream
    BY DEF NewBatch, Undelivered
  <2> QED  BY <2>1, ItemsType DEF TypeOK, Entry
<1>7. CASE LoopRead(g)
  <2>1. took' \in [Conn -> SUBSET Nat]
    BY <1>1, <1>6, <1>7 DEF LoopRead, ReadNewMessages
  <2>2. task' \in [Goroutine -> Task]
    BY <1>6, <1>7, FetchedType DEF LoopRead, ReadNewMessages
  <2> QED  BY <1>7, <2>1, <2>2 DEF LoopRead
<1>8. CASE LoopTimeout(g)
  BY <1>2, <1>8, BeginType DEF LoopTimeout, history, Kind
<1>9. CASE GetNotification(g)
  <2>1. PICK i \in OldestOf(task[g].toLoad) :
          task' = [task EXCEPT ![g] = LoadedTask(g, i, {PushOf(i)})]
    BY <1>9 DEF GetNotification
  <2>2. i \in Item
    BY <2>1 DEF OldestOf, Task
  <2>3. LoadedTask(g, i, {PushOf(i)}) \in Task
    BY <2>2, PushType, LoadedType
  <2> QED  BY <1>2, <1>9, <2>1, <2>3 DEF GetNotification, history
<1>10. CASE GetReadStatuses(g)
  <2> DEFINE new == {[m EXCEPT !.read = m.cleared \/ m.nid \in readState] :
                       m \in task[g].loaded}
  <2>1. new \in SUBSET Push
    <3> SUFFICES ASSUME NEW m \in task[g].loaded
                 PROVE  [m EXCEPT !.read = m.cleared \/ m.nid \in readState] \in Push
      OBVIOUS
    <3>1. m \in Push
      BY DEF Task
    <3>2. (m.cleared \/ m.nid \in readState) \in BOOLEAN
      OBVIOUS
    <3> QED  BY <3>1, <3>2 DEF Push
  <2> HIDE DEF new
  <2>2. [task[g] EXCEPT !.step = "push", !.loaded = new] \in Task
    BY <2>1 DEF Task
  <2>3. task' = [task EXCEPT ![g] = [task[g] EXCEPT !.step = "push", !.loaded = new]]
    BY <1>10 DEF GetReadStatuses, new
  <2> QED  BY <1>2, <1>10, <2>2, <2>3 DEF GetReadStatuses, history
<1>11. CASE WriteJSON(g)
  <2>1. PICK m \in OldestOf(task[g].loaded) :
          /\ got' = got \/ got' = [got EXCEPT ![ConnOf(g)] = @ \union {m}]
          /\ task' = [task EXCEPT ![g] = PushedTask(g, m)]
             \/ task' = [task EXCEPT ![g] = AfterError(g)]
    BY <1>11 DEF WriteJSON
  <2>2. m \in Push
    BY <2>1 DEF OldestOf, Task
  <2>3. PushedTask(g, m) \in Task
    BY FollowingType DEF PushedTask, Task
  <2>4. task' \in [Goroutine -> Task]
    BY <2>1, <2>3, FollowingType
  <2>5. got' \in [Conn -> SUBSET Push]
    BY <1>1, <2>1, <2>2
  <2> QED  BY <1>11, <2>4, <2>5 DEF WriteJSON, history
<1>12. CASE ReadFails(g)
  BY <1>2, <1>12, FollowingType DEF ReadFails, history
<1>13. CASE LoopReplyLost(g)
  <2>1. took' \in [Conn -> SUBSET Nat]
    BY <1>1, <1>6, <1>13 DEF LoopReplyLost, ReadNewMessages
  <2>2. errors' \in 0..MaxErrors
    BY <1>13, DeliveryAssumption DEF LoopReplyLost, Error
  <2>3. task' \in [Goroutine -> Task]
    BY <1>13, FollowingType DEF LoopReplyLost
  <2> QED  BY <1>13, <2>1, <2>2, <2>3 DEF LoopReplyLost
<1>14. CASE GetFails(g)
  <2>1. PICK i \in OldestOf(task[g].toLoad) :
          task' = [task EXCEPT ![g] =
            LoadedTask(g, i, IF task[g].kind = "history" THEN {Expiry(i)} ELSE {})]
    BY <1>14 DEF GetFails
  <2>2. i \in Item
    BY <2>1 DEF OldestOf, Task
  <2>3. LoadedTask(g, i, IF task[g].kind = "history" THEN {Expiry(i)} ELSE {}) \in Task
    BY <2>2, PushType, LoadedType
  <2> QED  BY <1>2, <1>14, <2>1, <2>3 DEF GetFails, history
<1> QED
  BY <1>3, <1>4, <1>5, <1>7, <1>8, <1>9, <1>10, <1>11, <1>12, <1>13, <1>14
  DEF GoroutineStep, GoroutineError

(* The other steps of a session. *)
LEMMA SessionStepType ==
  ASSUME DeliveryTypeOK, NEW c \in Conn, ClientStep(c) \/ SessionStep(c), TypeOK'
  PROVE  DeliveryTypeOK'
<1> USE DEF DeliveryTypeOK
<1>1. CASE Connect(c)
  <2>1. atConnect' \in [Conn -> SUBSET Nat]
    BY <1>1 DEF Connect, TypeOK, Entry
  <2>2. task' \in [Goroutine -> Task]
    BY <1>1, BeginType DEF Connect, Kind
  <2> QED  BY <1>1, <2>1, <2>2 DEF Connect
<1>2. CASE ClientAcks(c)
  <2>1. PICK m \in UNION {got[d] : d \in Conn} :
          LET i == [id |-> m.id, nid |-> m.nid]
          IN  task' = [task EXCEPT ![<<c, "client">>] = [Begin("ack") EXCEPT !.toLoad = {i}]]
    BY <1>2 DEF ClientAcks
  <2>2. m \in Push
    OBVIOUS
  <2>3. PICK i \in Item :
          task' = [task EXCEPT ![<<c, "client">>] = [Begin("ack") EXCEPT !.toLoad = {i}]]
    BY <2>1, <2>2 DEF Push, Item
  <2>4. [Begin("ack") EXCEPT !.toLoad = {i}] \in Task
    BY <2>3 DEF Begin, Task, Kind
  <2> QED  BY <1>2, <2>3, <2>4 DEF ClientAcks, history
<1>3. CASE AckReturns(c)
  BY <1>3, BeginType DEF AckReturns, Kind, history
<1>4. CASE ClientSetsRetention(c)
  BY <1>4 DEF ClientSetsRetention, sessions, history
<1>5. CASE ClientSyncs(c)
  BY <1>5, BeginType DEF ClientSyncs, Kind, history
<1>6. CASE ClientStops(c)
  BY <1>6, BeginType DEF ClientStops, Kind, history
<1>7. CASE PeerLeaves(c) \/ Displaced(c) \/ HandlerReturns(c) \/ Close(c)
  BY <1>7 DEF PeerLeaves, Displaced, HandlerReturns, Close, history
<1> QED
  BY <1>1, <1>2, <1>3, <1>4, <1>5, <1>6, <1>7 DEF ClientStep, SessionStep

-----------------------------------------------------------------------------
(* Refinement.  A client confirms what some client was pushed, and what is *)
(* pushed was in the stream, even when it is pushed without its UUID.      *)
Named(m) == [id |-> m.id, nid |-> m.nid]

SentInv ==
  /\ \A e \in stream : [id |-> e.id, nid |-> e.nid] \in sent
  /\ pel \subseteq {s.id : s \in sent}
  /\ \A g \in Goroutine :
       /\ task[g].toLoad \subseteq Confirmable
       /\ \A m \in task[g].loaded : Named(m) \in Confirmable
  /\ \A c \in Conn : \A m \in got[c] : Named(m) \in Confirmable

(* A message that names a notification was sent with it. *)
LEMMA NamedWasSent == \A i \in Confirmable : i.nid # NoNid => i \in sent
  BY DEF Confirmable

(* Every step of the system is a step of the repository or leaves it alone. *)
LEMMA StepRefines ==
  ASSUME SentInv, DeliveryNext
  PROVE  Next \/ UNCHANGED vars
<1>1. ASSUME NEW g \in Goroutine, GoroutineStep(g) \/ GoroutineError(g)
      PROVE  ReadNewMessages \/ UNCHANGED vars
  BY <1>1 DEF GoroutineStep, GoroutineError, ReadPendingMessages, RangeLastMessages,
     LoopStart, LoopRead, LoopTimeout, GetNotification, GetReadStatuses, WriteJSON,
     ReadFails, LoopReplyLost, GetFails
<1>2. ASSUME NEW c \in Conn, ClientStep(c) \/ SessionStep(c)
      PROVE  Session \/ UNCHANGED vars
  <2>1. CASE ClientAcks(c)
    <3>1. PICK m \in UNION {got[d] : d \in Conn} : AckMessage(Named(m))
      BY <2>1 DEF ClientAcks, Named
    <3>2. Named(m) \in Confirmable
      BY DEF SentInv
    <3> QED  BY <3>1, <3>2 DEF Session
  <2>2. CASE Connect(c)
    BY <2>2 DEF Connect, EnsureGroup, Session
  <2>3. CASE ClientSetsRetention(c)
    BY <2>3 DEF ClientSetsRetention, Session
  <2>4. CASE ~(ClientAcks(c) \/ Connect(c) \/ ClientSetsRetention(c))
    BY <1>2, <2>4 DEF ClientStep, SessionStep, ClientSyncs, PeerLeaves, AckReturns,
       ClientStops, Displaced, HandlerReturns, Close
  <2> QED  BY <2>1, <2>2, <2>3, <2>4
<1>3. CASE Environment
  BY <1>3 DEF Environment, Next, Session
<1> QED
  BY <1>1, <1>2, <1>3 DEF DeliveryNext, Next, Session

(* Every step of the system keeps the sessions well typed. *)
LEMMA DeliveryNextType ==
  DeliveryTypeOK /\ SentInv /\ [DeliveryNext]_dvars => DeliveryTypeOK'
<1> SUFFICES ASSUME DeliveryTypeOK, SentInv, [DeliveryNext]_dvars
             PROVE  DeliveryTypeOK'
  OBVIOUS
<1>1. CASE UNCHANGED dvars
  BY <1>1 DEF DeliveryTypeOK, dvars, sessions, history, TypeOK, vars, keys, calls, acks, workers
<1>2. CASE DeliveryNext
  <2>1. TypeOK'
    BY <1>2, StepRefines, NextType DEF DeliveryTypeOK
  <2>2. CASE Environment
    BY <2>1, <2>2 DEF DeliveryTypeOK, Environment, sessions, history
  <2> QED  BY <1>2, <2>1, <2>2, GoroutineType, SessionStepType DEF DeliveryNext
<1> QED  BY <1>1, <1>2

(* A message that was sent stays so. *)
LEMMA SentGrows ==
  ASSUME [Next]_vars  PROVE sent \subseteq sent'
<1>1. CASE Creation
  BY <1>1 DEF Creation, CreateNotification, CreateFailure, SetPayload, CreateGroup, XAdd,
     ScheduleTTL, ScheduleFails, CreateAborts, PipelineRetry
<1>2. CASE UNCHANGED calls
  BY <1>2 DEF calls
<1> QED
  BY <1>1, <1>2, NextKinds, SessionFrame, CleaningFrame, TrimmingFrame, MaintainingFrame,
     TickFrame DEF vars

(* So what clients may confirm stays so too. *)
LEMMA ConfirmableGrows ==
  ASSUME [Next]_vars  PROVE Confirmable \subseteq Confirmable'
  BY SentGrows DEF Confirmable

(* Every entry of the stream was sent. *)
LEMMA StreamIsSent ==
  ASSUME TypeOK, [Next]_vars, \A e \in stream : [id |-> e.id, nid |-> e.nid] \in sent
  PROVE  \A e \in stream' : [id |-> e.id, nid |-> e.nid] \in sent'
<1> SUFFICES ASSUME NEW e \in stream'  PROVE [id |-> e.id, nid |-> e.nid] \in sent'
  OBVIOUS
<1>1. CASE e \in stream
  BY <1>1, SentGrows
<1>2. CASE e \notin stream
  <2>1. PICK n \in Nid : XAdd(n) /\ e = [id |-> lastId + 1, nid |-> n, at |-> now]
    BY <1>2, StreamStep
  <2> QED  BY <2>1 DEF XAdd
<1> QED  BY <1>1, <1>2

(* What becomes pending is in the stream. *)
LEMMA PendingIsSent ==
  ASSUME [Next]_vars, \A e \in stream : [id |-> e.id, nid |-> e.nid] \in sent,
         pel \subseteq {s.id : s \in sent}
  PROVE  pel' \subseteq {s.id : s \in sent'}
<1>1. sent \subseteq sent'
  BY SentGrows
<1>2. CASE pel' \subseteq pel
  BY <1>1, <1>2
<1>3. CASE ReadNewMessages
  <2>1. pel' = pel \union {e.id : e \in NewBatch} /\ NewBatch \subseteq stream
    BY <1>3 DEF ReadNewMessages, NewBatch, Undelivered
  <2>2. \A e \in NewBatch : \E s \in sent : s.id = e.id
    BY <2>1
  <2> QED  BY <1>1, <2>1, <2>2
<1>4. CASE Session
  BY <1>2, <1>3, <1>4 DEF Session, AckInFlight, EnsureConsumerGroup, AckMessage, AckXAck,
     AckMarkRead, AckAborts, SetUserRetentionDays, keys
<1>5. CASE Cleaning
  BY <1>2, <1>5 DEF Cleaning, CleanupExpiredNotifications, JanitorFetch, JanitorXAck,
     JanitorXDel, JanitorDel, JanitorZRem, JanitorFails, keys
<1>6. CASE Maintaining
  BY <1>2, <1>6 DEF Maintaining, GroupMaintenance, MaintainerList, Reclaim, keys
<1>7. CASE UNCHANGED pel
  BY <1>2, <1>7
<1> QED
  BY <1>4, <1>5, <1>6, <1>7, NextKinds, CreationFrame, TrimmingFrame, TickFrame DEF vars, keys

(* What a goroutine takes from Redis was sent. *)
LEMMA FetchedIsSent ==
  ASSUME TypeOK, SentInv
  PROVE  /\ PendingItems \subseteq Confirmable
         /\ \A S \in SUBSET stream : ItemsOf(S) \subseteq Confirmable
<1>1. ASSUME NEW id \in pel  PROVE [id |-> id, nid |-> NidOf(id)] \in Confirmable
  <2> DEFINE found == {e \in stream : e.id = id}
  <2>1. CASE found = {}
    <3>1. NidOf(id) = NoNid
      BY <2>1 DEF NidOf
    <3>2. PICK s \in sent : s.id = id
      BY <1>1 DEF SentInv
    <3> QED  BY <3>1, <3>2 DEF Confirmable
  <2>2. CASE found # {}
    <3>1. PICK e \in found : NidOf(id) = e.nid
      BY <2>2 DEF NidOf
    <3>2. e.id = id /\ [id |-> e.id, nid |-> e.nid] \in sent
      BY <3>1 DEF SentInv
    <3> QED  BY <3>1, <3>2 DEF Confirmable
  <2> QED  BY <2>1, <2>2
<1>2. PendingItems \subseteq Confirmable
  BY <1>1 DEF PendingItems
<1>3. \A S \in SUBSET stream : ItemsOf(S) \subseteq Confirmable
  BY DEF SentInv, ItemsOf, Confirmable
<1> QED  BY <1>2, <1>3

(* A task holds messages that were sent. *)
TaskSent(t) ==
  /\ t.toLoad \subseteq Confirmable
  /\ \A m \in t.loaded : Named(m) \in Confirmable

(* A task that begins holds no messages. *)
LEMMA BeginSent == \A k : TaskSent(Begin(k))
  BY DEF TaskSent, Begin

(* Nor does the work that follows a task. *)
LEMMA FollowingSent == \A g : TaskSent(Following(g)) /\ TaskSent(AfterError(g))
  BY BeginSent DEF Following, AfterError

(* A task holds messages that were sent when what was read was. *)
LEMMA FetchedSent ==
  ASSUME DeliveryTypeOK, SentInv, NEW g \in Goroutine, NEW items \in SUBSET Confirmable
  PROVE  TaskSent(Fetched(g, items))
<1>1. CASE items = {}
  BY <1>1, FollowingSent DEF Fetched
<1>2. CASE items # {}
  <2>1. Fetched(g, items) = [task[g] EXCEPT !.step = "load", !.toLoad = items]
    BY <1>2 DEF Fetched
  <2>2. Fetched(g, items).toLoad = items /\ Fetched(g, items).loaded = task[g].loaded
    BY <2>1 DEF DeliveryTypeOK, Task
  <2> QED  BY <2>2 DEF TaskSent, SentInv
<1> QED  BY <1>1, <1>2

(* Loading payloads does not change which messages a task holds. *)
LEMMA LoadedSent ==
  ASSUME SentInv, NEW g \in Goroutine, NEW i, NEW pushes,
         \A m \in pushes : Named(m) \in Confirmable
  PROVE  TaskSent(LoadedTask(g, i, pushes))
<1>1. CASE task[g].toLoad \ {i} = {} /\ task[g].loaded \union pushes = {}
  BY <1>1, FollowingSent DEF LoadedTask
<1>2. CASE ~(task[g].toLoad \ {i} = {} /\ task[g].loaded \union pushes = {})
  <2>1. /\ LoadedTask(g, i, pushes).toLoad = task[g].toLoad \ {i}
        /\ LoadedTask(g, i, pushes).loaded = task[g].loaded \union pushes
    BY <1>2 DEF LoadedTask
  <2> QED  BY <2>1 DEF TaskSent, SentInv
<1> QED  BY <1>1, <1>2

(* Every task that a step leaves behind holds messages that were sent. *)
LEMMA TaskSentStep ==
  ASSUME DeliveryTypeOK, SentInv, NEW g \in Goroutine, GoroutineStep(g) \/ GoroutineError(g)
  PROVE  \E t : TaskSent(t) /\ task' = [task EXCEPT ![g] = t]
<1> USE DEF DeliveryTypeOK
<1>1. CASE ReadPendingMessages(g)
  BY <1>1, FetchedIsSent, FetchedSent DEF ReadPendingMessages
<1>2. CASE RangeLastMessages(g)
  <2>1. \A k : Newest(stream, k) \in SUBSET stream
    BY DEF Newest
  <2>2. \A k \in Limits(g) : HistoryItems(k) \subseteq Confirmable
    BY <2>1, FetchedIsSent DEF HistoryItems
  <2> QED  BY <1>2, <2>2, FetchedSent DEF RangeLastMessages
<1>3. CASE LoopStart(g)
  <2>1. TaskSent(LoopRound(g))
    BY BeginSent DEF LoopRound, TaskSent, SentInv, Task
  <2> QED  BY <1>3, <2>1 DEF LoopStart
<1>4. CASE LoopRead(g)
  <2>1. NewBatch \in SUBSET stream
    BY DEF NewBatch, Undelivered
  <2>2. ItemsOf(NewBatch) \subseteq Confirmable
    BY <2>1, FetchedIsSent
  <2> QED  BY <1>4, <2>2, FetchedSent DEF LoopRead
<1>5. CASE LoopTimeout(g)
  BY <1>5, BeginSent DEF LoopTimeout
<1>6. CASE GetNotification(g)
  <2>1. PICK i \in OldestOf(task[g].toLoad) :
          task' = [task EXCEPT ![g] = LoadedTask(g, i, {PushOf(i)})]
    BY <1>6 DEF GetNotification
  <2>2. i \in Item /\ i \in Confirmable
    BY <2>1 DEF OldestOf, Task, SentInv
  <2>3. Named(PushOf(i)) \in Confirmable
    BY <2>2 DEF PushOf, Unread, Expiry, Item, Named
  <2> QED  BY <2>1, <2>3, LoadedSent
<1>7. CASE GetReadStatuses(g)
  <2> DEFINE new == {[m EXCEPT !.read = m.cleared \/ m.nid \in readState] :
                       m \in task[g].loaded}
  <2>1. \A m \in new : Named(m) \in Confirmable
    <3> SUFFICES ASSUME NEW l \in task[g].loaded, NEW m,
                        m = [l EXCEPT !.read = l.cleared \/ l.nid \in readState]
                 PROVE  Named(m) \in Confirmable
      OBVIOUS
    <3>1. l \in Push
      BY DEF Task
    <3>2. m.id = l.id /\ m.nid = l.nid
      BY <3>1 DEF Push
    <3> QED  BY <3>2 DEF SentInv, Named
  <2> HIDE DEF new
  <2>2. TaskSent([task[g] EXCEPT !.step = "push", !.loaded = new])
    BY <2>1 DEF TaskSent, SentInv, Task
  <2>3. task' = [task EXCEPT ![g] = [task[g] EXCEPT !.step = "push", !.loaded = new]]
    BY <1>7 DEF GetReadStatuses, new
  <2> QED  BY <2>2, <2>3
<1>8. CASE WriteJSON(g)
  <2>1. PICK m \in OldestOf(task[g].loaded) :
          \/ task' = [task EXCEPT ![g] = PushedTask(g, m)]
          \/ task' = [task EXCEPT ![g] = AfterError(g)]
    BY <1>8 DEF WriteJSON
  <2>2. TaskSent(PushedTask(g, m))
    BY FollowingSent DEF PushedTask, TaskSent, SentInv, Task
  <2> QED  BY <2>1, <2>2, FollowingSent
<1>9. CASE ReadFails(g) \/ LoopReplyLost(g)
  BY <1>9, FollowingSent DEF ReadFails, LoopReplyLost
<1>10. CASE GetFails(g)
  <2>1. PICK i \in OldestOf(task[g].toLoad) :
          task' = [task EXCEPT ![g] =
            LoadedTask(g, i, IF task[g].kind = "history" THEN {Expiry(i)} ELSE {})]
    BY <1>10 DEF GetFails
  <2>2. i \in Item /\ i \in Confirmable
    BY <2>1 DEF OldestOf, Task, SentInv
  <2>3. \A m \in (IF task[g].kind = "history" THEN {Expiry(i)} ELSE {}) : Named(m) \in Confirmable
    BY <2>2 DEF Expiry, Item, Named
  <2> QED  BY <2>1, <2>3, LoadedSent
<1> QED
  BY <1>1, <1>2, <1>3, <1>4, <1>5, <1>6, <1>7, <1>8, <1>9, <1>10
  DEF GoroutineStep, GoroutineError

(* SentInv: what goroutines hold and clients were shown was sent. *)
LEMMA SentNext ==
  ASSUME DeliveryTypeOK, SentInv, [DeliveryNext]_dvars
  PROVE  SentInv'
<1>1. [Next]_vars
  BY StepRefines DEF dvars
<1>2. /\ Confirmable \subseteq Confirmable'
      /\ \A e \in stream' : [id |-> e.id, nid |-> e.nid] \in sent'
      /\ pel' \subseteq {s.id : s \in sent'}
  BY <1>1, ConfirmableGrows, StreamIsSent, PendingIsSent DEF SentInv, DeliveryTypeOK
<1>3. ASSUME NEW t, NEW g \in Goroutine, TaskSent(t), task' = [task EXCEPT ![g] = t],
             \A c \in Conn : \A m \in got'[c] : Named(m) \in Confirmable
      PROVE  SentInv'
  BY <1>2, <1>3 DEF SentInv, TaskSent, DeliveryTypeOK, Named
<1>4. ASSUME NEW g \in Goroutine, GoroutineStep(g) \/ GoroutineError(g)
      PROVE  SentInv'
  <2>1. PICK t : TaskSent(t) /\ task' = [task EXCEPT ![g] = t]
    BY <1>4, TaskSentStep
  <2>2. got' = got \/ \E m \in task[g].loaded : got' = [got EXCEPT ![ConnOf(g)] = @ \union {m}]
    BY <1>4 DEF GoroutineStep, GoroutineError, ReadPendingMessages, RangeLastMessages,
       LoopStart, LoopRead, LoopTimeout, GetNotification, GetReadStatuses, WriteJSON,
       ReadFails, LoopReplyLost, GetFails, OldestOf
  <2>3. \A c \in Conn : \A m \in got'[c] : Named(m) \in Confirmable
    BY <2>2 DEF SentInv, DeliveryTypeOK
  <2> QED  BY <1>3, <2>1, <2>3
<1>5. ASSUME NEW c \in Conn, ClientStep(c) \/ SessionStep(c)
      PROVE  SentInv'
  <2>1. got' = got
    BY <1>5 DEF ClientStep, SessionStep, Connect, ClientAcks, AckReturns, ClientSetsRetention,
       ClientSyncs, ClientStops, PeerLeaves, Displaced, HandlerReturns, Close, sessions
  <2>5. /\ \A d \in Conn : \A m \in got'[d] : Named(m) \in Confirmable
        /\ \A r \in Role : <<c, r>> \in Goroutine
    BY <2>1 DEF SentInv, Goroutine
  <2>2. CASE ClientAcks(c)
    <3>1. PICK m \in UNION {got[d] : d \in Conn} :
            task' = [task EXCEPT ![<<c, "client">>] = [Begin("ack") EXCEPT !.toLoad = {Named(m)}]]
      BY <2>2 DEF ClientAcks, Named
    <3>2. Named(m) \in Confirmable
      BY DEF SentInv
    <3>3. TaskSent([Begin("ack") EXCEPT !.toLoad = {Named(m)}])
      BY <3>2 DEF TaskSent, Begin
    <3>4. <<c, "client">> \in Goroutine
      BY <2>5 DEF Role
    <3> QED  BY <1>3, <2>5, <3>1, <3>3, <3>4
  <2>3. CASE UNCHANGED task
    BY <1>2, <2>1, <2>3 DEF SentInv, Named
  <2>4. CASE \E r \in Role, k \in Kind : task' = [task EXCEPT ![<<c, r>>] = Begin(k)]
    <3>1. PICK r \in Role, k \in Kind : task' = [task EXCEPT ![<<c, r>>] = Begin(k)]
      BY <2>4
    <3> QED  BY <1>3, <2>5, <3>1, BeginSent
  <2> QED
    BY <1>5, <2>2, <2>3, <2>4 DEF ClientStep, SessionStep, Connect, AckReturns,
       ClientSetsRetention, ClientSyncs, ClientStops, PeerLeaves, Displaced,
       HandlerReturns, Close, sessions, Role, Kind
<1>6. CASE Environment \/ UNCHANGED dvars
  <2>1. UNCHANGED <<task, got>>
    BY <1>6 DEF Environment, sessions, dvars
  <2> QED  BY <1>2, <2>1 DEF SentInv, Named
<1> QED  BY <1>4, <1>5, <1>6 DEF DeliveryNext

-----------------------------------------------------------------------------
(* The invariant of the whole. *)
LEMMA DeliveryInvariance == DeliverySpec => [](DeliveryTypeOK /\ SentInv)
<1>1. DeliveryInit => DeliveryTypeOK /\ SentInv
  BY DeliveryInitType DEF DeliveryInit, Init, SentInv, Begin
<1>2. DeliveryTypeOK /\ SentInv /\ [DeliveryNext]_dvars => (DeliveryTypeOK /\ SentInv)'
  BY DeliveryNextType, SentNext
<1> QED  BY <1>1, <1>2, PTL DEF DeliverySpec

(* Every reachable state of the sessions and of Redis is well typed. *)
THEOREM DeliveryTypeCorrect == DeliverySpec => []DeliveryTypeOK
  BY DeliveryInvariance, PTL

(* Whatever the sessions of a user do to Redis, in any number and on any   *)
(* pods, is a behaviour of the repository's specification.                 *)
THEOREM Refinement == DeliverySpec => RepositorySpec
<1>1. DeliveryInit => Init
  BY DEF DeliveryInit
<1>2. SentInv /\ [DeliveryNext]_dvars => [Next]_vars
  BY StepRefines DEF dvars
<1> QED  BY <1>1, <1>2, DeliveryInvariance, PTL DEF DeliverySpec, Spec, RepositorySpec

(* So no session loses a message either. *)
COROLLARY DeliveryLosesNothing == DeliverySpec => []NoLostEntry
  BY Refinement, NothingLost, PTL DEF RepositorySpec

-----------------------------------------------------------------------------
(* What is shown as expired has expired.  An entry that was not there when *)
(* it was read never comes back, and a payload that is not there has had   *)
(* its time.                                                               *)
Gone(id) == id <= lastId /\ \A e \in stream : e.id # id

TaskGone(t) ==
  /\ t.step = "load" => \A i \in t.toLoad : i.nid = NoNid => Gone(i.id)
  /\ \A m \in t.loaded : m.cleared => m.read

GoneInv == \A g \in Goroutine : TaskGone(task[g])

(* An ID is given once, after the payload was set. *)
IdInv ==
  /\ now >= 1
  /\ \A n \in Nid : create[n] \in {"set", "grouped"} => born[n] # 0
  /\ \A s \in sent : s.id <= lastId /\ born[s.nid] # 0
  /\ \A r, s \in sent : r.id = s.id => r = s

(* IdInv: only XADD gives an ID, and the next one. *)
LEMMA IdNext ==
  ASSUME TypeOK, IdInv, [Next]_vars
  PROVE  IdInv' /\ lastId' >= lastId
<1>1. CASE Creation
  <2>1. PICK n \in Nid : CreateNotification(n) \/ CreateFailure(n)
    BY <1>1 DEF Creation
  <2>2. CASE SetPayload(n)
    BY <2>2 DEF SetPayload, IdInv, TypeOK, Message
  <2>3. CASE CreateGroup(n)
    BY <2>3 DEF CreateGroup, IdInv, TypeOK
  <2>4. CASE XAdd(n)
    <3>1. /\ lastId' = lastId + 1 /\ sent' = sent \union {[id |-> lastId + 1, nid |-> n]}
          /\ UNCHANGED <<now, born>> /\ create' = [create EXCEPT ![n] = "added"]
          /\ born[n] # 0
      BY <2>4 DEF XAdd, IdInv
    <3>2. \A s \in sent : s.id \in Nat /\ s.id <= lastId
      BY DEF IdInv, TypeOK, Message
    <3>3. \A r, s \in sent' : r.id = s.id => r = s
      BY <3>1, <3>2 DEF IdInv, TypeOK
    <3>4. \A s \in sent' : s.id <= lastId' /\ born'[s.nid] # 0
      BY <3>1, <3>2 DEF IdInv, TypeOK
    <3>5. \A k \in Nid : create'[k] \in {"set", "grouped"} => born'[k] # 0
      BY <3>1 DEF IdInv, TypeOK
    <3> QED  BY <3>1, <3>3, <3>4, <3>5 DEF IdInv, TypeOK
  <2>5. CASE ScheduleTTL(n) \/ CreateFailure(n)
    <3>1. UNCHANGED <<now, born, sent, lastId>>
      BY <2>5 DEF ScheduleTTL, CreateFailure, ScheduleFails, CreateAborts, PipelineRetry, keys
    <3>2. \E s \in {"done", "unscheduled", "failed", "new"} : create' = [create EXCEPT ![n] = s]
      BY <2>5 DEF ScheduleTTL, CreateFailure, ScheduleFails, CreateAborts, PipelineRetry
    <3>3. \A k \in Nid : create'[k] \in {"set", "grouped"} => born'[k] # 0
      BY <3>1, <3>2 DEF IdInv, TypeOK
    <3> QED  BY <3>1, <3>3 DEF IdInv, TypeOK
  <2> QED  BY <2>1, <2>2, <2>3, <2>4, <2>5 DEF CreateNotification
<1>2. CASE ~Creation
  <2>1. UNCHANGED <<calls, lastId>>
    BY <1>2, NextKinds, SessionFrame, CleaningFrame, TrimmingFrame, MaintainingFrame, TickFrame
    DEF vars, keys
  <2>2. now' = now \/ now' = now + 1
    BY <1>2, NextKinds, SessionFrame, CleaningFrame, TrimmingFrame, MaintainingFrame, TickFrame
    DEF vars
  <2> QED  BY <2>1, <2>2 DEF IdInv, TypeOK, calls
<1> QED  BY <1>1, <1>2

(* An entry that has left the stream does not come back. *)
LEMMA GoneStays ==
  ASSUME TypeOK, IdInv, [Next]_vars, NEW id \in Nat, Gone(id)
  PROVE  Gone(id)'
<1>1. lastId' >= lastId /\ lastId' \in Nat /\ lastId \in Nat
  BY IdNext, NextType DEF TypeOK
<1>2. ASSUME NEW e \in stream'  PROVE e.id # id
  <2>1. CASE e \in stream
    BY <2>1 DEF Gone
  <2>2. CASE e \notin stream
    BY <1>1, <2>2, StreamStep DEF Gone
  <2> QED  BY <2>1, <2>2
<1> QED  BY <1>1, <1>2 DEF Gone

(* What is read from the stream has its notification, and what is pending  *)
(* without one has left it.                                                *)
LEMMA FetchedGone ==
  ASSUME TypeOK, StreamInv, GroupInv
  PROVE  /\ \A i \in PendingItems : i.nid = NoNid => Gone(i.id)
         /\ \A S \in SUBSET stream : \A i \in ItemsOf(S) : i.nid # NoNid
<1>1. ASSUME NEW i \in PendingItems, i.nid = NoNid  PROVE Gone(i.id)
  <2>1. PICK id \in pel : i = [id |-> id, nid |-> NidOf(id)]
    BY DEF PendingItems
  <2>2. id <= lastId
    <3>1. id \in Nat /\ id <= group /\ group <= lastId /\ group \in Int /\ lastId \in Nat
      BY DEF GroupInv, StreamInv, TypeOK
    <3> QED  BY <3>1
  <2>3. ASSUME NEW e \in stream, e.id = id  PROVE FALSE
    <3> DEFINE found == {f \in stream : f.id = id}
    <3>1. found # {} /\ NidOf(id) = NoNid
      BY <1>1, <2>1, <2>3
    <3>2. PICK f \in found : NidOf(id) = f.nid
      BY <3>1 DEF NidOf
    <3>3. f.nid \in Nid
      BY DEF TypeOK, Entry
    <3> QED  BY <3>1, <3>2, <3>3, NidAssumption
  <2> QED  BY <2>1, <2>2, <2>3 DEF Gone
<1>2. ASSUME NEW S \in SUBSET stream, NEW i \in ItemsOf(S)  PROVE i.nid # NoNid
  <2>1. PICK e \in S : i = [id |-> e.id, nid |-> e.nid]
    BY DEF ItemsOf
  <2>2. e.nid \in Nid
    BY DEF TypeOK, Entry
  <2> QED  BY <2>1, <2>2, NidAssumption
<1> QED  BY <1>1, <1>2

(* A task that begins, or follows another, has read nothing. *)
LEMMA BeginGone ==
  /\ \A k : TaskGone(Begin(k))
  /\ \A g : TaskGone(Following(g)) /\ TaskGone(AfterError(g))
<1>1. \A k : TaskGone(Begin(k))
  BY DEF TaskGone, Begin
<1> QED  BY <1>1 DEF Following, AfterError

(* A read keeps what was loaded before. *)
LEMMA FetchedTaskGone ==
  ASSUME DeliveryTypeOK, GoneInv, NEW g \in Goroutine, NEW items,
         \A i \in items : i.nid = NoNid => Gone(i.id)
  PROVE  TaskGone(Fetched(g, items))
<1>1. CASE items = {}
  BY <1>1, BeginGone DEF Fetched
<1>2. CASE items # {}
  <2>1. Fetched(g, items) = [task[g] EXCEPT !.step = "load", !.toLoad = items]
    BY <1>2 DEF Fetched
  <2>2. Fetched(g, items).toLoad = items /\ Fetched(g, items).loaded = task[g].loaded
    BY <2>1 DEF DeliveryTypeOK, Task
  <2> QED  BY <2>2 DEF TaskGone, GoneInv
<1> QED  BY <1>1, <1>2

(* Loading adds a push, which is read when it is cleared. *)
LEMMA LoadedTaskGone ==
  ASSUME GoneInv, NEW g \in Goroutine, task[g].step = "load", NEW i, NEW pushes,
         \A m \in pushes : m.cleared => m.read
  PROVE  TaskGone(LoadedTask(g, i, pushes))
<1>1. CASE task[g].toLoad \ {i} = {} /\ task[g].loaded \union pushes = {}
  BY <1>1, BeginGone DEF LoadedTask
<1>2. CASE ~(task[g].toLoad \ {i} = {} /\ task[g].loaded \union pushes = {})
  <2>1. /\ LoadedTask(g, i, pushes).toLoad = task[g].toLoad \ {i}
        /\ LoadedTask(g, i, pushes).loaded = task[g].loaded \union pushes
    BY <1>2 DEF LoadedTask
  <2> QED  BY <2>1 DEF TaskGone, GoneInv
<1> QED  BY <1>1, <1>2

(* Every goroutine's step leaves such a task behind. *)
LEMMA TaskGoneStep ==
  ASSUME DeliveryTypeOK, GoneInv, StreamInv, GroupInv,
         NEW g \in Goroutine, GoroutineStep(g) \/ GoroutineError(g)
  PROVE  \E t : TaskGone(t) /\ task' = [task EXCEPT ![g] = t]
<1> USE DEF DeliveryTypeOK
<1>1. CASE ReadPendingMessages(g)
  BY <1>1, FetchedGone, FetchedTaskGone DEF ReadPendingMessages
<1>2. CASE RangeLastMessages(g)
  <2>1. \A k : Newest(stream, k) \in SUBSET stream
    BY DEF Newest
  <2>2. \A k \in Limits(g) : \A i \in HistoryItems(k) : i.nid # NoNid
    BY <2>1, FetchedGone DEF HistoryItems
  <2> QED  BY <1>2, <2>2, FetchedTaskGone DEF RangeLastMessages
<1>3. CASE LoopStart(g)
  <2>1. TaskGone(LoopRound(g))
    BY BeginGone DEF LoopRound, TaskGone, GoneInv, Task
  <2> QED  BY <1>3, <2>1 DEF LoopStart
<1>4. CASE LoopRead(g)
  <2>1. NewBatch \in SUBSET stream
    BY DEF NewBatch, Undelivered
  <2>2. \A i \in ItemsOf(NewBatch) : i.nid # NoNid
    BY <2>1, FetchedGone
  <2> QED  BY <1>4, <2>2, FetchedTaskGone DEF LoopRead
<1>5. CASE LoopTimeout(g)
  BY <1>5, BeginGone DEF LoopTimeout
<1>6. CASE GetNotification(g)
  <2>1. PICK i \in OldestOf(task[g].toLoad) :
          task' = [task EXCEPT ![g] = LoadedTask(g, i, {PushOf(i)})]
    BY <1>6 DEF GetNotification
  <2>2. \A m \in {PushOf(i)} : m.cleared => m.read
    BY DEF PushOf, Unread, Expiry
  <2>3. task[g].step = "load"
    BY <1>6 DEF GetNotification
  <2> QED  BY <2>1, <2>2, <2>3, LoadedTaskGone
<1>7. CASE GetReadStatuses(g)
  <2> DEFINE new == {[m EXCEPT !.read = m.cleared \/ m.nid \in readState] :
                       m \in task[g].loaded}
  <2>1. \A m \in new : m.cleared => m.read
    <3> SUFFICES ASSUME NEW l \in task[g].loaded, NEW m,
                        m = [l EXCEPT !.read = l.cleared \/ l.nid \in readState], m.cleared
                 PROVE  m.read
      OBVIOUS
    <3>1. l \in Push
      BY DEF Task
    <3>2. m.read = (l.cleared \/ l.nid \in readState) /\ m.cleared = l.cleared
      BY <3>1 DEF Push
    <3> QED  BY <3>2
  <2> HIDE DEF new
  <2>2. TaskGone([task[g] EXCEPT !.step = "push", !.loaded = new])
    BY <2>1 DEF TaskGone, GoneInv, Task
  <2>3. task' = [task EXCEPT ![g] = [task[g] EXCEPT !.step = "push", !.loaded = new]]
    BY <1>7 DEF GetReadStatuses, new
  <2> QED  BY <2>2, <2>3
<1>8. CASE WriteJSON(g)
  <2>1. PICK m \in OldestOf(task[g].loaded) :
          \/ task' = [task EXCEPT ![g] = PushedTask(g, m)]
          \/ task' = [task EXCEPT ![g] = AfterError(g)]
    BY <1>8 DEF WriteJSON
  <2>2. TaskGone(PushedTask(g, m))
    BY BeginGone DEF PushedTask, TaskGone, GoneInv, Task
  <2> QED  BY <2>1, <2>2, BeginGone
<1>9. CASE ReadFails(g) \/ LoopReplyLost(g)
  BY <1>9, BeginGone DEF ReadFails, LoopReplyLost
<1>10. CASE GetFails(g)
  <2>1. PICK i \in OldestOf(task[g].toLoad) :
          task' = [task EXCEPT ![g] =
            LoadedTask(g, i, IF task[g].kind = "history" THEN {Expiry(i)} ELSE {})]
    BY <1>10 DEF GetFails
  <2>2. \A m \in (IF task[g].kind = "history" THEN {Expiry(i)} ELSE {}) : m.cleared => m.read
    BY DEF Expiry
  <2>3. task[g].step = "load"
    BY <1>10 DEF GetFails
  <2> QED  BY <2>1, <2>2, <2>3, LoadedTaskGone
<1> QED
  BY <1>1, <1>2, <1>3, <1>4, <1>5, <1>6, <1>7, <1>8, <1>9, <1>10
  DEF GoroutineStep, GoroutineError

(* GoneInv: whatever a task holds without an entry stays without it. *)
LEMMA GoneNext ==
  ASSUME DeliveryTypeOK, SentInv, GoneInv, IdInv, StreamInv, GroupInv, [DeliveryNext]_dvars
  PROVE  GoneInv'
<1>1. [Next]_vars
  BY StepRefines DEF dvars
<1>2. ASSUME NEW t, TaskGone(t), \A i \in t.toLoad : i.id \in Nat  PROVE TaskGone(t)'
  BY <1>1, <1>2, GoneStays DEF TaskGone, DeliveryTypeOK
<1>3. ASSUME NEW t, NEW g \in Goroutine, TaskGone(t), task' = [task EXCEPT ![g] = t]
      PROVE  GoneInv'
  <2>1. \A h \in Goroutine : TaskGone(task'[h])
    BY <1>3 DEF GoneInv, DeliveryTypeOK
  <2>2. \A h \in Goroutine : \A i \in task'[h].toLoad : i.id \in Nat
    BY DeliveryNextType DEF DeliveryTypeOK, Task, Item
  <2> QED  BY <1>2, <2>1, <2>2 DEF GoneInv, TaskGone
<1>4. ASSUME NEW g \in Goroutine, GoroutineStep(g) \/ GoroutineError(g)
      PROVE  GoneInv'
  BY <1>3, <1>4, TaskGoneStep
<1>5. CASE UNCHANGED task
  <2>1. \A h \in Goroutine : \A i \in task[h].toLoad : i.id \in Nat
    BY DEF DeliveryTypeOK, Task, Item
  <2> QED  BY <1>2, <1>5, <2>1 DEF GoneInv, TaskGone
<1>6. ASSUME NEW c \in Conn, ClientStep(c) \/ SessionStep(c)
      PROVE  GoneInv'
  <2>1. \A r \in Role : <<c, r>> \in Goroutine
    BY DEF Goroutine
  <2>2. CASE ClientAcks(c)
    <3>1. PICK i :
            task' = [task EXCEPT ![<<c, "client">>] = [Begin("ack") EXCEPT !.toLoad = {i}]]
      BY <2>2 DEF ClientAcks
    <3>2. TaskGone([Begin("ack") EXCEPT !.toLoad = {i}])
      BY DEF TaskGone, Begin
    <3>3. <<c, "client">> \in Goroutine
      BY <2>1 DEF Role
    <3> QED  BY <1>3, <3>1, <3>2, <3>3
  <2>3. CASE \E r \in Role, k \in Kind : task' = [task EXCEPT ![<<c, r>>] = Begin(k)]
    <3>1. PICK r \in Role, k \in Kind : task' = [task EXCEPT ![<<c, r>>] = Begin(k)]
      BY <2>3
    <3> QED  BY <1>3, <2>1, <3>1, BeginGone
  <2> QED
    BY <1>5, <1>6, <2>2, <2>3 DEF ClientStep, SessionStep, Connect, AckReturns,
       ClientSetsRetention, ClientSyncs, ClientStops, PeerLeaves, Displaced,
       HandlerReturns, Close, sessions, Role, Kind
<1>7. CASE Environment \/ UNCHANGED dvars
  BY <1>5, <1>7 DEF Environment, sessions, dvars
<1> QED  BY <1>4, <1>6, <1>7 DEF DeliveryNext

(* Only a GET makes a cleared push while no request fails. *)
LEMMA ClearedByGet ==
  ASSUME DeliveryTypeOK, GoneInv, DeliveryNext, NEW g \in Goroutine,
         NEW m \in task'[g].loaded \ task[g].loaded,
         m.cleared, errors' = 0, handler[ConnOf(g)] = "running"
  PROVE  task[g].step = "load" /\ \E i \in task[g].toLoad : m = PushOf(i)
<1> USE DEF DeliveryTypeOK
<1>1. \A k : Begin(k).loaded = {}
  BY DEF Begin
<1>2. \A h : Following(h).loaded = {} /\ AfterError(h).loaded = {}
  BY <1>1 DEF Following, AfterError
<1>3. task[g] \in Task
  OBVIOUS
<1>4. ASSUME NEW c \in Conn, ClientStep(c) \/ SessionStep(c)  PROVE FALSE
  <2>1. ASSUME NEW r, NEW k, task' = [task EXCEPT ![<<c, r>>] = Begin(k)]  PROVE FALSE
    BY <1>1, <2>1
  <2>2. ASSUME ClientAcks(c)  PROVE FALSE
    <3>1. PICK i : task' = [task EXCEPT ![<<c, "client">>] = [Begin("ack") EXCEPT !.toLoad = {i}]]
      BY <2>2 DEF ClientAcks
    <3>2. [Begin("ack") EXCEPT !.toLoad = {i}].loaded = {}
      BY DEF Begin
    <3> QED  BY <3>1, <3>2
  <2> QED  BY <1>4, <2>1, <2>2 DEF ClientStep, SessionStep, Connect, AckReturns,
       ClientSetsRetention, ClientSyncs, ClientStops, PeerLeaves, Displaced,
       HandlerReturns, Close, sessions
<1>5. CASE Environment
  BY <1>5 DEF Environment, sessions
<1>6. ASSUME NEW h \in Goroutine, h # g, GoroutineStep(h) \/ GoroutineError(h)  PROVE FALSE
  <2>1. task'[g] = task[g]
    BY <1>6 DEF GoroutineStep, GoroutineError, ReadPendingMessages, RangeLastMessages,
       LoopStart, LoopRead, LoopTimeout, GetNotification, GetReadStatuses, WriteJSON,
       ReadFails, LoopReplyLost, GetFails
  <2> QED  BY <2>1
<1>7. CASE GoroutineStep(g) \/ GoroutineError(g)
  <2>1. ASSUME NEW items, task' = [task EXCEPT ![g] = Fetched(g, items)]  PROVE FALSE
    <3>1. Fetched(g, items).loaded \subseteq task[g].loaded
      BY <1>2, <1>3 DEF Fetched, Task
    <3> QED  BY <2>1, <3>1
  <2>2. ASSUME NEW t, task' = [task EXCEPT ![g] = t], t.loaded \subseteq task[g].loaded  PROVE FALSE
    BY <2>2
  <2>3. ~GetFails(g)
    BY DEF GetFails, Error
  <2>4. CASE GetNotification(g)
    <3>1. PICK i \in task[g].toLoad : task' = [task EXCEPT ![g] = LoadedTask(g, i, {PushOf(i)})]
      BY <2>4 DEF GetNotification, OldestOf
    <3>2. LoadedTask(g, i, {PushOf(i)}).loaded \subseteq task[g].loaded \union {PushOf(i)}
      BY <1>2 DEF LoadedTask
    <3>3. m \in task[g].loaded \union {PushOf(i)}
      BY <3>1, <3>2
    <3> QED  BY <2>4, <3>3 DEF GetNotification
  <2>5. CASE GetReadStatuses(g)
    <3>1. task'[g] = [task[g] EXCEPT !.step = "push", !.loaded =
            {[l EXCEPT !.read = l.cleared \/ l.nid \in readState] : l \in task[g].loaded}]
      BY <2>5 DEF GetReadStatuses
    <3>2. task'[g].loaded =
            {[l EXCEPT !.read = l.cleared \/ l.nid \in readState] : l \in task[g].loaded}
      BY <1>3, <3>1 DEF Task
    <3>3. PICK l \in task[g].loaded : m = [l EXCEPT !.read = l.cleared \/ l.nid \in readState]
      BY <3>2
    <3>4. l \in Push /\ l.cleared /\ l.read
      <4>1. l \in Push
        BY <1>3 DEF Task
      <4>2. m.cleared = l.cleared
        BY <3>3, <4>1 DEF Push
      <4> QED  BY <4>1, <4>2 DEF GoneInv, TaskGone
    <3>5. l.read = TRUE /\ (l.cleared \/ l.nid \in readState) = TRUE
      BY <3>4 DEF Push
    <3>6. m = l
      BY <3>3, <3>4, <3>5 DEF Push
    <3> QED  BY <3>6
  <2>6. CASE WriteJSON(g)
    <3>1. PICK l \in task[g].loaded :
            task' = [task EXCEPT ![g] = PushedTask(g, l)] \/ task' = [task EXCEPT ![g] = AfterError(g)]
      BY <2>6 DEF WriteJSON, OldestOf
    <3>2. PushedTask(g, l).loaded \subseteq task[g].loaded
      BY <1>2, <1>3 DEF PushedTask, Task
    <3> QED  BY <1>2, <2>2, <3>1, <3>2
  <2>7. CASE LoopStart(g) \/ LoopTimeout(g) \/ ReadFails(g) \/ LoopReplyLost(g)
    <3>1. LoopRound(g).loaded \subseteq task[g].loaded
      BY <1>1, <1>3 DEF LoopRound, Task
    <3> QED  BY <1>1, <1>2, <2>2, <2>7, <3>1 DEF LoopStart, LoopTimeout, ReadFails, LoopReplyLost
  <2>8. CASE ReadPendingMessages(g) \/ RangeLastMessages(g) \/ LoopRead(g)
    BY <2>1, <2>8 DEF ReadPendingMessages, RangeLastMessages, LoopRead
  <2> QED  BY <1>7, <2>3, <2>4, <2>5, <2>6, <2>7, <2>8 DEF GoroutineStep, GoroutineError
<1> QED  BY <1>4, <1>5, <1>6, <1>7 DEF DeliveryNext

(* A message that a session marks as cleared has had its time, or its      *)
(* entry has left the stream, while no request fails: for any number of    *)
(* sessions, janitors, trimmers and notifications.                         *)
THEOREM ClearedAreExpired == DeliverySpec => ClearedIsExpired
<1> DEFINE Clears == \A g \in Goroutine : \A m \in task'[g].loaded \ task[g].loaded :
                       m.cleared /\ errors' = 0 /\ handler[ConnOf(g)] = "running" =>
                         \A s \in sent : s.id = m.id =>
                           \/ now > born[s.nid] + TTL - Tolerance
                           \/ \A e \in stream : e.id # m.id
           Inv == DeliveryTypeOK /\ SentInv /\ GoneInv /\ IdInv /\ GroupInv
<1>1. DeliveryInit => DeliveryTypeOK /\ SentInv
  BY DeliveryInitType DEF DeliveryInit, Init, SentInv, Begin
<1>2. DeliveryInit => GoneInv /\ IdInv /\ GroupInv
  BY BeginGone DEF DeliveryInit, Init, GoneInv, IdInv, GroupInv
<1>3. ASSUME Inv, IInv, [DeliveryNext]_dvars  PROVE Inv'
  <2>1. [Next]_vars
    BY <1>3, StepRefines DEF dvars
  <2>2. DeliveryTypeOK' /\ SentInv'
    BY <1>3, DeliveryNextType, SentNext
  <2>3. GoneInv' /\ IdInv' /\ GroupInv'
    BY <1>3, <2>1, GoneNext, IdNext, GroupStep DEF IInv
  <2> QED  BY <2>2, <2>3
<1>4. ASSUME Inv, IInv, DeliveryNext  PROVE Clears
  <2> SUFFICES ASSUME NEW g \in Goroutine, NEW m \in task'[g].loaded \ task[g].loaded,
                      m.cleared, errors' = 0, handler[ConnOf(g)] = "running",
                      NEW s \in sent, s.id = m.id
               PROVE  \/ now > born[s.nid] + TTL - Tolerance
                      \/ \A e \in stream : e.id # m.id
    OBVIOUS
  <2>1. PICK i \in task[g].toLoad : task[g].step = "load" /\ m = PushOf(i)
    BY <1>4, ClearedByGet
  <2>2. m.id = i.id /\ (i.nid = NoNid \/ ~(payload[i.nid] > now))
    BY <2>1 DEF PushOf, Unread, Expiry
  <2>3. CASE i.nid = NoNid
    BY <1>4, <2>1, <2>2, <2>3 DEF GoneInv, TaskGone, Gone
  <2>4. CASE i.nid # NoNid
    <3>1. i \in sent /\ i = s
      BY <1>4, <2>2, <2>4, NamedWasSent DEF SentInv, IdInv
    <3>2. s.nid \in Nid /\ born[s.nid] # 0
      BY <1>4 DEF IdInv, DeliveryTypeOK, TypeOK, Message
    <3>3. ~(payload[s.nid] > now) /\ now \in Nat /\ payload[s.nid] \in Nat /\ born[s.nid] \in Nat
      BY <1>4, <2>2, <2>4, <3>1, <3>2 DEF DeliveryTypeOK, TypeOK
    <3>4. \/ payload[s.nid] = born[s.nid] + TTL
          \/ now > born[s.nid] + TTL - Tolerance
      BY <1>4, <3>2 DEF IInv, PayloadInv
    <3>5. Tolerance \in Nat \ {0} /\ TTL \in Nat
      BY TimeAssumption DEF Tolerance
    <3>6. CASE payload[s.nid] = born[s.nid] + TTL
      BY <3>3, <3>5, <3>6
    <3> QED  BY <3>4, <3>6
  <2> QED  BY <2>3, <2>4
<1>5. DeliverySpec => []IInv
  BY Refinement, Invariance, PTL DEF RepositorySpec
<1>6. Inv /\ IInv /\ [DeliveryNext]_dvars => [Clears]_dvars
  BY <1>4
<1>7. DeliveryInit => Inv
  BY <1>1, <1>2
<1>8. Inv /\ IInv /\ [DeliveryNext]_dvars => Inv'
  BY <1>3
<1>9. DeliverySpec => [][Clears]_dvars
  <2> HIDE DEF Inv, Clears
  <2> QED  BY <1>5, <1>6, <1>7, <1>8, PTL DEF DeliverySpec
<1> QED  BY <1>9 DEF ClearedIsExpired
=============================================================================
