------------------------- MODULE DeliverySync_proofs -------------------------
(***************************************************************************)
(* Proofs about Delivery: no message falls between the parts of a session. *)
(* The inductive invariant follows every entry of the stream through a     *)
(* session: from the history that is read, over the payloads and pushes in *)
(* hand, to what the client was shown and the live loop.  Two more follow  *)
(* the group over the sessions that read from it, and the marks of what    *)
(* was read from the client that confirms to the client that is shown.     *)
(***************************************************************************)
EXTENDS Delivery_proofs, Mailbox_proofs

Reader(c) == task[<<c, "delivery">>]

(* The shape of the tasks of goroutine g, by kind and step.  Only the       *)
(* delivery goroutine reads from the group, and only the other confirms.   *)
Shape(g, t) ==
  /\ t.step \in {"start", "block"} /\ t.kind # "ack" => t.toLoad = {} /\ t.loaded = {}
  /\ t.step \in {"status", "push"} => t.toLoad = {}
  /\ t.kind \in {"idle", "ack", "done"} => t.step = "start"
  /\ g[2] = "delivery" => t.kind # "ack"
  /\ g[2] = "client" => t.kind \notin {"pending", "new"}

ShapeInv == \A g \in Goroutine : Shape(g, task[g])

(* XADD never leaves more than MaxLen entries. *)
SizeInv == \A e \in stream : Cardinality({f \in stream : f.id > e.id}) < MaxLen

(* A session connects to entries of the past. *)
ConnectInv == \A c \in Conn : \A id \in atConnect[c] : id <= lastId

Attached(c) == socket[c] = "open" /\ handler[c] = "running"

(* The session has read its history. *)
HasHistory(c) == Reader(c).kind = "new" \/ (Reader(c).kind = "history" /\ Reader(c).step # "start")

TookElsewhere(c, id) == \E d \in Conn \ {c} : id \in took[d]

(* What a session that has read its history owes its client of an entry:   *)
(* it has shown it or is about to, unless another session has taken it.    *)
Paid(c, e) ==
  /\ e.id \in atConnect[c] =>
       Shown(c, e.id) \/ (Reader(c).kind = "history" /\ InHand(c, e.id))
  /\ e.id > group \/ InHand(c, e.id) \/ Shown(c, e.id) \/ TookElsewhere(c, e.id)

SyncInv ==
  errors = 0 =>
    \A c \in Conn : Attached(c) /\ HasHistory(c) => \A e \in stream : Paid(c, e)

SyncIInv == ShapeInv /\ SizeInv /\ ConnectInv /\ SyncInv

-----------------------------------------------------------------------------
(* A goroutine that has more to do begins it; the client's goroutine only  *)
(* comes to this from a synchronisation.                                   *)
LEMMA FollowingShape ==
  ASSUME DeliveryTypeOK, NEW g \in Goroutine, Shape(g, task[g]),
         task[g].step # "start" \/ task[g].kind \notin {"idle", "ack", "done"}
  PROVE  Shape(g, Following(g)) /\ Shape(g, AfterError(g))
<1>1. g[2] \in {"delivery", "client"}
  BY DEF Goroutine, Role
<1>2. \A k \in {"history", "new", "done"} : g[2] = "delivery" => Shape(g, Begin(k))
  BY DEF Shape, Begin
<1>3. \A k \in {"idle", "done"} : g[2] = "client" => Shape(g, Begin(k))
  BY DEF Shape, Begin
<1>4. task[g].kind = "history" =>
        Following(g) = IF g[2] = "client" THEN Begin("idle") ELSE Begin("new")
  BY DEF Following
<1>5. task[g].kind # "history" => Following(g) \in {Begin("history"), Begin("new")}
  BY DEF Following
<1>6. g[2] = "client" => task[g].kind = "history"
  BY DEF Shape, DeliveryTypeOK, Task, Kind
<1> QED  BY <1>1, <1>2, <1>3, <1>4, <1>5, <1>6 DEF AfterError

(* What is read gives a task the shape of one that loads. *)
LEMMA FetchedShape ==
  ASSUME DeliveryTypeOK, NEW g \in Goroutine, Shape(g, task[g]), NEW items,
         task[g].kind \notin {"idle", "ack", "done"}
  PROVE  Shape(g, Fetched(g, items))
<1>1. CASE items = {}
  BY <1>1, FollowingShape DEF Fetched
<1>2. CASE items # {}
  <2>1. Fetched(g, items) = [task[g] EXCEPT !.step = "load", !.toLoad = items]
    BY <1>2 DEF Fetched
  <2>2. Fetched(g, items).step = "load" /\ Fetched(g, items).kind = task[g].kind
    BY <2>1 DEF DeliveryTypeOK, Task
  <2> QED  BY <2>2 DEF Shape
<1> QED  BY <1>1, <1>2

(* A task keeps its shape when a payload has been loaded. *)
LEMMA LoadedShape ==
  ASSUME DeliveryTypeOK, NEW g \in Goroutine, Shape(g, task[g]), NEW i, NEW pushes,
         task[g].step = "load"
  PROVE  Shape(g, LoadedTask(g, i, pushes))
<1>1. CASE task[g].toLoad \ {i} = {} /\ task[g].loaded \union pushes = {}
  BY <1>1, FollowingShape DEF LoadedTask
<1>2. CASE ~(task[g].toLoad \ {i} = {} /\ task[g].loaded \union pushes = {})
  <2>1. /\ LoadedTask(g, i, pushes).kind = task[g].kind
        /\ LoadedTask(g, i, pushes).step = "load" \/
             /\ LoadedTask(g, i, pushes).step \in {"status", "push"}
             /\ LoadedTask(g, i, pushes).toLoad = {}
    BY <1>2 DEF LoadedTask
  <2> QED  BY <2>1 DEF Shape
<1> QED  BY <1>1, <1>2

(* The steps of a goroutine keep the shape of its task. *)
LEMMA ShapeStep ==
  ASSUME DeliveryTypeOK, ShapeInv, NEW g \in Goroutine, GoroutineStep(g) \/ GoroutineError(g)
  PROVE  \E t : Shape(g, t) /\ task' = [task EXCEPT ![g] = t]
<1> USE DEF DeliveryTypeOK
<1>1. Shape(g, task[g]) /\ task[g] \in Task
  BY DEF ShapeInv
<1>2. CASE ReadPendingMessages(g) \/ RangeLastMessages(g) \/ LoopRead(g)
  BY <1>1, <1>2, FetchedShape DEF ReadPendingMessages, RangeLastMessages, LoopRead, At
<1>3. CASE LoopStart(g)
  <2>1. Shape(g, LoopRound(g))
    BY <1>1, <1>3 DEF LoopStart, At, LoopRound, Shape, Begin, Task
  <2> QED  BY <1>3, <2>1 DEF LoopStart
<1>4. CASE LoopTimeout(g)
  <2>1. Shape(g, Begin("new"))
    BY <1>1, <1>4 DEF LoopTimeout, At, Shape, Begin
  <2> QED  BY <1>4, <2>1 DEF LoopTimeout
<1>5. CASE GetNotification(g) \/ GetFails(g)
  BY <1>1, <1>5, LoadedShape DEF GetNotification, GetFails
<1>6. CASE GetReadStatuses(g)
  <2>1. PICK new : task' = [task EXCEPT ![g] = [task[g] EXCEPT !.step = "push", !.loaded = new]]
    BY <1>6 DEF GetReadStatuses
  <2>2. Shape(g, [task[g] EXCEPT !.step = "push", !.loaded = new])
    BY <1>1, <1>6 DEF GetReadStatuses, Shape, Task
  <2> QED  BY <2>1, <2>2
<1>7. CASE WriteJSON(g)
  <2>1. PICK m : \/ task' = [task EXCEPT ![g] = PushedTask(g, m)]
                 \/ task' = [task EXCEPT ![g] = AfterError(g)]
    BY <1>7 DEF WriteJSON
  <2>2. task[g].step = "push"
    BY <1>7 DEF WriteJSON
  <2>3. Shape(g, Following(g)) /\ Shape(g, AfterError(g))
    BY <1>1, <2>2, FollowingShape
  <2>4. Shape(g, PushedTask(g, m))
    BY <1>1, <2>2, <2>3 DEF PushedTask, Shape, Task
  <2> QED  BY <2>1, <2>3, <2>4
<1>8. CASE ReadFails(g) \/ LoopReplyLost(g)
  <2>1. Shape(g, AfterError(g))
    BY <1>1, <1>8, FollowingShape DEF ReadFails, LoopReplyLost, At
  <2> QED  BY <1>8, <2>1 DEF ReadFails, LoopReplyLost
<1> QED
  BY <1>2, <1>3, <1>4, <1>5, <1>6, <1>7, <1>8 DEF GoroutineStep, GoroutineError

(* ShapeInv: so do all steps. *)
LEMMA ShapeNext ==
  ASSUME DeliveryTypeOK, ShapeInv, [DeliveryNext]_dvars
  PROVE  ShapeInv'
<1>1. ASSUME NEW g \in Goroutine, NEW t, Shape(g, t), task' = [task EXCEPT ![g] = t]
      PROVE  ShapeInv'
  BY <1>1 DEF ShapeInv, Shape, DeliveryTypeOK
<1>2. ASSUME NEW g \in Goroutine, GoroutineStep(g) \/ GoroutineError(g)
      PROVE  ShapeInv'
  BY <1>1, <1>2, ShapeStep
<1>3. ASSUME NEW c \in Conn, ClientStep(c) \/ SessionStep(c)
      PROVE  ShapeInv'
  <2>1. <<c, "client">> \in Goroutine /\ <<c, "delivery">> \in Goroutine
    BY DEF Goroutine, Role
  <2>2. CASE ClientAcks(c)
    <3>1. PICK i : task' = [task EXCEPT ![<<c, "client">>] = [Begin("ack") EXCEPT !.toLoad = {i}]]
      BY <2>2 DEF ClientAcks
    <3>2. Shape(<<c, "client">>, [Begin("ack") EXCEPT !.toLoad = {i}])
      BY DEF Shape, Begin
    <3> QED  BY <1>1, <2>1, <3>1, <3>2
  <2>3. CASE Connect(c)
    <3>1. Shape(<<c, "delivery">>, Begin("pending"))
      BY DEF Shape, Begin
    <3> QED  BY <1>1, <2>1, <2>3, <3>1 DEF Connect
  <2>4. CASE AckReturns(c) \/ ClientSyncs(c) \/ ClientStops(c)
    <3>1. \A k \in {"idle", "history", "done"} : Shape(<<c, "client">>, Begin(k))
      BY DEF Shape, Begin
    <3> QED  BY <1>1, <2>1, <2>4, <3>1 DEF AckReturns, ClientSyncs, ClientStops
  <2>5. CASE UNCHANGED task
    BY <2>5 DEF ShapeInv, Shape
  <2> QED
    BY <1>3, <2>2, <2>3, <2>4, <2>5 DEF ClientStep, SessionStep, ClientSetsRetention,
       PeerLeaves, Displaced, HandlerReturns, Close, sessions
<1>4. CASE Environment \/ UNCHANGED dvars
  BY <1>4 DEF Environment, sessions, dvars, ShapeInv, Shape
<1> QED  BY <1>2, <1>3, <1>4 DEF DeliveryNext

-----------------------------------------------------------------------------
(* Entries leave the stream, or an XADD brings one and keeps the newest. *)
LEMMA SizeNext ==
  ASSUME TypeOK, StreamInv, SizeInv, [Next]_vars
  PROVE  SizeInv'
<1> DEFINE Newer(S, e) == {f \in S : f.id > e.id}
<1>1. ASSUME NEW S, IsFiniteSet(S), stream' \subseteq S,
             \A e \in stream' : Cardinality(Newer(S, e)) < MaxLen
      PROVE  SizeInv'
  <2> SUFFICES ASSUME NEW e \in stream'  PROVE Cardinality(Newer(stream', e)) < MaxLen
    BY DEF SizeInv
  <2>1. Newer(stream', e) \subseteq Newer(S, e) /\ IsFiniteSet(Newer(S, e))
    BY <1>1, FS_Subset
  <2>2. /\ IsFiniteSet(Newer(stream', e))
        /\ Cardinality(Newer(stream', e)) <= Cardinality(Newer(S, e))
    BY <2>1, FS_Subset
  <2>3. Cardinality(Newer(stream', e)) \in Nat /\ Cardinality(Newer(S, e)) \in Nat
    BY <2>1, <2>2, FS_CardinalityType
  <2> QED  BY <1>1, <2>2, <2>3, LimitAssumption
<1>2. CASE stream' \subseteq stream
  BY <1>1, <1>2 DEF SizeInv, StreamInv
<1>3. ASSUME NEW n \in Nid, XAdd(n)  PROVE SizeInv'
  <2> DEFINE S == stream \union {[id |-> lastId + 1, nid |-> n, at |-> now]}
  <2>1. IsFiniteSet(S)
    BY FS_AddElement DEF StreamInv
  <2>2. stream' = Newest(S, MaxLen)
    BY <1>3 DEF XAdd
  <2> QED  BY <1>1, <2>1, <2>2 DEF Newest
<1> QED  BY <1>2, <1>3, StreamStep

(* The history that a session starts with is the whole stream. *)
LEMMA HistoryIsAll ==
  ASSUME TypeOK, StreamInv, SizeInv  PROVE HistoryItems(HistoryCount) = ItemsOf(stream)
<1> SUFFICES ASSUME NEW e \in stream
             PROVE  Cardinality({f \in stream : f.id > e.id}) < HistoryCount
  BY DEF HistoryItems, Newest
<1>1. IsFiniteSet({f \in stream : f.id > e.id})
  BY FS_Subset DEF StreamInv
<1>2. Cardinality({f \in stream : f.id > e.id}) \in Nat
  BY <1>1, FS_CardinalityType
<1> QED  BY <1>2, HistoryAssumption, LimitAssumption, DeliveryAssumption DEF SizeInv
-----------------------------------------------------------------------------
(* ConnectInv: IDs only grow. *)
LEMMA ConnectNext ==
  ASSUME DeliveryTypeOK, SentInv, IdInv, StreamInv, ConnectInv, [DeliveryNext]_dvars
  PROVE  ConnectInv'
<1>1. lastId' >= lastId /\ lastId \in Nat /\ lastId' \in Nat
  <2>1. [Next]_vars
    BY StepRefines DEF dvars
  <2> QED  BY <2>1, IdNext, NextType DEF DeliveryTypeOK, TypeOK
<1>2. \/ UNCHANGED atConnect
      \/ \E c \in Conn : atConnect' = [atConnect EXCEPT ![c] = {e.id : e \in stream}]
  BY DEF DeliveryNext, dvars, sessions, history, Environment, GoroutineStep, GoroutineError,
     ReadPendingMessages, RangeLastMessages, LoopStart, LoopRead, LoopTimeout,
     GetNotification, GetReadStatuses, WriteJSON, ReadFails, LoopReplyLost, GetFails,
     ClientStep, SessionStep, Connect, ClientAcks, AckReturns, ClientSetsRetention,
     ClientSyncs, ClientStops, PeerLeaves, Displaced, HandlerReturns, Close
<1>3. \A id \in {e.id : e \in stream} : id \in Nat /\ id <= lastId
  BY DEF StreamInv, DeliveryTypeOK, TypeOK, Entry
<1>4. \A c \in Conn : \A id \in atConnect'[c] : id \in Nat /\ id <= lastId
  BY <1>2, <1>3 DEF ConnectInv, DeliveryTypeOK
<1> QED  BY <1>1, <1>4 DEF ConnectInv

(* What a step did not give to the session's own reader stays paid: an     *)
(* entry that appears is ahead of the group, and the group passes one only *)
(* when another session takes it.                                          *)
LEMMA StaysPaid ==
  ASSUME DeliveryTypeOK, StreamInv, ConnectInv, [Next]_vars, NEW c \in Conn,
         \A e \in stream : Paid(c, e),
         Reader(c)' = Reader(c), got[c] \subseteq got'[c], atConnect'[c] = atConnect[c],
         \A d \in Conn : took[d] \subseteq took'[d],
         \/ group' = group
         \/ group = NoGroup /\ UNCHANGED stream
         \/ /\ ReadNewMessages
            /\ \E d \in Conn \ {c} : {e.id : e \in NewBatch} \subseteq took'[d],
         NEW e \in stream'
  PROVE  Paid(c, e)'
<1> USE DEF DeliveryTypeOK
<1>1. CASE e \notin stream
  <2>1. PICK n \in Nid : XAdd(n) /\ e = [id |-> lastId + 1, nid |-> n, at |-> now]
    BY <1>1, StreamStep
  <2>2. group' = group /\ e.id = lastId + 1
    BY <2>1 DEF XAdd
  <2>3. group <= lastId /\ lastId \in Nat /\ group \in Int
    BY DEF StreamInv, TypeOK, NoGroup
  <2>4. e.id > group' /\ e.id \notin atConnect'[c]
    BY <2>2, <2>3 DEF ConnectInv
  <2> QED  BY <2>4 DEF Paid
<1>2. CASE e \in stream
  <2>1. Paid(c, e)
    BY <1>2
  <2>2. /\ Shown(c, e.id) => Shown(c, e.id)'
        /\ InHand(c, e.id) => InHand(c, e.id)'
        /\ TookElsewhere(c, e.id) => TookElsewhere(c, e.id)'
    BY DEF Shown, InHand, TookElsewhere, Reader
  <2>3. e.id > group => e.id > group' \/ TookElsewhere(c, e.id)'
    <3>1. CASE group = NoGroup /\ UNCHANGED stream
      BY <1>2, <3>1 DEF StreamInv
    <3>2. ASSUME ReadNewMessages, e.id > group, ~(e.id > group'),
                 NEW d \in Conn \ {c}, {f.id : f \in NewBatch} \subseteq took'[d]
          PROVE  TookElsewhere(c, e.id)'
      <4>1. PICK m \in NewBatch : m.id = group'
        BY <3>2 DEF ReadNewMessages
      <4>2. e \in Undelivered
        BY <1>2, <3>2 DEF Undelivered
      <4>3. m.id \in Nat /\ e.id \in Nat
        BY <1>2 DEF NewBatch, Undelivered, TypeOK, Entry
      <4>4. e \in NewBatch
        BY <3>2, <4>1, <4>2, <4>3, NewBatchIsOldest
      <4> QED  BY <3>2, <4>4 DEF TookElsewhere
    <3> QED  BY <3>1, <3>2
  <2> QED  BY <2>1, <2>2, <2>3 DEF Paid
<1> QED  BY <1>1, <1>2

(* A push is made of every message that is loaded. *)
LEMMA LoadKeeps ==
  ASSUME DeliveryTypeOK, NEW c \in Conn, NEW i, NEW m, m.id = i.id,
         i \in Reader(c).toLoad, Reader(c).step = "load",
         task' = [task EXCEPT ![<<c, "delivery">>] = LoadedTask(<<c, "delivery">>, i, {m})]
  PROVE  /\ Reader(c)'.kind = Reader(c).kind /\ Reader(c)'.step # "start"
         /\ \A id : InHand(c, id) <=> InHand(c, id)'
<1> DEFINE g == <<c, "delivery">>
<1>1. g \in Goroutine /\ Reader(c)' = LoadedTask(g, i, {m})
  BY DEF Goroutine, Role, Reader, DeliveryTypeOK
<1>2. /\ LoadedTask(g, i, {m}).kind = task[g].kind
      /\ LoadedTask(g, i, {m}).step \in {"load", "status", "push"}
      /\ LoadedTask(g, i, {m}).toLoad = task[g].toLoad \ {i}
      /\ LoadedTask(g, i, {m}).loaded = task[g].loaded \union {m}
  BY DEF LoadedTask
<1>3. task'[g] = LoadedTask(g, i, {m})
  BY <1>1 DEF Reader
<1> QED  BY <1>1, <1>2, <1>3 DEF Reader, InHand

(* The statuses change no ID. *)
LEMMA StatusKeeps ==
  ASSUME DeliveryTypeOK, NEW c \in Conn, GetReadStatuses(<<c, "delivery">>)
  PROVE  /\ Reader(c)'.kind = Reader(c).kind /\ Reader(c).step # "start"
         /\ \A id : InHand(c, id) <=> InHand(c, id)'
<1> DEFINE g == <<c, "delivery">>
           read(m) == [m EXCEPT !.read = m.cleared \/ m.nid \in readState]
<1>1. g \in Goroutine /\ task[g] \in Task
  BY DEF Goroutine, Role, DeliveryTypeOK
<1>2. task'[g] = [task[g] EXCEPT !.step = "push", !.loaded = {read(m) : m \in task[g].loaded}]
  BY <1>1 DEF GetReadStatuses, DeliveryTypeOK
<1>3. /\ task'[g].kind = task[g].kind /\ task'[g].toLoad = task[g].toLoad
      /\ task'[g].loaded = {read(m) : m \in task[g].loaded}
  BY <1>1, <1>2 DEF Task
<1>4. \A m \in task[g].loaded : read(m).id = m.id
  BY <1>1 DEF Task, Push
<1> HIDE DEF read
<1>5. \A id : (\E l \in task'[g].loaded : l.id = id) <=> \E m \in task[g].loaded : m.id = id
  BY <1>3, <1>4
<1> QED  BY <1>3, <1>5 DEF Reader, InHand, GetReadStatuses

(* A push that reaches the client is shown; the last one ends the part. *)
LEMMA PushKeeps ==
  ASSUME DeliveryTypeOK, ShapeInv, NEW c \in Conn, WriteJSON(<<c, "delivery">>),
         Attached(c), HasHistory(c)'
  PROVE  /\ HasHistory(c)
         /\ Reader(c)'.kind = "new" \/ Reader(c)'.kind = Reader(c).kind
         /\ \A id : Shown(c, id) => Shown(c, id)'
         /\ \A id : InHand(c, id) => Shown(c, id)' \/ InHand(c, id)'
         /\ Reader(c)'.kind = "new" /\ Reader(c).kind = "history"
              => \A id : InHand(c, id) => Shown(c, id)'
<1> DEFINE g == <<c, "delivery">>
<1>1. g \in Goroutine /\ task[g] \in Task /\ ConnOf(g) = c /\ Shape(g, task[g])
  BY DEF Goroutine, Role, DeliveryTypeOK, ConnOf, ShapeInv
<1>2. task[g].step = "push" /\ task[g].toLoad = {} /\ task[g].kind \in {"pending", "history", "new"}
  BY <1>1 DEF WriteJSON, Shape, Task, Kind
<1>3. PICK m \in task[g].loaded :
        got' = [got EXCEPT ![c] = @ \union {m}] /\ task' = [task EXCEPT ![g] = PushedTask(g, m)]
  BY <1>1 DEF WriteJSON, Attached, OldestOf
<1>4. task'[g] = PushedTask(g, m) /\ got'[c] = got[c] \union {m}
  BY <1>1, <1>3 DEF DeliveryTypeOK
<1>5. /\ \A id : Shown(c, id) => Shown(c, id)'
      /\ Shown(c, m.id)'
  BY <1>4 DEF Shown
<1>6. CASE task[g].loaded = {m}
  <2>1. \A id : InHand(c, id) => id = m.id
    BY <1>2, <1>6 DEF InHand
  <2>2. task'[g] = Following(g)
    BY <1>4, <1>6 DEF PushedTask
  <2>3. task[g].kind # "pending"
    BY <2>2 DEF HasHistory, Reader, Following, Begin
  <2>4. task'[g].kind = "new"
    BY <1>2, <2>2, <2>3 DEF Following, Begin
  <2> QED  BY <1>2, <1>5, <2>1, <2>3, <2>4 DEF HasHistory, Reader
<1>7. CASE task[g].loaded # {m}
  <2>1. task'[g] = [task[g] EXCEPT !.loaded = task[g].loaded \ {m}]
    BY <1>4, <1>7 DEF PushedTask
  <2>2. /\ task'[g].kind = task[g].kind /\ task'[g].step = "push"
        /\ task'[g].loaded = task[g].loaded \ {m} /\ task'[g].toLoad = {}
    BY <1>1, <1>2, <2>1 DEF Task
  <2>3. \A id : InHand(c, id) => id = m.id \/ InHand(c, id)'
    BY <1>2, <2>2 DEF InHand
  <2> QED  BY <1>2, <1>5, <2>2, <2>3 DEF HasHistory, Reader
<1> QED  BY <1>6, <1>7

(* What the steps of a goroutine leave alone. *)
LEMMA ReaderFrame ==
  ASSUME NEW g \in Goroutine, GoroutineStep(g)
  PROVE  /\ UNCHANGED <<stream, socket, handler, errors, atConnect>>
         /\ LoopRead(g) \/ UNCHANGED <<group, took>>
         /\ WriteJSON(g) \/ UNCHANGED got
  BY DEF GoroutineStep, ReadPendingMessages, RangeLastMessages, LoopStart, LoopRead,
     LoopTimeout, GetNotification, GetReadStatuses, WriteJSON, ReadNewMessages, vars, keys, history

(* Whatever the reader of a session does, it keeps what it owes.           *)
LEMMA ReaderPays ==
  ASSUME DeliveryTypeOK, StreamInv, SizeInv, ShapeInv, NEW c \in Conn,
         GoroutineStep(<<c, "delivery">>), Attached(c), HasHistory(c)',
         HasHistory(c) => \A e \in stream : Paid(c, e),
         NEW e \in stream'
  PROVE  Paid(c, e)'
<1> DEFINE g == <<c, "delivery">>
<1> USE DEF DeliveryTypeOK
<1>1. /\ g \in Goroutine /\ task[g] \in Task /\ ConnOf(g) = c /\ Shape(g, task[g])
      /\ g[2] = "delivery"
  BY DEF Goroutine, Role, ConnOf, ShapeInv
<1>2. e \in stream /\ UNCHANGED <<stream, socket, handler, errors, atConnect>>
  BY <1>1, ReaderFrame
<1>3. ASSUME UNCHANGED <<got, group, took>>, Reader(c)'.kind = Reader(c).kind,
             Reader(c).step # "start" \/ Reader(c).kind = "new",
             \A id : InHand(c, id) => InHand(c, id)'
      PROVE  Paid(c, e)'
  <2>1. HasHistory(c)
    BY <1>3 DEF HasHistory
  <2>2. Paid(c, e)
    BY <1>2, <2>1
  <2> QED  BY <1>2, <1>3, <2>2 DEF Paid, Shown, TookElsewhere
<1>4. CASE ReadPendingMessages(g)
  <2>1. task'[g] = Fetched(g, PendingItems) /\ task[g].kind = "pending"
    BY <1>1, <1>4 DEF ReadPendingMessages, At
  <2>2. task'[g] = Begin("history") \/ task'[g].kind = "pending"
    BY <1>1, <2>1 DEF Fetched, Following, Task
  <2> QED  BY <2>2 DEF HasHistory, Reader, Begin
<1>5. CASE RangeLastMessages(g)
  <2>1. task'[g] = Fetched(g, ItemsOf(stream))
    BY <1>1, <1>5, HistoryIsAll DEF RangeLastMessages, Limits
  <2>2. [id |-> e.id, nid |-> e.nid] \in ItemsOf(stream)
    BY <1>2 DEF ItemsOf
  <2>3. task'[g] = [task[g] EXCEPT !.step = "load", !.toLoad = ItemsOf(stream)]
    BY <2>1, <2>2 DEF Fetched
  <2>4. task'[g].kind = "history" /\ task'[g].toLoad = ItemsOf(stream)
    BY <1>1, <1>5, <2>3 DEF RangeLastMessages, At, Task
  <2>5. InHand(c, e.id)' /\ Reader(c)'.kind = "history"
    BY <2>2, <2>4 DEF InHand, Reader
  <2> QED  BY <2>5 DEF Paid
<1>6. CASE LoopStart(g)
  <2>1. task'[g] = [task[g] EXCEPT !.step = "block"] /\ task[g].kind = "new"
    BY <1>1, <1>6 DEF LoopStart, LoopRound, Attached, At
  <2>2. /\ task'[g].kind = "new" /\ task'[g].toLoad = task[g].toLoad
        /\ task'[g].loaded = task[g].loaded
    BY <1>1, <2>1 DEF Task
  <2> QED  BY <1>3, <1>6, <2>1, <2>2 DEF LoopStart, vars, keys, history, Reader, InHand
<1>7. CASE LoopTimeout(g)
  <2>1. /\ task'[g] = Begin("new") /\ task[g].kind = "new"
        /\ task[g].toLoad = {} /\ task[g].loaded = {}
    BY <1>1, <1>7 DEF LoopTimeout, At, Shape
  <2> QED  BY <1>3, <1>7, <2>1 DEF LoopTimeout, vars, keys, history, Reader, InHand, Begin
<1>8. CASE LoopRead(g)
  <2>1. /\ task[g].kind = "new" /\ task[g].toLoad = {} /\ task[g].loaded = {}
        /\ task'[g] = Fetched(g, ItemsOf(NewBatch)) /\ ReadNewMessages
        /\ got' = got /\ \A d \in Conn \ {c} : took'[d] = took[d]
    BY <1>1, <1>8 DEF LoopRead, At, Shape
  <2>2. Paid(c, e) /\ ~InHand(c, e.id)
    BY <1>2, <2>1 DEF HasHistory, Reader, InHand
  <2>3. e.id > group => e.id > group' \/ InHand(c, e.id)'
    <3> SUFFICES ASSUME e.id > group, ~(e.id > group')  PROVE InHand(c, e.id)'
      OBVIOUS
    <3>1. PICK m \in NewBatch : m.id = group'
      BY <2>1 DEF ReadNewMessages
    <3>2. e \in Undelivered
      BY <1>2 DEF Undelivered
    <3>3. m.id \in Nat /\ e.id \in Nat
      BY <1>2 DEF NewBatch, Undelivered, TypeOK, Entry
    <3>4. e \in NewBatch
      BY <3>1, <3>2, <3>3, NewBatchIsOldest
    <3>5. [id |-> e.id, nid |-> e.nid] \in ItemsOf(NewBatch)
      BY <3>4 DEF ItemsOf
    <3>6. task'[g] = [task[g] EXCEPT !.step = "load", !.toLoad = ItemsOf(NewBatch)]
      BY <2>1, <3>5 DEF Fetched
    <3>7. task'[g].toLoad = ItemsOf(NewBatch)
      BY <1>1, <3>6 DEF Task
    <3> QED  BY <3>5, <3>7 DEF InHand
  <2> QED  BY <1>2, <2>1, <2>2, <2>3 DEF Paid, Shown, TookElsewhere
<1>9. CASE GetNotification(g)
  <2>1. PICK i \in task[g].toLoad : task' = [task EXCEPT ![g] = LoadedTask(g, i, {PushOf(i)})]
    BY <1>9 DEF GetNotification, OldestOf
  <2>2. PushOf(i).id = i.id
    BY DEF PushOf, Unread, Expiry
  <2> QED  BY <1>3, <1>9, <2>1, <2>2, LoadKeeps DEF GetNotification, vars, keys, history, Reader
<1>10. CASE GetReadStatuses(g)
  BY <1>3, <1>10, StatusKeeps DEF GetReadStatuses, vars, keys, history
<1>11. CASE WriteJSON(g)
  <2>1. Paid(c, e) /\ UNCHANGED <<group, took>>
    BY <1>2, <1>11, PushKeeps DEF WriteJSON, vars, keys, history
  <2>2. Reader(c)'.kind = "new" \/ Reader(c)'.kind = Reader(c).kind
    BY <1>11, PushKeeps
  <2>3. e.id \in atConnect[c] =>
          Shown(c, e.id)' \/ (Reader(c)'.kind = "history" /\ InHand(c, e.id)')
    BY <1>11, <2>1, <2>2, PushKeeps DEF Paid
  <2>4. InHand(c, e.id) \/ Shown(c, e.id) => InHand(c, e.id)' \/ Shown(c, e.id)'
    BY <1>11, PushKeeps
  <2> QED  BY <1>2, <2>1, <2>3, <2>4 DEF Paid, TookElsewhere
<1> QED
  BY <1>4, <1>5, <1>6, <1>7, <1>8, <1>9, <1>10, <1>11 DEF GoroutineStep

(* What the steps of other goroutines, of other sessions and of the rest   *)
(* of the system leave to a session.                                       *)
Apart(c) ==
  /\ Reader(c)' = Reader(c) /\ got[c] \subseteq got'[c] /\ atConnect'[c] = atConnect[c]
  /\ \A d \in Conn : took[d] \subseteq took'[d]
  /\ \/ group' = group
     \/ group = NoGroup /\ UNCHANGED stream
     \/ /\ ReadNewMessages
        /\ \E d \in Conn \ {c} : {e.id : e \in NewBatch} \subseteq took'[d]

(* Another goroutine reads from the group for its own session only. *)
LEMMA GoroutineApart ==
  ASSUME DeliveryTypeOK, ShapeInv, NEW c \in Conn, NEW g \in Goroutine,
         g # <<c, "delivery">>, GoroutineStep(g) \/ GoroutineError(g)
  PROVE  Apart(c)
<1> USE DEF DeliveryTypeOK
<1>1. PICK d \in Conn, r \in Role : g = <<d, r>>
  BY DEF Goroutine
<1>2. ConnOf(g) = d /\ <<c, "delivery">> \in Goroutine
  BY <1>1 DEF ConnOf, Goroutine, Role
<1>3. PICK t : task' = [task EXCEPT ![g] = t]
  BY ShapeStep
<1>4. Reader(c)' = Reader(c)
  BY <1>2, <1>3 DEF Reader
<1>5. atConnect' = atConnect
  BY DEF GoroutineStep, GoroutineError, ReadPendingMessages, RangeLastMessages, LoopStart,
     LoopRead, LoopTimeout, GetNotification, GetReadStatuses, WriteJSON, ReadFails,
     LoopReplyLost, GetFails, history
<1>6. got' = got \/ \E m : got' = [got EXCEPT ![d] = @ \union {m}]
  BY <1>2 DEF GoroutineStep, GoroutineError, ReadPendingMessages, RangeLastMessages, LoopStart,
     LoopRead, LoopTimeout, GetNotification, GetReadStatuses, WriteJSON, ReadFails,
     LoopReplyLost, GetFails
<1>7. CASE LoopRead(g) \/ LoopReplyLost(g)
  <2>1. ReadNewMessages /\ took' = [took EXCEPT ![d] = @ \union {e.id : e \in NewBatch}]
    BY <1>2, <1>7 DEF LoopRead, LoopReplyLost
  <2>2. task[g].kind = "new"
    BY <1>7 DEF LoopRead, LoopReplyLost, At
  <2>3. d # c
    BY <1>1, <2>2 DEF ShapeInv, Shape, Role
  <2> QED  BY <1>4, <1>5, <1>6, <2>1, <2>3 DEF Apart
<1>8. CASE ~(LoopRead(g) \/ LoopReplyLost(g))
  <2>1. took' = took /\ group' = group
    BY <1>8 DEF GoroutineStep, GoroutineError, ReadPendingMessages, RangeLastMessages, LoopStart,
       LoopTimeout, GetNotification, GetReadStatuses, WriteJSON, ReadFails, GetFails,
       history, vars, keys
  <2> QED  BY <1>4, <1>5, <1>6, <2>1 DEF Apart
<1> QED  BY <1>7, <1>8

(* The other steps of the sessions: only a client that connects may create *)
(* the group.                                                              *)
LEMMA SessionApart ==
  ASSUME DeliveryTypeOK, NEW c \in Conn, NEW d \in Conn, ClientStep(d) \/ SessionStep(d)
  PROVE  Apart(c) \/ Reader(c)' = Begin("pending")
<1> USE DEF DeliveryTypeOK
<1>1. \A b \in Conn, r \in Role : <<b, r>> \in Goroutine
  BY DEF Goroutine
<1>2. CASE Connect(d)
  <2>1. task' = [task EXCEPT ![<<d, "delivery">>] = Begin("pending")]
    BY <1>2 DEF Connect
  <2>2. c = d => Reader(c)' = Begin("pending")
    BY <1>1, <2>1 DEF Reader, Role
  <2>3. c # d => Reader(c)' = Reader(c) /\ atConnect'[c] = atConnect[c]
    BY <1>1, <1>2, <2>1 DEF Reader, Role, Connect
  <2>4. group' = group \/ (group = NoGroup /\ UNCHANGED stream)
    BY <1>2 DEF Connect, EnsureGroup, EnsureConsumerGroup, vars, keys
  <2> QED  BY <1>2, <2>2, <2>3, <2>4 DEF Connect, Apart
<1>3. CASE ~Connect(d)
  <2>1. UNCHANGED <<got, history, group>>
    BY <1>3 DEF ClientStep, SessionStep, ClientAcks, AckReturns, ClientSetsRetention,
       ClientSyncs, ClientStops, PeerLeaves, Displaced, HandlerReturns, Close, sessions,
       vars, keys, AckMessage, SetUserRetentionDays
  <2>2. task' = task \/ \E t : task' = [task EXCEPT ![<<d, "client">>] = t]
    BY <1>3 DEF ClientStep, SessionStep, ClientAcks, AckReturns, ClientSetsRetention,
       ClientSyncs, ClientStops, PeerLeaves, Displaced, HandlerReturns, Close, sessions
  <2>3. Reader(c)' = Reader(c)
    BY <1>1, <2>2 DEF Reader, Role
  <2> QED  BY <2>1, <2>3 DEF Apart, history
<1> QED  BY <1>2, <1>3

(* Creations, acknowledgements and workers do not move the group. *)
LEMMA EnvironmentGroup ==
  ASSUME Environment \/ UNCHANGED dvars
  PROVE  group' = group \/ (group = NoGroup /\ UNCHANGED stream)
<1>1. CASE Creation
  BY <1>1 DEF Creation, CreateNotification, CreateFailure, SetPayload, CreateGroup,
     GroupAfterCreate, XAdd, ScheduleTTL, ScheduleFails, CreateAborts, PipelineRetry, keys
<1>2. CASE AckInFlight
  BY <1>2 DEF AckInFlight, AckXAck, AckMarkRead, AckAborts, keys
<1>3. CASE Worker
  <2>1. Cleaning \/ Trimming \/ Maintaining
    BY <1>3 DEF Worker, Cleaning, Trimming, Maintaining
  <2> QED  BY <2>1, CleaningFrame, TrimmingFrame, MaintainingFrame
<1>4. CASE Tick \/ UNCHANGED dvars
  BY <1>4, TickFrame DEF dvars, vars, keys
<1> QED  BY <1>1, <1>2, <1>3, <1>4 DEF Environment

(* They read nothing for a session either. *)
LEMMA EnvironmentApart ==
  ASSUME NEW c \in Conn, Environment \/ UNCHANGED dvars  PROVE Apart(c)
<1>1. UNCHANGED sessions
  BY DEF Environment, dvars
<1> QED  BY <1>1, EnvironmentGroup DEF sessions, history, Apart, Reader

(* A session is attached to its client from its start, until it is not. *)
LEMMA AttachedStep ==
  ASSUME DeliveryTypeOK, DeliveryNext, NEW c \in Conn, Attached(c)', ~Attached(c)
  PROVE  Reader(c)' = Begin("pending")
<1> USE DEF DeliveryTypeOK
<1>1. <<c, "delivery">> \in Goroutine
  BY DEF Goroutine, Role
<1>2. CASE Connect(c)
  BY <1>1, <1>2 DEF Connect, Reader
<1>3. ASSUME NEW d \in Conn, ClientStep(d) \/ SessionStep(d), ~Connect(c)  PROVE FALSE
  <2>1. CASE Connect(d)
    BY <1>3, <2>1 DEF Connect, Attached
  <2>2. CASE PeerLeaves(d) \/ Displaced(d) \/ Close(d)
    BY <2>2 DEF PeerLeaves, Displaced, Close, Attached
  <2>3. CASE HandlerReturns(d)
    BY <2>3 DEF HandlerReturns, Attached
  <2>4. CASE UNCHANGED <<socket, handler>>
    BY <2>4 DEF Attached
  <2> QED
    BY <1>3, <2>1, <2>2, <2>3, <2>4 DEF ClientStep, SessionStep, ClientAcks, AckReturns,
       ClientSetsRetention, ClientSyncs, ClientStops, sessions
<1>4. CASE Environment
  BY <1>4 DEF Environment, sessions, Attached
<1>5. ASSUME NEW g \in Goroutine, GoroutineStep(g) \/ GoroutineError(g)  PROVE FALSE
  BY <1>5 DEF GoroutineStep, GoroutineError, ReadPendingMessages, RangeLastMessages, LoopStart,
     LoopRead, LoopTimeout, GetNotification, GetReadStatuses, WriteJSON, ReadFails,
     LoopReplyLost, GetFails, Attached
<1> QED  BY <1>2, <1>3, <1>4, <1>5 DEF DeliveryNext

(* Requests that failed are counted. *)
LEMMA ErrorsStep ==
  ASSUME DeliveryTypeOK, [DeliveryNext]_dvars, errors' = 0
  PROVE  errors = 0 /\ \A g \in Goroutine : GoroutineError(g) => handler[ConnOf(g)] = "returned"
<1>1. errors \in Nat
  BY DeliveryAssumption DEF DeliveryTypeOK
<1>2. UNCHANGED errors \/ \E g \in Goroutine : Error(g)
  BY DEF DeliveryNext, dvars, sessions, Environment, GoroutineStep, GoroutineError,
     ReadPendingMessages, RangeLastMessages, LoopStart, LoopRead, LoopTimeout,
     GetNotification, GetReadStatuses, WriteJSON, ReadFails, LoopReplyLost, GetFails,
     ClientStep, SessionStep, Connect, ClientAcks, AckReturns, ClientSetsRetention,
     ClientSyncs, ClientStops, PeerLeaves, Displaced, HandlerReturns, Close
<1>3. errors = 0
  BY <1>1, <1>2 DEF Error
<1> QED  BY <1>1, <1>3 DEF GoroutineError, ReadFails, LoopReplyLost, GetFails, Error

-----------------------------------------------------------------------------
(* SyncInv: no step leaves a session in debt. *)
LEMMA SyncNext ==
  ASSUME DeliveryTypeOK, SentInv, StreamInv, SyncIInv, [DeliveryNext]_dvars
  PROVE  SyncInv'
<1> USE DEF SyncIInv
<1> SUFFICES ASSUME errors' = 0, NEW c \in Conn, Attached(c)', HasHistory(c)', NEW e \in stream'
             PROVE  Paid(c, e)'
  BY DEF SyncInv
<1>1. errors = 0 /\ [Next]_vars
  BY ErrorsStep, StepRefines DEF dvars
<1>2. Reader(c)' # Begin("pending")
  BY DEF HasHistory, Begin
<1>3. Attached(c)
  <2>1. CASE UNCHANGED dvars
    BY <2>1 DEF dvars, sessions, Attached
  <2> QED  BY <1>2, <2>1, AttachedStep
<1>4. HasHistory(c) => \A f \in stream : Paid(c, f)
  BY <1>1, <1>3 DEF SyncInv
<1>5. CASE Apart(c)
  <2>1. HasHistory(c)
    BY <1>5 DEF HasHistory, Apart
  <2> QED  BY <1>1, <1>4, <1>5, <2>1, StaysPaid DEF Apart
<1>6. ASSUME NEW g \in Goroutine, GoroutineStep(g) \/ GoroutineError(g)
      PROVE  Paid(c, e)'
  <2>1. CASE g # <<c, "delivery">>
    BY <1>5, <1>6, <2>1, GoroutineApart
  <2>2. CASE g = <<c, "delivery">> /\ GoroutineStep(g)
    BY <1>3, <1>4, <2>2, ReaderPays
  <2>3. CASE g = <<c, "delivery">> /\ GoroutineError(g)
    BY <1>3, <2>3, ErrorsStep DEF Attached, ConnOf
  <2> QED  BY <1>6, <2>1, <2>2, <2>3
<1>7. ASSUME NEW d \in Conn, ClientStep(d) \/ SessionStep(d)  PROVE Paid(c, e)'
  BY <1>2, <1>5, <1>7, SessionApart
<1>8. CASE Environment \/ UNCHANGED dvars
  BY <1>5, <1>8, EnvironmentApart
<1> QED  BY <1>6, <1>7, <1>8 DEF DeliveryNext

(* The invariant of the synchronisation, from those of the repository. *)
LEMMA SyncInvariance == DeliverySpec => [](DeliveryTypeOK /\ SyncIInv)
<1> DEFINE Inv == DeliveryTypeOK /\ SentInv /\ IdInv /\ SyncIInv
<1>1. DeliveryInit => Inv
  <2> SUFFICES ASSUME DeliveryInit  PROVE Inv
    OBVIOUS
  <2>1. DeliveryTypeOK /\ SentInv /\ IdInv
    BY DeliveryInitType DEF DeliveryInit, Init, SentInv, IdInv, Begin
  <2>2. ShapeInv
    BY DEF DeliveryInit, ShapeInv, Shape, Begin
  <2>3. SizeInv /\ ConnectInv /\ SyncInv
    BY DEF DeliveryInit, Init, SizeInv, ConnectInv, SyncInv
  <2> QED  BY <2>1, <2>2, <2>3 DEF SyncIInv
<1>2. ASSUME Inv, IInv, [DeliveryNext]_dvars  PROVE Inv'
  <2>1. [Next]_vars
    BY <1>2, StepRefines DEF dvars
  <2>2. DeliveryTypeOK' /\ SentInv' /\ IdInv'
    BY <1>2, <2>1, DeliveryNextType, SentNext, IdNext DEF IInv
  <2>3. ShapeInv' /\ SizeInv' /\ ConnectInv' /\ SyncInv'
    BY <1>2, <2>1, ShapeNext, SizeNext, ConnectNext, SyncNext DEF IInv, SyncIInv
  <2> QED  BY <2>2, <2>3 DEF SyncIInv
<1>3. DeliverySpec => []IInv
  BY Refinement, Invariance, PTL DEF RepositorySpec
<1>4. Inv /\ IInv /\ [DeliveryNext]_dvars => Inv'
  BY <1>2
<1>5. DeliverySpec => []Inv
  <2> HIDE DEF Inv
  <2> QED  BY <1>1, <1>3, <1>4, PTL DEF DeliverySpec
<1> QED  BY <1>5, PTL

(* Nothing falls between the synchronisation and the live loop, for any    *)
(* number of sessions that read the user's group at the same time.         *)
THEOREM NothingBetween == DeliverySpec => []NoGap
<1>1. SyncIInv => NoGap
  BY DEF SyncIInv, SyncInv, NoGap, Listening, Attached, HasHistory, Reader, Paid, TookElsewhere
<1> QED  BY <1>1, SyncInvariance, PTL

(* A client whose session reaches its live loop has been shown everything  *)
(* that was there when it connected and still is, whatever other sessions, *)
(* confirmations and workers did meanwhile.                                *)
THEOREM SyncShowsAll == DeliverySpec => []InitialSyncComplete
<1>1. SyncIInv => InitialSyncComplete
  BY DEF SyncIInv, SyncInv, InitialSyncComplete, Listening, Attached, HasHistory, Reader, Paid
<1> QED  BY <1>1, SyncInvariance, PTL

-----------------------------------------------------------------------------
(* The group and what the sessions took from it: a session that reads      *)
(* takes what is ahead of the group; nothing else moves the group, once it *)
(* exists.                                                                 *)
Takes(c) ==
  /\ Reader(c).kind = "new" /\ Reader(c).step = "block"
  /\ ReadNewMessages
  /\ took' = [took EXCEPT ![c] = @ \union {e.id : e \in NewBatch}]

(* A step that is not such a read takes nothing. *)
LEMMA TakeStep ==
  ASSUME DeliveryTypeOK, ShapeInv, [DeliveryNext]_dvars
  PROVE  \/ took' = took /\ (group' = group \/ group = NoGroup)
         \/ \E c \in Conn : Takes(c)
<1>1. ASSUME NEW g \in Goroutine, GoroutineStep(g) \/ GoroutineError(g)
      PROVE  \/ took' = took /\ group' = group
             \/ \E c \in Conn : Takes(c)
  <2>1. CASE LoopRead(g) \/ LoopReplyLost(g)
    <3>1. PICK c \in Conn, r \in Role : g = <<c, r>>
      BY DEF Goroutine
    <3>2. r = "delivery"
      BY <2>1, <3>1 DEF LoopRead, LoopReplyLost, At, ShapeInv, Shape, Role
    <3> QED  BY <2>1, <3>1, <3>2 DEF LoopRead, LoopReplyLost, At, ConnOf, Takes, Reader
  <2>2. CASE ~(LoopRead(g) \/ LoopReplyLost(g))
    BY <1>1, <2>2 DEF GoroutineStep, GoroutineError, ReadPendingMessages, RangeLastMessages,
       LoopStart, LoopTimeout, GetNotification, GetReadStatuses, WriteJSON, ReadFails,
       GetFails, history, vars, keys
  <2> QED  BY <2>1, <2>2
<1>2. ASSUME NEW c \in Conn, ClientStep(c) \/ SessionStep(c)
      PROVE  took' = took /\ (group' = group \/ group = NoGroup)
  BY <1>2 DEF ClientStep, SessionStep, Connect, EnsureGroup, EnsureConsumerGroup, ClientAcks,
     AckReturns, ClientSetsRetention, ClientSyncs, ClientStops, PeerLeaves, Displaced,
     HandlerReturns, Close, sessions, history, vars, keys, AckMessage, SetUserRetentionDays
<1>3. CASE Environment \/ UNCHANGED dvars
  BY <1>3, EnvironmentGroup DEF Environment, dvars, sessions, history
<1> QED  BY <1>1, <1>2, <1>3 DEF DeliveryNext

(* What a session took is behind the group, and no other session took it. *)
TakenInv ==
  /\ \A c \in Conn : \A id \in took[c] : id <= group
  /\ TakenOnce

(* The group is ahead of what was taken, and a read goes on from there. *)
LEMMA TakenNext ==
  ASSUME DeliveryTypeOK, ShapeInv, TakenInv, [DeliveryNext]_dvars, DeliveryTypeOK'
  PROVE  TakenInv'
<1> USE DEF DeliveryTypeOK
<1>1. group \in Int /\ group' \in Int /\ (group = NoGroup => group <= group')
  BY DEF TypeOK, NoGroup
<1>2. CASE took' = took /\ (group' = group \/ group = NoGroup)
  BY <1>1, <1>2 DEF TakenInv, TakenOnce
<1>3. ASSUME NEW c \in Conn, Takes(c)  PROVE TakenInv'
  <2>1. \A e \in NewBatch : e.id > group /\ e.id <= group' /\ e.id \in Nat
    BY <1>3 DEF Takes, ReadNewMessages, NewBatch, Undelivered, TypeOK, Entry
  <2>2. group <= group'
    BY <1>1, <1>3, <2>1 DEF Takes, ReadNewMessages
  <2>3. \A d \in Conn : \A id \in took[d] : id \in Nat /\ id <= group /\ id <= group'
    BY <1>1, <2>2 DEF TakenInv
  <2>4. \A d \in Conn \ {c} : took'[d] = took[d]
    BY <1>3 DEF Takes
  <2>5. \A id \in took'[c] : id \in took[c] \/ \E e \in NewBatch : id = e.id
    BY <1>3 DEF Takes
  <2>6. \A d \in Conn \ {c} : took'[c] \intersect took'[d] = {}
    BY <1>1, <2>1, <2>3, <2>4, <2>5 DEF TakenInv, TakenOnce
  <2> QED  BY <2>1, <2>3, <2>4, <2>5, <2>6 DEF TakenInv, TakenOnce
<1> QED  BY <1>2, <1>3, TakeStep

-----------------------------------------------------------------------------
(* The order of the live loop. What a reader has in hand there it has      *)
(* taken, and it is done with whatever is older.                           *)
Ordered(c) ==
  \A held \in Nat : InHand(c, held) =>
    /\ held \in took[c]
    /\ \A id \in took[c] : InHand(c, id) \/ id < held

LiveInv ==
  errors = 0 =>
    \A c \in Conn :
      handler[c] = "running" /\ Reader(c).kind = "new" => Ordered(c)

(* A session in its live loop was running before, and its reader comes to  *)
(* the loop with empty hands.                                              *)
LEMMA RunningStep ==
  ASSUME DeliveryTypeOK, [DeliveryNext]_dvars, NEW c \in Conn,
         handler'[c] = "running", Reader(c)' # Begin("pending")
  PROVE  handler[c] = "running"
<1> USE DEF DeliveryTypeOK
<1>1. <<c, "delivery">> \in Goroutine
  BY DEF Goroutine, Role
<1>2. CASE Connect(c)
  BY <1>1, <1>2 DEF Connect, Reader
<1>3. ASSUME NEW d \in Conn, ClientStep(d) \/ SessionStep(d), ~Connect(c)
      PROVE  handler[c] = "running"
  BY <1>3 DEF ClientStep, SessionStep, Connect, ClientAcks, AckReturns, ClientSetsRetention,
     ClientSyncs, ClientStops, PeerLeaves, Displaced, HandlerReturns, Close, sessions
<1>4. CASE Environment \/ UNCHANGED dvars
  BY <1>4 DEF Environment, sessions, dvars
<1>5. ASSUME NEW g \in Goroutine, GoroutineStep(g) \/ GoroutineError(g)
      PROVE  handler[c] = "running"
  BY <1>5 DEF GoroutineStep, GoroutineError, ReadPendingMessages, RangeLastMessages, LoopStart,
     LoopRead, LoopTimeout, GetNotification, GetReadStatuses, WriteJSON, ReadFails,
     LoopReplyLost, GetFails
<1> QED  BY <1>2, <1>3, <1>4, <1>5 DEF DeliveryNext

(* A goroutine begins its next work with empty hands. *)
EmptyHanded(t) == t.toLoad = {} /\ t.loaded = {}

LEMMA FollowingEmpty ==
  ASSUME NEW g  PROVE EmptyHanded(Following(g)) /\ EmptyHanded(AfterError(g))
<1>1. \A k \in {"idle", "history", "new", "done"} : EmptyHanded(Begin(k))
  BY DEF Begin, EmptyHanded
<1>2. \E k \in {"idle", "history", "new", "done"} : Following(g) = Begin(k)
  BY DEF Following
<1> QED  BY <1>1, <1>2 DEF AfterError

(* What the reader's own steps do to the order: a read adds what is newer, *)
(* loading changes nothing, and a push sends the oldest.                   *)
LEMMA ReaderOrdered ==
  ASSUME DeliveryTypeOK, ShapeInv, TakenInv, NEW c \in Conn,
         GoroutineStep(<<c, "delivery">>), Reader(c)'.kind = "new",
         Reader(c).kind = "new" => Ordered(c)
  PROVE  Ordered(c)'
<1> DEFINE g == <<c, "delivery">>
<1> USE DEF DeliveryTypeOK
<1>1. g \in Goroutine /\ ConnOf(g) = c /\ task[g] \in Task /\ Shape(g, task[g])
  BY DEF Goroutine, Role, ConnOf, ShapeInv
<1>2. ASSUME EmptyHanded(Reader(c)')  PROVE Ordered(c)'
  BY <1>2 DEF EmptyHanded, Ordered, InHand, Reader
<1>3. ASSUME NEW t, task' = [task EXCEPT ![g] = t]  PROVE Reader(c)' = t
  BY <1>1, <1>3 DEF Reader
<1>4. CASE ReadPendingMessages(g) \/ RangeLastMessages(g)
  <2>1. PICK items : Reader(c)' = Fetched(g, items)
    BY <1>3, <1>4 DEF ReadPendingMessages, RangeLastMessages
  <2>2. task[g].kind # "new"
    BY <1>4 DEF ReadPendingMessages, RangeLastMessages, At
  <2>3. items = {}
    BY <1>1, <2>1, <2>2 DEF Fetched, Task
  <2> QED  BY <1>2, <2>1, <2>3, FollowingEmpty DEF Fetched
<1>5. CASE LoopStart(g)
  <2>1. EmptyHanded(task[g]) /\ Reader(c)' = LoopRound(g)
    BY <1>1, <1>3, <1>5 DEF LoopStart, At, EmptyHanded, Shape
  <2>2. EmptyHanded(LoopRound(g))
    BY <1>1, <2>1 DEF LoopRound, EmptyHanded, Begin, Task
  <2> QED  BY <1>2, <2>1, <2>2
<1>6. CASE LoopTimeout(g)
  <2>1. Reader(c)' = Begin("new")
    BY <1>3, <1>6 DEF LoopTimeout
  <2> QED  BY <1>2, <2>1 DEF Begin, EmptyHanded
<1>7. CASE LoopRead(g)
  <2> DEFINE items == ItemsOf(NewBatch)
  <2>1. /\ ReadNewMessages /\ Reader(c)' = Fetched(g, items)
        /\ took'[c] = took[c] \union {e.id : e \in NewBatch}
    BY <1>1, <1>3, <1>7 DEF LoopRead
  <2>2. EmptyHanded(task[g])
    BY <1>1, <1>7 DEF LoopRead, At, EmptyHanded, Shape
  <2>3. CASE items = {}
    BY <1>2, <2>1, <2>3, FollowingEmpty DEF Fetched
  <2>4. CASE items # {}
    <3>0. Fetched(g, items) = [task[g] EXCEPT !.step = "load", !.toLoad = items]
      BY <2>4 DEF Fetched
    <3>1. Reader(c)'.toLoad = items /\ Reader(c)'.loaded = {}
      BY <1>1, <2>1, <2>2, <3>0 DEF EmptyHanded, Task
    <3>2. \A id : (\E i \in items : i.id = id) <=> id \in {e.id : e \in NewBatch}
      <4>1. \A e \in NewBatch : [id |-> e.id, nid |-> e.nid] \in items
        BY DEF ItemsOf
      <4>2. \A i \in items : \E e \in NewBatch : i = [id |-> e.id, nid |-> e.nid]
        BY DEF ItemsOf
      <4>3. \A e \in NewBatch : \E i \in items : i.id = e.id
        BY <4>1
      <4>4. \A i \in items : \E e \in NewBatch : i.id = e.id
        BY <4>2
      <4> HIDE DEF items
      <4> QED  BY <4>3, <4>4
    <3>3. \A id : InHand(c, id)' <=> id \in {e.id : e \in NewBatch}
      BY <3>1, <3>2 DEF InHand, Reader
    <3>4. \A e \in NewBatch : e.id > group /\ e.id \in Nat
      BY DEF NewBatch, Undelivered, TypeOK, Entry
    <3>5. \A id \in took[c] : id \in Nat /\ id <= group
      BY DEF TakenInv
    <3>6. group \in Int
      BY DEF TypeOK, NoGroup
    <3> QED  BY <2>1, <3>3, <3>4, <3>5, <3>6 DEF Ordered
  <2> QED  BY <2>3, <2>4
<1>8. CASE GetNotification(g)
  <2>1. PICK i \in task[g].toLoad : task' = [task EXCEPT ![g] = LoadedTask(g, i, {PushOf(i)})]
    BY <1>8 DEF GetNotification, OldestOf
  <2>2. PushOf(i).id = i.id /\ task[g].step = "load"
    BY <1>8 DEF PushOf, Unread, Expiry, GetNotification
  <2>3. Reader(c)'.kind = Reader(c).kind /\ \A id : InHand(c, id) <=> InHand(c, id)'
    BY <2>1, <2>2, LoadKeeps DEF Reader
  <2> QED  BY <1>8, <2>3 DEF GetNotification, history, Ordered
<1>9. CASE GetReadStatuses(g)
  <2>1. Reader(c)'.kind = Reader(c).kind /\ \A id : InHand(c, id) <=> InHand(c, id)'
    BY <1>9, StatusKeeps
  <2> QED  BY <1>9, <2>1 DEF GetReadStatuses, history, Ordered
<1>10. CASE WriteJSON(g)
  <2>1. PICK m \in OldestOf(task[g].loaded) :
          Reader(c)' = PushedTask(g, m) \/ Reader(c)' = AfterError(g)
    BY <1>3, <1>10 DEF WriteJSON
  <2>2. CASE task[g].loaded = {m} \/ Reader(c)' = AfterError(g)
    BY <1>2, <2>1, <2>2, FollowingEmpty DEF PushedTask
  <2>3. CASE ~(task[g].loaded = {m} \/ Reader(c)' = AfterError(g))
    <3>1. /\ Reader(c)'.kind = task[g].kind /\ Reader(c)'.toLoad = {} /\ task[g].toLoad = {}
          /\ Reader(c)'.loaded = task[g].loaded \ {m}
      BY <1>1, <1>10, <2>1, <2>3 DEF PushedTask, WriteJSON, Shape, Task
    <3>2. took' = took /\ Ordered(c)
      BY <1>10, <3>1 DEF WriteJSON, history, Reader
    <3>3. /\ \A l \in task[g].loaded : l.id \in Nat /\ m.id <= l.id
          /\ m \in task[g].loaded
      BY <1>1 DEF OldestOf, Task, Push
    <3>4. \A id : InHand(c, id) <=> \E l \in task[g].loaded : l.id = id
      BY <3>1 DEF InHand, Reader
    <3>5. \A id : InHand(c, id)' <=> \E l \in task[g].loaded \ {m} : l.id = id
      BY <3>1 DEF InHand, Reader
    <3>6. \A id : InHand(c, id) /\ ~InHand(c, id)' => id = m.id
      BY <3>4, <3>5
    <3>7. \A held : InHand(c, held)' => InHand(c, held) /\ m.id <= held
      BY <3>3, <3>4, <3>5
    <3>8. ASSUME NEW held \in Nat, InHand(c, held)', NEW id \in took[c]
          PROVE  held \in took[c] /\ (InHand(c, id)' \/ id < held)
      <4>1. held \in took[c] /\ (InHand(c, id) \/ id < held)
        BY <3>2, <3>7, <3>8 DEF Ordered
      <4>2. id = m.id => id < held \/ InHand(c, id)'
        BY <3>3, <3>7, <3>8
      <4> QED  BY <3>6, <4>1, <4>2
    <3>9. \A held \in Nat : InHand(c, held)' => held \in took[c]
      BY <3>2, <3>7 DEF Ordered
    <3> QED  BY <3>2, <3>8, <3>9 DEF Ordered
  <2> QED  BY <2>2, <2>3
<1> QED
  BY <1>4, <1>5, <1>6, <1>7, <1>8, <1>9, <1>10 DEF GoroutineStep

(* LiveInv: no step of any session leaves a loop out of order. *)
LEMMA LiveNext ==
  ASSUME DeliveryTypeOK, ShapeInv, TakenInv, LiveInv, [DeliveryNext]_dvars
  PROVE  LiveInv'
<1> SUFFICES ASSUME errors' = 0, NEW c \in Conn, handler'[c] = "running",
                    Reader(c)'.kind = "new"
             PROVE  Ordered(c)'
  BY DEF LiveInv
<1>1. errors = 0
  BY ErrorsStep
<1>2. Reader(c)' # Begin("pending")
  BY DEF Begin
<1>3. handler[c] = "running"
  BY <1>2, RunningStep
<1>4. Reader(c).kind = "new" => Ordered(c)
  BY <1>1, <1>3 DEF LiveInv
<1>5. CASE Reader(c)' = Reader(c) /\ took'[c] = took[c]
  <2>1. \A id : InHand(c, id)' <=> InHand(c, id)
    BY <1>5 DEF InHand, Reader
  <2> QED  BY <1>4, <1>5, <2>1 DEF Ordered
<1>6. ASSUME NEW g \in Goroutine, GoroutineStep(g) \/ GoroutineError(g)
      PROVE  Ordered(c)'
  <2>1. CASE g = <<c, "delivery">>
    <3>1. ConnOf(g) = c
      BY <2>1 DEF ConnOf
    <3>2. GoroutineStep(g)
      BY <1>3, <1>6, <3>1, ErrorsStep
    <3> QED  BY <1>4, <2>1, <3>2, ReaderOrdered
  <2>2. CASE g # <<c, "delivery">>
    <3>1. PICK d \in Conn, r \in Role : g = <<d, r>>
      BY DEF Goroutine
    <3>2. Reader(c)' = Reader(c)
      BY <1>6, <2>2, GoroutineApart DEF Apart
    <3>3. took' = took \/ ((LoopRead(g) \/ LoopReplyLost(g)) /\ r = "delivery")
      BY <1>6, <3>1 DEF GoroutineStep, GoroutineError, ReadPendingMessages, RangeLastMessages,
         LoopStart, LoopRead, LoopTimeout, GetNotification, GetReadStatuses, WriteJSON,
         ReadFails, LoopReplyLost, GetFails, history, At, ShapeInv, Shape, Role
    <3>4. took'[c] = took[c]
      BY <2>2, <3>1, <3>3 DEF LoopRead, LoopReplyLost, ConnOf, DeliveryTypeOK
    <3> QED  BY <1>5, <3>2, <3>4
  <2> QED  BY <2>1, <2>2
<1>7. ASSUME NEW d \in Conn, ClientStep(d) \/ SessionStep(d)  PROVE Ordered(c)'
  <2>1. took' = took
    BY <1>7 DEF ClientStep, SessionStep, Connect, ClientAcks, AckReturns, ClientSetsRetention,
       ClientSyncs, ClientStops, PeerLeaves, Displaced, HandlerReturns, Close, sessions, history
  <2>2. Reader(c)' = Reader(c)
    BY <1>2, <1>7, SessionApart DEF Apart
  <2> QED  BY <1>5, <2>1, <2>2
<1>8. CASE Environment \/ UNCHANGED dvars
  BY <1>5, <1>8 DEF Environment, dvars, sessions, history, Reader
<1> QED  BY <1>6, <1>7, <1>8 DEF DeliveryNext

(* The invariant of the live loops. *)
LEMMA LiveInvariance == DeliverySpec => [](DeliveryTypeOK /\ TakenInv /\ LiveInv)
<1>1. DeliveryInit => TakenInv /\ LiveInv
  BY DEF DeliveryInit, TakenInv, TakenOnce, LiveInv
<1>2. (DeliveryTypeOK /\ SyncIInv) /\ (DeliveryTypeOK /\ SyncIInv)' /\ TakenInv /\ LiveInv
        /\ [DeliveryNext]_dvars => TakenInv' /\ LiveInv'
  BY TakenNext, LiveNext DEF SyncIInv
<1> QED  BY <1>1, <1>2, SyncInvariance, PTL DEF DeliverySpec

(* Of the user's sessions, however many wait on however many pods, one     *)
(* only gets a new message from the group.                                 *)
THEOREM OneTaker == DeliverySpec => []TakenOnce
<1>1. TakenInv => TakenOnce
  BY DEF TakenInv
<1> QED  BY <1>1, LiveInvariance, PTL

(* The live loop of every session shows what it takes from the oldest to   *)
(* the newest, within a batch and from batch to batch.                     *)
THEOREM LoopInOrder == DeliverySpec => []LiveInOrder
<1>1. DeliveryTypeOK /\ LiveInv => LiveInOrder
  BY DEF DeliveryTypeOK, LiveInv, LiveInOrder, Ordered, Reader
<1> QED  BY <1>1, LiveInvariance, PTL

-----------------------------------------------------------------------------
(* What the user's clients know to be read: it was pushed unread, or as an  *)
(* expired one where it may have expired.                                  *)
ShownText(n) ==
  \E d \in Conn : \E l \in got[d] : l.nid = n /\ (~l.read \/ (l.cleared /\ Doubtful(d, n)))

(* Every mark of a read notification, and every confirmation under way, is *)
(* about one that some client was shown so.                                *)
MarksInv ==
  /\ \A n \in readState : n # NoNid => ShownText(n)
  /\ \A i \in acking \union marking : i.nid # NoNid => ShownText(i.nid)

(* A push says that a notification is read only when it was shown, and     *)
(* that it has expired only when nothing tells the contrary.               *)
Honest(d, m) ==
  IF m.cleared THEN m.nid # NoNid => Doubtful(d, m.nid)
               ELSE m.nid # NoNid /\ (m.read => ShownText(m.nid))

(* Without a failure a payload is set once, before the entry is there. *)
OnceInv == faults = 0 => \A s \in sent : create[s.nid] \notin {"new", "set", "grouped"}

(* A handler runs for a connection. *)
HandlerInv == \A c \in Conn : handler[c] # "none" => socket[c] # "none"

ReadInv ==
  /\ MarksInv
  /\ OnceInv
  /\ HandlerInv
  /\ \A g \in Goroutine : \A m \in task[g].loaded : Honest(ConnOf(g), m)
  /\ \A c \in Conn : \A m \in got[c] : Honest(c, m)

(* Clients forget nothing, and are sent what a task has loaded. *)
LEMMA GotStep ==
  ASSUME DeliveryTypeOK, [DeliveryNext]_dvars, NEW c \in Conn
  PROVE  /\ got[c] \subseteq got'[c]
         /\ \A m \in got'[c] \ got[c] :
              \E g \in Goroutine : m \in task[g].loaded /\ ConnOf(g) = c
<1> USE DEF DeliveryTypeOK
<1>1. ASSUME NEW g \in Goroutine, WriteJSON(g)
      PROVE  /\ got[c] \subseteq got'[c]
             /\ \A m \in got'[c] \ got[c] : m \in task[g].loaded /\ ConnOf(g) = c
  <2>1. ConnOf(g) \in Conn
    BY DEF Goroutine, ConnOf
  <2>2. got' = got \/ \E m \in task[g].loaded : got' = [got EXCEPT ![ConnOf(g)] = @ \union {m}]
    BY <1>1 DEF WriteJSON, OldestOf
  <2> QED  BY <2>1, <2>2
<1>2. got' = got \/ \E g \in Goroutine : WriteJSON(g)
  BY DEF DeliveryNext, dvars, sessions, Environment, GoroutineStep, GoroutineError,
     ReadPendingMessages, RangeLastMessages, LoopStart, LoopRead, LoopTimeout,
     GetNotification, GetReadStatuses, ReadFails, LoopReplyLost, GetFails,
     ClientStep, SessionStep, Connect, ClientAcks, AckReturns, ClientSetsRetention,
     ClientSyncs, ClientStops, PeerLeaves, Displaced, HandlerReturns, Close
<1> QED  BY <1>1, <1>2

(* Failures of the repository's calls are counted. *)
LEMMA FaultsStep ==
  ASSUME TypeOK, [Next]_vars, faults' = 0  PROVE faults = 0
<1>1. faults \in Nat
  BY LimitAssumption DEF TypeOK
<1>2. UNCHANGED faults \/ Fail
  <2>1. CASE Creation
    BY <2>1 DEF Creation, CreateNotification, CreateFailure, SetPayload, CreateGroup, XAdd,
       ScheduleTTL, ScheduleFails, CreateAborts, PipelineRetry
  <2>2. CASE Session
    BY <2>2 DEF Session, AckInFlight, EnsureConsumerGroup, ReadNewMessages, AckMessage, AckXAck,
       AckMarkRead, AckAborts, SetUserRetentionDays
  <2>3. CASE Worker
    BY <2>3 DEF Worker, CleanupExpiredNotifications, JanitorFetch, JanitorXAck, JanitorXDel,
       JanitorDel, JanitorZRem, JanitorFails, RetentionTrimmer, TrimmerList, TrimmerGetDays,
       TrimmerXTrim, TrimmerFails, GroupMaintenance, MaintainerList, Reclaim
  <2> QED  BY <2>1, <2>2, <2>3 DEF Next, Tick, vars
<1> QED  BY <1>1, <1>2 DEF Fail

(* Without a failure, the payload of a message that was sent is not set    *)
(* again.                                                                  *)
LEMMA OnceNext ==
  ASSUME TypeOK, OnceInv, [Next]_vars
  PROVE  /\ OnceInv'
         /\ faults' = 0 => \A s \in sent : born'[s.nid] = born[s.nid]
<1>1. CASE faults' # 0
  BY <1>1 DEF OnceInv
<1>2. CASE faults' = 0 /\ Creation
  <2>1. PICK n \in Nid : CreateNotification(n) \/ CreateFailure(n)
    BY <1>2 DEF Creation
  <2>2. faults = 0 /\ \A s \in sent : create[s.nid] \notin {"new", "set", "grouped"}
    BY <1>2, FaultsStep DEF OnceInv
  <2>3. \A s \in sent : s.nid \in Nid
    BY DEF TypeOK, Message
  <2>4. CASE SetPayload(n) \/ CreateGroup(n)
    <3>1. \A s \in sent : s.nid # n
      BY <2>2, <2>4 DEF SetPayload, CreateGroup
    <3> QED  BY <2>2, <2>3, <2>4, <3>1 DEF SetPayload, CreateGroup, OnceInv, TypeOK
  <2>5. CASE XAdd(n) \/ ScheduleTTL(n)
    BY <2>2, <2>3, <2>5 DEF XAdd, ScheduleTTL, OnceInv, TypeOK
  <2>6. CASE CreateFailure(n)
    <3>1. faults \in Nat /\ faults' = faults + 1
      BY <2>6, LimitAssumption
      DEF CreateFailure, ScheduleFails, CreateAborts, PipelineRetry, Fail, TypeOK
    <3> QED  BY <1>2, <3>1
  <2> QED  BY <2>1, <2>4, <2>5, <2>6 DEF CreateNotification
<1>3. CASE faults' = 0 /\ ~Creation
  <2>1. UNCHANGED calls
    BY <1>3, NextKinds, SessionFrame, CleaningFrame, TrimmingFrame, MaintainingFrame, TickFrame
    DEF vars
  <2> QED  BY <1>3, <2>1, FaultsStep DEF OnceInv, calls
<1> QED  BY <1>1, <1>2, <1>3

(* A handler that has returned does not run again. *)
LEMMA HandlerNext ==
  ASSUME DeliveryTypeOK, HandlerInv, [DeliveryNext]_dvars
  PROVE  HandlerInv' /\ \A d \in Conn : handler[d] = "returned" => handler'[d] = "returned"
<1> USE DEF DeliveryTypeOK, HandlerInv
<1>1. ASSUME NEW c \in Conn, ClientStep(c) \/ SessionStep(c)
      PROVE  HandlerInv' /\ \A d \in Conn : handler[d] = "returned" => handler'[d] = "returned"
  <2>1. CASE Connect(c)
    BY <2>1 DEF Connect
  <2>2. CASE HandlerReturns(c)
    BY <2>2 DEF HandlerReturns
  <2>3. CASE PeerLeaves(c) \/ Displaced(c) \/ Close(c)
    BY <2>3 DEF PeerLeaves, Displaced, Close
  <2>4. CASE UNCHANGED <<socket, handler>>
    BY <2>4
  <2> QED
    BY <1>1, <2>1, <2>2, <2>3, <2>4 DEF ClientStep, SessionStep, ClientAcks, AckReturns,
       ClientSetsRetention, ClientSyncs, ClientStops, sessions
<1>2. ASSUME NEW g \in Goroutine, GoroutineStep(g) \/ GoroutineError(g)
      PROVE  UNCHANGED <<socket, handler>>
  BY <1>2 DEF GoroutineStep, GoroutineError, ReadPendingMessages, RangeLastMessages, LoopStart,
     LoopRead, LoopTimeout, GetNotification, GetReadStatuses, WriteJSON, ReadFails,
     LoopReplyLost, GetFails
<1>3. CASE Environment \/ UNCHANGED dvars
  BY <1>3 DEF Environment, dvars, sessions
<1> QED  BY <1>1, <1>2, <1>3 DEF DeliveryNext

(* What may have expired stays so. *)
LEMMA DoubtStays ==
  ASSUME DeliveryTypeOK, SentInv, OnceInv, HandlerInv, [DeliveryNext]_dvars,
         NEW d \in Conn, NEW s \in sent, Doubtful(d, s.nid)
  PROVE  Doubtful(d, s.nid)'
<1> USE DEF DeliveryTypeOK
<1>1. [Next]_vars
  BY StepRefines DEF dvars
<1>2. errors' = 0 => errors = 0
  BY ErrorsStep
<1>3. faults' = 0 => faults = 0 /\ born'[s.nid] = born[s.nid]
  BY <1>1, FaultsStep, OnceNext
<1>4. handler[d] = "returned" => handler'[d] = "returned"
  BY HandlerNext
<1>5. now \in Nat /\ now' \in Nat /\ now' >= now
  BY <1>1, NowStep DEF TypeOK
<1>6. born[s.nid] \in Nat
  BY DEF TypeOK, Message
<1> QED  BY <1>2, <1>3, <1>4, <1>5, <1>6, TimeAssumption DEF Doubtful, Tolerance

(* What a client confirmed, it was shown with its notification. *)
LEMMA GotWasSent ==
  ASSUME SentInv, NEW c \in Conn, NEW m \in got[c], m.nid # NoNid
  PROVE  \E s \in sent : s.nid = m.nid
<1>1. Named(m) \in Confirmable
  BY DEF SentInv
<1>2. Named(m) \in sent
  BY <1>1, NamedWasSent DEF Named
<1> QED  BY <1>2 DEF Named

(* What was shown stays so. *)
LEMMA ShownStays ==
  ASSUME DeliveryTypeOK, SentInv, OnceInv, HandlerInv, [DeliveryNext]_dvars,
         NEW n, n # NoNid, ShownText(n)
  PROVE  ShownText(n)'
<1>1. PICK d \in Conn :
        \E l \in got[d] : l.nid = n /\ (~l.read \/ (l.cleared /\ Doubtful(d, n)))
  BY DEF ShownText
<1>2. PICK l \in got[d] : l.nid = n /\ (~l.read \/ (l.cleared /\ Doubtful(d, n)))
  BY <1>1
<1>3. l \in got'[d]
  BY GotStep
<1>4. Doubtful(d, n) => Doubtful(d, n)'
  BY <1>2, GotWasSent, DoubtStays
<1> QED  BY <1>2, <1>3, <1>4 DEF ShownText

(* Confirmations come from clients that were shown the message; a mark     *)
(* comes from a confirmation.                                              *)
LEMMA MarksStep ==
  ASSUME DeliveryTypeOK, ReadInv, [DeliveryNext]_dvars
  PROVE  /\ \A i \in (acking \union marking)' :
              i \in acking \union marking \/ (i.nid # NoNid => ShownText(i.nid))
         /\ \A n \in readState' : n \in readState \/ \E i \in marking : n = i.nid
<1> DEFINE Marks == /\ \A i \in (acking \union marking)' :
                         i \in acking \union marking \/ (i.nid # NoNid => ShownText(i.nid))
                    /\ \A n \in readState' : n \in readState \/ \E i \in marking : n = i.nid
<1>1. CASE UNCHANGED <<acking, marking, readState>>
  BY <1>1
<1>2. CASE Environment
  <2>1. CASE AckInFlight
    BY <2>1 DEF AckInFlight, AckXAck, AckMarkRead, AckAborts, keys
  <2>2. CASE Creation
    BY <1>1, <2>2, CreationFrame DEF acks
  <2>3. CASE Worker
    <3>1. Cleaning \/ Trimming \/ Maintaining
      BY <2>3 DEF Worker, Cleaning, Trimming, Maintaining
    <3> QED  BY <1>1, <3>1, CleaningFrame, TrimmingFrame, MaintainingFrame DEF acks
  <2>4. CASE Tick
    BY <1>1, <2>4, TickFrame DEF keys, acks
  <2> QED  BY <1>2, <2>1, <2>2, <2>3, <2>4 DEF Environment
<1>3. ASSUME NEW c \in Conn, ClientAcks(c)  PROVE Marks
  <2>1. PICK m \in UNION {got[d] : d \in Conn} : AckMessage(Named(m))
    BY <1>3 DEF ClientAcks, Named
  <2>2. PICK d \in Conn : m \in got[d]
    OBVIOUS
  <2>3. m.nid # NoNid => ShownText(m.nid)
    BY <2>2 DEF ReadInv, Honest, ShownText
  <2> QED  BY <2>1, <2>3 DEF AckMessage, keys, Named
<1>4. ASSUME NEW c \in Conn, ClientStep(c) \/ SessionStep(c), ~ClientAcks(c)
      PROVE  UNCHANGED <<acking, marking, readState>>
  BY <1>4 DEF ClientStep, SessionStep, Connect, EnsureGroup, EnsureConsumerGroup, AckReturns,
     ClientSetsRetention, SetUserRetentionDays, ClientSyncs, ClientStops, PeerLeaves,
     Displaced, HandlerReturns, Close, vars, keys, acks
<1>5. ASSUME NEW g \in Goroutine, GoroutineStep(g) \/ GoroutineError(g)
      PROVE  UNCHANGED <<acking, marking, readState>>
  BY <1>5 DEF GoroutineStep, GoroutineError, ReadPendingMessages, RangeLastMessages, LoopStart,
     LoopRead, LoopTimeout, GetNotification, GetReadStatuses, WriteJSON, ReadFails,
     LoopReplyLost, GetFails, ReadNewMessages, vars, keys, acks
<1>6. CASE UNCHANGED dvars
  BY <1>1, <1>6 DEF dvars, vars, keys, acks
<1> QED  BY <1>1, <1>2, <1>3, <1>4, <1>5, <1>6 DEF DeliveryNext

(* Where a goroutine's pushes come from: a GET, a GET that failed, or a    *)
(* push that gets its status.                                              *)
Given(g, m) ==
  \/ m \in task[g].loaded
  \/ \E i \in task[g].toLoad : m = PushOf(i)
  \/ \E i \in task[g].toLoad : m = Expiry(i) /\ (errors' # 0 \/ handler'[ConnOf(g)] = "returned")
  \/ \E l \in task[g].loaded :
       /\ m.cleared = l.cleared /\ m.nid = l.nid
       /\ m.read => l.cleared \/ l.nid \in readState

LEMMA LoadedStep ==
  ASSUME DeliveryTypeOK, NEW g \in Goroutine, GoroutineStep(g) \/ GoroutineError(g)
  PROVE  \E t : task' = [task EXCEPT ![g] = t] /\ \A m \in t.loaded : Given(g, m)
<1> USE DEF DeliveryTypeOK
<1>1. task[g] \in Task
  OBVIOUS
<1>2. \A t : t.loaded = {} => \A m \in t.loaded : Given(g, m)
  OBVIOUS
<1>3. \A k : Begin(k).loaded = {}
  BY DEF Begin
<1>4. Following(g).loaded = {} /\ AfterError(g).loaded = {}
  BY FollowingEmpty DEF EmptyHanded
<1>5. ASSUME NEW items  PROVE \A m \in Fetched(g, items).loaded : Given(g, m)
  <2>1. CASE items = {}
    BY <1>4, <2>1 DEF Fetched
  <2>2. CASE items # {}
    <3>1. Fetched(g, items) = [task[g] EXCEPT !.step = "load", !.toLoad = items]
      BY <2>2 DEF Fetched
    <3> QED  BY <1>1, <3>1 DEF Task, Given
  <2> QED  BY <2>1, <2>2
<1>6. ASSUME NEW i, NEW pushes, \A m \in pushes : Given(g, m)
      PROVE  \A m \in LoadedTask(g, i, pushes).loaded : Given(g, m)
  <2>1. \/ LoadedTask(g, i, pushes) = Following(g)
        \/ LoadedTask(g, i, pushes).loaded = task[g].loaded \union pushes
    BY DEF LoadedTask
  <2> QED  BY <1>4, <1>6, <2>1 DEF Given
<1>7. CASE ReadPendingMessages(g) \/ RangeLastMessages(g) \/ LoopRead(g)
  BY <1>5, <1>7 DEF ReadPendingMessages, RangeLastMessages, LoopRead
<1>8. CASE LoopStart(g)
  <2>1. \A m \in LoopRound(g).loaded : Given(g, m)
    BY <1>1, <1>3 DEF LoopRound, Task, Given
  <2> QED  BY <1>8, <2>1 DEF LoopStart
<1>9. CASE LoopTimeout(g)
  BY <1>2, <1>3, <1>9 DEF LoopTimeout
<1>10. CASE GetNotification(g)
  <2>1. PICK i \in task[g].toLoad : task' = [task EXCEPT ![g] = LoadedTask(g, i, {PushOf(i)})]
    BY <1>10 DEF GetNotification, OldestOf
  <2>2. \A m \in {PushOf(i)} : Given(g, m)
    BY DEF Given
  <2> QED  BY <1>6, <2>1, <2>2
<1>11. CASE GetFails(g)
  <2>1. PICK i \in task[g].toLoad : task' = [task EXCEPT ![g] =
          LoadedTask(g, i, IF task[g].kind = "history" THEN {Expiry(i)} ELSE {})]
    BY <1>11 DEF GetFails, OldestOf
  <2>2. errors' # 0 \/ handler'[ConnOf(g)] = "returned"
    BY <1>11, DeliveryAssumption DEF GetFails, Error
  <2>3. \A m \in (IF task[g].kind = "history" THEN {Expiry(i)} ELSE {}) : Given(g, m)
    BY <2>2 DEF Given
  <2> QED  BY <1>6, <2>1, <2>3
<1>12. CASE GetReadStatuses(g)
  <2> DEFINE Status(m) == [m EXCEPT !.read = m.cleared \/ m.nid \in readState]
             new == {Status(m) : m \in task[g].loaded}
             t == [task[g] EXCEPT !.step = "push", !.loaded = new]
  <2>1. task' = [task EXCEPT ![g] = t]
    BY <1>12 DEF GetReadStatuses
  <2>2. t.loaded = new
    BY <1>1 DEF Task
  <2>3. ASSUME NEW l \in task[g].loaded  PROVE Given(g, Status(l))
    <3>1. l \in Push
      BY <1>1 DEF Task
    <3>2. /\ Status(l).cleared = l.cleared /\ Status(l).nid = l.nid
          /\ Status(l).read = (l.cleared \/ l.nid \in readState)
      BY <3>1 DEF Push
    <3> HIDE DEF Status
    <3> QED  BY <3>2 DEF Given
  <2>4. \A m \in new : Given(g, m)
    <3> HIDE DEF Status
    <3> QED  BY <2>3
  <2> HIDE DEF t, new
  <2> QED  BY <2>1, <2>2, <2>4
<1>13. CASE WriteJSON(g)
  <2>1. PICK m : \/ task' = [task EXCEPT ![g] = PushedTask(g, m)]
                 \/ task' = [task EXCEPT ![g] = AfterError(g)]
    BY <1>13 DEF WriteJSON
  <2>2. \A l \in PushedTask(g, m).loaded : Given(g, l)
    BY <1>1, <1>4 DEF PushedTask, Task, Given
  <2> QED  BY <1>2, <1>4, <2>1, <2>2
<1>14. CASE ReadFails(g) \/ LoopReplyLost(g)
  BY <1>2, <1>4, <1>14 DEF ReadFails, LoopReplyLost
<1> QED
  BY <1>7, <1>8, <1>9, <1>10, <1>11, <1>12, <1>13, <1>14 DEF GoroutineStep, GoroutineError

(* A missing payload has had its time. *)
LEMMA ClearedInTime ==
  ASSUME DeliveryTypeOK, SentInv, IdInv, PayloadInv,
         NEW g \in Goroutine, NEW i \in task[g].toLoad, i.nid # NoNid, PushOf(i).cleared
  PROVE  now > born[i.nid] + TTL - Tolerance
<1>1. i \in sent
  BY NamedWasSent DEF SentInv
<1>2. i.nid \in Nid /\ born[i.nid] # 0
  BY <1>1 DEF IdInv, DeliveryTypeOK, TypeOK, Message
<1>3. ~(payload[i.nid] > now)
  BY DEF PushOf, Unread
<1>4. now \in Nat /\ payload[i.nid] \in Nat /\ born[i.nid] \in Nat
  BY <1>2 DEF DeliveryTypeOK, TypeOK
<1>5. \/ payload[i.nid] = born[i.nid] + TTL
      \/ now > born[i.nid] + TTL - Tolerance
  BY <1>2 DEF PayloadInv
<1> QED  BY <1>3, <1>4, <1>5, TimeAssumption DEF Tolerance

(* What a goroutine's step loads is honest when it has been done. *)
LEMMA HonestStep ==
  ASSUME DeliveryTypeOK, SentInv, IdInv, PayloadInv, ReadInv, [DeliveryNext]_dvars,
         NEW g \in Goroutine, GoroutineStep(g) \/ GoroutineError(g), NEW m, Given(g, m)
  PROVE  Honest(ConnOf(g), m)'
<1>1. ConnOf(g) \in Conn
  BY DEF Goroutine, ConnOf
<1>2. \A n : n # NoNid /\ ShownText(n) => ShownText(n)'
  BY ShownStays DEF ReadInv
<1>3. ASSUME NEW l \in task[g].loaded  PROVE l.cleared /\ l.nid # NoNid => Doubtful(ConnOf(g), l.nid)'
  <2>1. Named(l) \in Confirmable /\ (l.cleared /\ l.nid # NoNid => Doubtful(ConnOf(g), l.nid))
    BY DEF SentInv, ReadInv, Honest
  <2>2. l.nid # NoNid => Named(l) \in sent /\ Named(l).nid = l.nid
    BY <2>1, NamedWasSent DEF Named
  <2> QED  BY <1>1, <2>1, <2>2, DoubtStays DEF ReadInv
<1>4. ASSUME NEW l \in task[g].loaded, m.cleared = l.cleared, m.nid = l.nid,
             m.read => l.read \/ l.cleared \/ l.nid \in readState
      PROVE  Honest(ConnOf(g), m)'
  <2>1. Honest(ConnOf(g), l)
    BY DEF ReadInv
  <2>2. CASE l.cleared
    BY <1>3, <1>4, <2>2 DEF Honest
  <2>3. CASE ~l.cleared
    <3>1. l.nid # NoNid /\ (l.read => ShownText(l.nid))
      BY <2>1, <2>3 DEF Honest
    <3>2. l.nid \in readState => ShownText(l.nid)
      BY <3>1 DEF ReadInv, MarksInv
    <3> QED  BY <1>2, <1>4, <2>3, <3>1, <3>2 DEF Honest
  <2> QED  BY <2>2, <2>3
<1>5. CASE m \in task[g].loaded
  BY <1>4, <1>5
<1>6. ASSUME NEW i \in task[g].toLoad, m = PushOf(i)  PROVE Honest(ConnOf(g), m)'
  <2>1. CASE m.cleared
    <3>1. m.nid = i.nid
      BY <1>6 DEF PushOf, Expiry, Unread
    <3>2. i.nid # NoNid => now > born[i.nid] + TTL - Tolerance
      BY <1>6, <2>1, ClearedInTime
    <3>3. UNCHANGED <<now, born>>
      BY DEF GoroutineStep, GoroutineError, ReadPendingMessages, RangeLastMessages, LoopStart,
         LoopRead, LoopTimeout, GetNotification, GetReadStatuses, WriteJSON, ReadFails,
         LoopReplyLost, GetFails, ReadNewMessages, vars, calls
    <3> QED  BY <2>1, <3>1, <3>2, <3>3 DEF Honest, Doubtful, Tolerance
  <2>2. CASE ~m.cleared
    <3>1. m = Unread(i) /\ i.nid # NoNid
      BY <1>6, <2>2 DEF PushOf, Expiry
    <3> QED  BY <3>1 DEF Unread, Honest
  <2> QED  BY <2>1, <2>2
<1>7. ASSUME NEW i \in task[g].toLoad, m = Expiry(i), errors' # 0 \/ handler'[ConnOf(g)] = "returned"
      PROVE  Honest(ConnOf(g), m)'
  BY <1>7 DEF Expiry, Honest, Doubtful
<1> QED  BY <1>4, <1>5, <1>6, <1>7 DEF Given

(* An honest push stays so. *)
LEMMA HonestStays ==
  ASSUME DeliveryTypeOK, SentInv, OnceInv, HandlerInv, [DeliveryNext]_dvars, NEW d \in Conn, NEW m,
         Named(m) \in Confirmable, Honest(d, m)
  PROVE  Honest(d, m)'
<1>1. m.nid # NoNid => Named(m) \in sent /\ Named(m).nid = m.nid
  BY NamedWasSent DEF Named
<1>2. m.nid # NoNid /\ Doubtful(d, m.nid) => Doubtful(d, m.nid)'
  BY <1>1, DoubtStays
<1>3. m.nid # NoNid /\ ShownText(m.nid) => ShownText(m.nid)'
  BY ShownStays
<1> QED  BY <1>2, <1>3 DEF Honest

(* ReadInv: no step makes a notification read that nobody was shown. *)
LEMMA ReadNext ==
  ASSUME DeliveryTypeOK, SentInv, IdInv, PayloadInv, ReadInv, [DeliveryNext]_dvars
  PROVE  ReadInv'
<1> USE DEF DeliveryTypeOK
<1>1. OnceInv' /\ HandlerInv'
  BY OnceNext, HandlerNext, StepRefines DEF ReadInv, dvars
<1>2. MarksInv'
  BY ShownStays, MarksStep DEF ReadInv, MarksInv
<1>3. ASSUME NEW g \in Goroutine, NEW m \in task[g].loaded  PROVE Honest(ConnOf(g), m)'
  <2>1. ConnOf(g) \in Conn
    BY DEF Goroutine, ConnOf
  <2> QED  BY <1>3, <2>1, HonestStays DEF ReadInv, SentInv
<1>4. ASSUME NEW c \in Conn, NEW m \in got'[c]  PROVE Honest(c, m)'
  <2>1. CASE m \in got[c]
    BY <1>4, <2>1, HonestStays DEF ReadInv, SentInv
  <2>2. CASE m \notin got[c]
    <3>1. PICK g \in Goroutine : m \in task[g].loaded /\ ConnOf(g) = c
      BY <1>4, <2>2, GotStep
    <3> QED  BY <1>3, <3>1
  <2> QED  BY <2>1, <2>2
<1>5. ASSUME NEW h \in Goroutine, NEW m \in task'[h].loaded  PROVE Honest(ConnOf(h), m)'
  <2>1. ASSUME NEW g \in Goroutine, GoroutineStep(g) \/ GoroutineError(g)
        PROVE  Honest(ConnOf(h), m)'
    <3>1. PICK t : task' = [task EXCEPT ![g] = t] /\ \A l \in t.loaded : Given(g, l)
      BY <2>1, LoadedStep
    <3>2. CASE h = g
      BY <1>5, <2>1, <3>1, <3>2, HonestStep
    <3>3. CASE h # g
      BY <1>3, <1>5, <3>1, <3>3
    <3> QED  BY <3>2, <3>3
  <2>2. CASE task'[h].loaded \subseteq task[h].loaded
    BY <1>3, <1>5, <2>2
  <2>3. ASSUME NEW c \in Conn, ClientStep(c) \/ SessionStep(c)
        PROVE  task'[h].loaded \subseteq task[h].loaded
    <3>1. \A k : Begin(k).loaded = {}
      BY DEF Begin
    <3>2. \A i : [Begin("ack") EXCEPT !.toLoad = {i}].loaded = {}
      BY DEF Begin
    <3>3. \/ task' = task
          \/ \E r \in Role : \E k : task' = [task EXCEPT ![<<c, r>>] = Begin(k)]
          \/ \E r \in Role : \E i :
               task' = [task EXCEPT ![<<c, r>>] = [Begin("ack") EXCEPT !.toLoad = {i}]]
      BY <2>3 DEF ClientStep, SessionStep, Connect, ClientAcks, AckReturns, ClientSetsRetention,
         ClientSyncs, ClientStops, PeerLeaves, Displaced, HandlerReturns, Close, sessions, Role
    <3>4. \A r \in Role : <<c, r>> \in Goroutine
      BY DEF Goroutine
    <3>5. task' = task \/ \E g \in Goroutine : \E t : t.loaded = {} /\ task' = [task EXCEPT ![g] = t]
      BY <3>1, <3>2, <3>3, <3>4
    <3> QED  BY <3>5
  <2>4. CASE Environment \/ UNCHANGED dvars
    BY <2>2, <2>4 DEF Environment, dvars, sessions
  <2> QED  BY <2>1, <2>2, <2>3, <2>4 DEF DeliveryNext
<1> QED  BY <1>1, <1>2, <1>4, <1>5 DEF ReadInv

(* A client is shown as read only what a client of the user has been shown *)
(* before, unread, or as an expired one if it may have expired: whoever    *)
(* confirmed what, on whatever connection, and however late the mark came. *)
THEOREM ReadIsHonest == DeliverySpec => []ReadWasShown
<1> DEFINE Inv == DeliveryTypeOK /\ SentInv /\ IdInv /\ ReadInv
<1>1. DeliveryInit => Inv
  <2> SUFFICES ASSUME DeliveryInit  PROVE Inv
    OBVIOUS
  <2>1. DeliveryTypeOK /\ SentInv /\ IdInv
    BY DeliveryInitType DEF DeliveryInit, Init, SentInv, IdInv, Begin
  <2>2. ReadInv
    BY DEF DeliveryInit, Init, ReadInv, MarksInv, OnceInv, HandlerInv, Begin
  <2> QED  BY <2>1, <2>2
<1>2. ASSUME Inv, IInv, [DeliveryNext]_dvars  PROVE Inv'
  <2>1. [Next]_vars
    BY <1>2, StepRefines DEF dvars
  <2>2. DeliveryTypeOK' /\ SentInv' /\ IdInv'
    BY <1>2, <2>1, DeliveryNextType, SentNext, IdNext DEF IInv
  <2>3. ReadInv'
    BY <1>2, ReadNext DEF IInv
  <2> QED  BY <2>2, <2>3
<1>3. Inv => ReadWasShown
  BY DEF ReadInv, Honest, ShownText, ReadWasShown
<1>4. DeliverySpec => []IInv
  BY Refinement, Invariance, PTL DEF RepositorySpec
<1>5. Inv /\ IInv /\ [DeliveryNext]_dvars => Inv'
  BY <1>2
<1> HIDE DEF Inv
<1> QED  BY <1>1, <1>3, <1>4, <1>5, PTL DEF DeliverySpec

(* What is proved of the keys of a user holds of the keys that the         *)
(* sessions work on: the user has a mailbox, an entry of the stream stays  *)
(* until it is old, and a confirmed message stays confirmed.               *)
THEOREM SessionsServeMailbox ==
  DeliverySpec => MailboxRefined /\ LiveEntryKept /\ []ConfirmedNotPending
  BY Refinement, RepositoryIsMailbox, LiveEntriesKept, ConfirmedStays, PTL
  DEF RepositorySpec

-----------------------------------------------------------------------------
(* The refinement of SessionLife. *)

LinkOf == [c \in Conn |-> IF socket[c] \in {"broken", "closed"} THEN "gone" ELSE socket[c]]

EndedOf == [c \in Conn |-> {r \in Role : task[<<c, r>>].kind = "done"}]

(* Before its session starts, a connection has no goroutine at work. *)
StartInv ==
  \A c \in Conn :
    /\ socket[c] = "none" <=> handler[c] = "none"
    /\ handler[c] = "none" => \A r \in Role : task[<<c, r>>] = Begin("idle")

LEMMA NotStarted ==
  ASSUME StartInv, NEW c \in Conn, handler[c] = "none"
  PROVE  /\ socket[c] = "none"
         /\ task[<<c, "delivery">>].kind = "idle" /\ task[<<c, "client">>].kind = "idle"
<1>1. Begin("idle").kind = "idle"
  BY DEF Begin
<1>2. "delivery" \in Role /\ "client" \in Role
  BY DEF Role
<1>3. \A r \in Role : task[<<c, r>>] = Begin("idle")
  BY DEF StartInv
<1> QED  BY <1>1, <1>2, <1>3 DEF StartInv

(* A goroutine works for a session that has started, and not after it has *)
(* ended.                                                                 *)
LEMMA AtWork ==
  ASSUME DeliveryTypeOK, ShapeInv, StartInv,
         NEW g \in Goroutine, GoroutineStep(g) \/ GoroutineError(g)
  PROVE  /\ handler[ConnOf(g)] # "none" /\ task[g].kind # "done"
         /\ UNCHANGED <<socket, handler>>
         /\ \E t : task' = [task EXCEPT ![g] = t]
<1>1. UNCHANGED <<socket, handler>>
  BY DEF GoroutineStep, GoroutineError, ReadPendingMessages, RangeLastMessages, LoopStart,
     LoopRead, LoopTimeout, GetNotification, GetReadStatuses, WriteJSON, ReadFails,
     LoopReplyLost, GetFails
<1>2. \/ task[g].kind \in {"pending", "history", "new"}
      \/ task[g].step \in {"block", "load", "status", "push"}
  BY DEF GoroutineStep, GoroutineError, ReadPendingMessages, RangeLastMessages, LoopStart,
     LoopRead, LoopTimeout, GetNotification, GetReadStatuses, WriteJSON, ReadFails,
     LoopReplyLost, GetFails, At
<1>3. task[g].kind # "done"
  BY <1>2 DEF ShapeInv, Shape
<1>4. PICK c \in Conn, r \in Role : g = <<c, r>>
  BY DEF Goroutine
<1>5. task[g] # Begin("idle")
  BY <1>2 DEF Begin
<1>6. handler[ConnOf(g)] # "none"
  BY <1>4, <1>5 DEF StartInv, ConnOf
<1>7. \E t : task' = [task EXCEPT ![g] = t]
  BY ShapeStep
<1> QED  BY <1>1, <1>3, <1>6, <1>7

LEMMA StartNext ==
  ASSUME DeliveryTypeOK, ShapeInv, StartInv, [DeliveryNext]_dvars
  PROVE  StartInv'
<1> USE DEF DeliveryTypeOK, StartInv
<1>1. ASSUME NEW g \in Goroutine, GoroutineStep(g) \/ GoroutineError(g)
      PROVE  StartInv'
  <2>1. PICK c \in Conn, r \in Role : g = <<c, r>>
    BY DEF Goroutine
  <2>2. handler[c] # "none" /\ UNCHANGED <<socket, handler>>
    BY <1>1, <2>1, AtWork DEF ConnOf
  <2>3. PICK t : task' = [task EXCEPT ![<<c, r>>] = t]
    BY <1>1, <2>1, AtWork
  <2>4. \A d \in Conn \ {c} : \A q \in Role : task'[<<d, q>>] = task[<<d, q>>]
    BY <2>3 DEF Goroutine
  <2> QED  BY <2>2, <2>4
<1>2. ASSUME NEW c \in Conn, ClientStep(c) \/ SessionStep(c)
      PROVE  StartInv'
  <2> DEFINE Others == \A d \in Conn \ {c} :
               /\ UNCHANGED <<socket[d], handler[d]>>
               /\ \A q \in Role : task'[<<d, q>>] = task[<<d, q>>]
  <2>1. Others
    <3>1. \A d \in Conn \ {c} : UNCHANGED <<socket[d], handler[d]>>
      BY <1>2 DEF ClientStep, SessionStep, Connect, ClientAcks, AckReturns, ClientSetsRetention,
         ClientSyncs, ClientStops, PeerLeaves, Displaced, HandlerReturns, Close, sessions
    <3>2. task' = task \/ \E r \in Role : \E t : task' = [task EXCEPT ![<<c, r>>] = t]
      BY <1>2 DEF ClientStep, SessionStep, Connect, ClientAcks, AckReturns, ClientSetsRetention,
         ClientSyncs, ClientStops, PeerLeaves, Displaced, HandlerReturns, Close, sessions, Role
    <3>3. \A d \in Conn \ {c} : \A q \in Role : task'[<<d, q>>] = task[<<d, q>>]
      BY <3>2 DEF Goroutine
    <3> QED  BY <3>1, <3>3
  <2>2. CASE Connect(c)
    <3>1. socket'[c] = "open" /\ handler'[c] = "running"
      BY <2>2 DEF Connect
    <3> QED  BY <2>1, <3>1
  <2>3. CASE ClientAcks(c) \/ AckReturns(c) \/ ClientSyncs(c) \/ ClientStops(c)
    <3>1. UNCHANGED <<socket, handler>>
      BY <2>3 DEF ClientAcks, AckReturns, ClientSyncs, ClientStops
    <3>2. socket[c] # "none" \/ task[<<c, "client">>].kind = "ack"
      BY <2>3 DEF ClientAcks, AckReturns, ClientSyncs, ClientStops
    <3>3. handler[c] # "none"
      BY <3>2, NotStarted
    <3> QED  BY <2>1, <3>1, <3>3
  <2>4. CASE ClientSetsRetention(c)
    BY <2>4 DEF ClientSetsRetention, sessions
  <2>5. CASE PeerLeaves(c) \/ Displaced(c) \/ HandlerReturns(c) \/ Close(c)
    <3>1. handler[c] # "none" /\ socket[c] # "none" /\ handler'[c] # "none" /\ socket'[c] # "none"
      BY <2>5 DEF PeerLeaves, Displaced, HandlerReturns, Close
    <3> QED  BY <2>1, <3>1
  <2> QED  BY <1>2, <2>2, <2>3, <2>4, <2>5 DEF ClientStep, SessionStep
<1>3. CASE Environment \/ UNCHANGED dvars
  BY <1>3 DEF Environment, sessions, dvars
<1> QED  BY <1>1, <1>2, <1>3 DEF DeliveryNext

(* A goroutine that goes on does not show, and one that ends does. *)
LEMMA TaskLife ==
  ASSUME DeliveryTypeOK, NEW c \in Conn, NEW r \in Role, NEW t,
         handler[c] # "none", task[<<c, r>>].kind # "done",
         task' = [task EXCEPT ![<<c, r>>] = t], UNCHANGED <<socket, handler>>
  PROVE  [Life!Next]_(Life!lifeVars)
<1> USE DEF DeliveryTypeOK
<1>1. LinkOf' = LinkOf
  BY DEF LinkOf
<1>2. task' \in [Goroutine -> {task'[g] : g \in Goroutine}] /\ <<c, r>> \in Goroutine
  BY DEF Goroutine
<1>3. CASE t.kind # "done"
  <2>1. EndedOf' = EndedOf
    BY <1>2, <1>3 DEF EndedOf, Goroutine
  <2> QED  BY <1>1, <2>1 DEF Life!lifeVars, LinkOf, EndedOf
<1>4. CASE t.kind = "done"
  <2>1. r \notin EndedOf[c]
    BY DEF EndedOf
  <2>2. \A d \in Conn : EndedOf'[d] = IF d = c THEN EndedOf[c] \union {r} ELSE EndedOf[d]
    BY <1>2, <1>4 DEF EndedOf, Goroutine
  <2>3. EndedOf' = [EndedOf EXCEPT ![c] = EndedOf[c] \union {r}]
    BY <2>2 DEF EndedOf
  <2>4. Life!End(c, r)
    BY <1>1, <2>1, <2>3 DEF Life!End, LinkOf, EndedOf
  <2> QED  BY <2>4 DEF Life!Next, Life!Role, Role
<1> QED  BY <1>3, <1>4

(* The steps of a session other than those of its goroutines. *)
LEMMA SessionLives ==
  ASSUME DeliveryTypeOK, StartInv, NEW c \in Conn, ClientStep(c) \/ SessionStep(c)
  PROVE  [Life!Next]_(Life!lifeVars)
<1> USE DEF DeliveryTypeOK, StartInv
<1>1. ASSUME UNCHANGED <<handler, task>>, socket[c] # "none",
             \E l \in {"broken", "closed"} : socket' = [socket EXCEPT ![c] = l]
      PROVE  [Life!Next]_(Life!lifeVars)
  <2>1. EndedOf' = EndedOf
    BY <1>1 DEF EndedOf
  <2>2. CASE socket[c] = "open"
    <3>1. LinkOf[c] = "open" /\ LinkOf' = [LinkOf EXCEPT ![c] = "gone"]
      BY <1>1, <2>2 DEF LinkOf
    <3>2. Life!Lose(c)
      BY <1>1, <2>1, <3>1 DEF Life!Lose, LinkOf, EndedOf
    <3> QED  BY <3>2 DEF Life!Next
  <2>3. CASE socket[c] # "open"
    <3>1. LinkOf' = LinkOf
      BY <1>1, <2>3 DEF LinkOf
    <3> QED  BY <1>1, <2>1, <3>1 DEF Life!lifeVars, LinkOf, EndedOf
  <2> QED  BY <2>2, <2>3
<1>2. CASE Connect(c)
  <2>1. /\ socket[c] = "none" /\ handler[c] = "none"
        /\ socket' = [socket EXCEPT ![c] = "open"] /\ handler' = [handler EXCEPT ![c] = "running"]
        /\ task' = [task EXCEPT ![<<c, "delivery">>] = Begin("pending")]
    BY <1>2 DEF Connect
  <2>2. LinkOf' = [LinkOf EXCEPT ![c] = "open"]
    BY <2>1 DEF LinkOf
  <2>3. task[<<c, "delivery">>].kind = "idle"
    BY <2>1, NotStarted
  <2>4. EndedOf' = EndedOf
    <3>1. \A d \in Conn, q \in Role :
            task'[<<d, q>>].kind = "done" <=> task[<<d, q>>].kind = "done"
      BY <2>1, <2>3 DEF Goroutine, Begin
    <3> QED  BY <3>1 DEF EndedOf
  <2>5. Life!Start(c)
    BY <2>1, <2>2, <2>4 DEF Life!Start, LinkOf, EndedOf
  <2> QED  BY <2>5 DEF Life!Next
<1>3. CASE ClientAcks(c) \/ AckReturns(c) \/ ClientSyncs(c) \/ ClientStops(c)
  <2>1. /\ UNCHANGED <<socket, handler>> /\ task[<<c, "client">>].kind \in {"idle", "ack"}
        /\ \E t : task' = [task EXCEPT ![<<c, "client">>] = t]
    BY <1>3 DEF ClientAcks, AckReturns, ClientSyncs, ClientStops
  <2>2. handler[c] # "none"
    <3>1. socket[c] # "none" \/ task[<<c, "client">>].kind = "ack"
      BY <1>3 DEF ClientAcks, AckReturns, ClientSyncs, ClientStops
    <3> QED  BY <3>1, NotStarted
  <2> QED  BY <2>1, <2>2, TaskLife DEF Role
<1>4. CASE ClientSetsRetention(c)
  BY <1>4 DEF ClientSetsRetention, sessions, Life!lifeVars
<1>5. CASE PeerLeaves(c) \/ Displaced(c) \/ Close(c)
  BY <1>1, <1>5 DEF PeerLeaves, Displaced, Close
<1>6. CASE HandlerReturns(c)
  <2>1. /\ handler[c] = "running" /\ handler' = [handler EXCEPT ![c] = "returned"]
        /\ EndedOf[c] # {} /\ UNCHANGED <<socket, task>>
    BY <1>6 DEF HandlerReturns, EndedOf
  <2>2. Life!Cancel(c)
    BY <2>1 DEF Life!Cancel, EndedOf
  <2> QED  BY <2>2 DEF Life!Next
<1> QED  BY <1>2, <1>3, <1>4, <1>5, <1>6 DEF ClientStep, SessionStep

(* The sessions of Delivery are those of SessionLife, which Sessions shows *)
(* its handlers to be.                                                     *)
THEOREM DeliveryLives == DeliverySpec => LifeRefined
<1>1. DeliveryInit => StartInv /\ Life!Init
  <2> SUFFICES ASSUME DeliveryInit  PROVE StartInv /\ Life!Init
    OBVIOUS
  <2>1. StartInv
    BY DEF DeliveryInit, StartInv, Goroutine
  <2>2. LinkOf = [c \in Conn |-> "none"]
    BY DEF DeliveryInit, LinkOf
  <2>3. EndedOf = [c \in Conn |-> {}]
    BY DEF DeliveryInit, EndedOf, Goroutine, Begin
  <2> QED  BY <2>1, <2>2, <2>3 DEF DeliveryInit, Life!Init, LinkOf, EndedOf
<1>2. DeliveryTypeOK /\ SyncIInv /\ StartInv /\ [DeliveryNext]_dvars => StartInv'
  BY StartNext DEF SyncIInv
<1>3. ASSUME DeliveryTypeOK, SyncIInv, StartInv, [DeliveryNext]_dvars
      PROVE  [Life!Next]_(Life!lifeVars)
  <2>1. ASSUME NEW g \in Goroutine, GoroutineStep(g) \/ GoroutineError(g)
        PROVE  [Life!Next]_(Life!lifeVars)
    <3>1. PICK c \in Conn, r \in Role : g = <<c, r>> /\ ConnOf(g) = c
      BY DEF Goroutine, ConnOf
    <3>2. ShapeInv
      BY <1>3 DEF SyncIInv
    <3>3. /\ handler[c] # "none" /\ task[<<c, r>>].kind # "done"
          /\ UNCHANGED <<socket, handler>> /\ \E t : task' = [task EXCEPT ![<<c, r>>] = t]
      BY <1>3, <2>1, <3>1, <3>2, AtWork
    <3> QED  BY <1>3, <3>3, TaskLife
  <2>2. ASSUME NEW c \in Conn, ClientStep(c) \/ SessionStep(c)
        PROVE  [Life!Next]_(Life!lifeVars)
    BY <1>3, <2>2, SessionLives
  <2>3. CASE Environment \/ UNCHANGED dvars
    BY <2>3 DEF Environment, sessions, dvars, Life!lifeVars
  <2> QED  BY <1>3, <2>1, <2>2, <2>3 DEF DeliveryNext
<1>4. DeliveryTypeOK /\ SyncIInv /\ StartInv /\ [DeliveryNext]_dvars
        => [Life!Next]_(Life!lifeVars)
  BY <1>3
<1> QED  BY <1>1, <1>2, <1>4, SyncInvariance, PTL DEF DeliverySpec, LifeRefined, Life!Spec
=============================================================================
