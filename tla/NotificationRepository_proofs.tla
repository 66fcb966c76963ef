--------------------- MODULE NotificationRepository_proofs ---------------------
(***************************************************************************)
(* Proofs about NotificationRepository, for every set of notifications and *)
(* pods and every value of the limits and times.                           *)
(***************************************************************************)
EXTENDS NotificationRepository, FiniteSetTheorems, TLAPS

USE DEF NoGroup

(* Cutting to whole seconds gives an integer at most one second less. *)
LEMMA UnixType == \A t \in Int : Unix(t) \in Int /\ Unix(t) <= t /\ t - Second < Unix(t)
  BY TimeAssumption DEF Unix

(* The initial state is well typed. *)
LEMMA InitType == Init => TypeOK
  BY LimitAssumption DEF Init, TypeOK, CreateSteps, Round, JanitorIdle, TrimmerIdle

(* The steps of CreateNotification. *)
LEMMA CreateType ==
  ASSUME TypeOK, NEW n \in Nid, CreateNotification(n) \/ CreateFailure(n)
  PROVE  TypeOK'
<1> USE DEF TypeOK, CreateSteps, keys, calls, acks, workers
<1>1. CASE SetPayload(n)
  BY <1>1, TimeAssumption DEF SetPayload
<1>2. CASE CreateGroup(n)
  BY <1>2 DEF CreateGroup, GroupAfterCreate
<1>3. CASE XAdd(n)
  <2>1. [id |-> lastId + 1, nid |-> n, at |-> now] \in Entry
    BY DEF Entry
  <2>2. stream' \subseteq Entry /\ sent' \subseteq Message
    BY <1>3, <2>1 DEF XAdd, Newest, Message
  <2>3. create' \in [Nid -> CreateSteps] /\ sid' \in [Nid -> Nat] /\ lastId' \in Nat
    BY <1>3 DEF XAdd
  <2> QED  BY <1>3, <2>2, <2>3 DEF XAdd
<1>4. CASE ScheduleTTL(n)
  <2>1. sid[n] \in Nat
    OBVIOUS
  <2>2. Due(n) \in Int
    BY UnixType, TimeAssumption, PodAssumption DEF Due, PodClock
  <2>3. schedule' \subseteq Deadline
    BY <1>4, <2>1, <2>2 DEF ScheduleTTL, Deadline
  <2> QED  BY <1>4, <2>3 DEF ScheduleTTL
<1>5. CASE CreateFailure(n)
  <2>1. create' \in [Nid -> CreateSteps] /\ sid' \in [Nid -> Nat]
    BY <1>5 DEF CreateFailure, ScheduleFails, CreateAborts, PipelineRetry
  <2>2. faults' \in 0..MaxFaults
    BY <1>5, LimitAssumption DEF CreateFailure, ScheduleFails, CreateAborts, PipelineRetry, Fail
  <2>3. UNCHANGED <<now, keys, born, sent, acks, workers, confirmed>>
    BY <1>5 DEF CreateFailure, ScheduleFails, CreateAborts, PipelineRetry
  <2> QED  BY <2>1, <2>2, <2>3
<1> QED  BY <1>1, <1>2, <1>3, <1>4, <1>5 DEF CreateNotification

(* The commands of a session. *)
LEMMA SessionType ==
  ASSUME TypeOK, Session
  PROVE  TypeOK'
<1> USE DEF TypeOK, keys, calls, acks, workers
<1>1. CASE EnsureConsumerGroup
  BY <1>1 DEF EnsureConsumerGroup
<1>2. CASE ReadNewMessages
  <2>1. {e.id : e \in NewBatch} \subseteq Nat \ {0}
    BY DEF NewBatch, Undelivered, Entry
  <2> QED  BY <1>2, <2>1 DEF ReadNewMessages
<1>3. ASSUME NEW m \in Confirmable, AckMessage(m)  PROVE TypeOK'
  BY <1>3 DEF AckMessage, Confirmable, Message, Receipt
<1>4. ASSUME NEW m \in acking, AckXAck(m)  PROVE TypeOK'
  BY <1>4 DEF AckXAck, Receipt
<1>5. ASSUME NEW m \in marking, AckMarkRead(m)  PROVE TypeOK'
  BY <1>5 DEF AckMarkRead, Receipt
<1>6. ASSUME NEW m \in acking \union marking, AckAborts(m)  PROVE TypeOK'
  BY <1>6, LimitAssumption DEF AckAborts, Fail
<1>7. ASSUME NEW d \in RetentionInput, SetUserRetentionDays(d)  PROVE TypeOK'
  BY <1>7, LimitAssumption DEF SetUserRetentionDays, Clamp
<1> QED  BY <1>1, <1>2, <1>3, <1>4, <1>5, <1>6, <1>7 DEF Session, AckInFlight

(* The commands of the three workers. *)
LEMMA WorkerType ==
  ASSUME TypeOK, Worker
  PROVE  TypeOK'
<1> USE DEF TypeOK, keys, calls, acks, workers
<1>1. ASSUME NEW p \in JanitorPod, JanitorFetch(p)  PROVE TypeOK'
  BY <1>1 DEF Round, JanitorFetch, ExpiredBatch, Expired
<1>2. ASSUME NEW p \in JanitorPod, JanitorXAck(p)  PROVE TypeOK'
  <2>1. PICK z \in janitor[p].todo :
          janitor' = [janitor EXCEPT ![p] = [@ EXCEPT !.step = "xdel", !.cur = {z}]]
    BY <1>2 DEF JanitorXAck
  <2>2. janitor[p] \in Round /\ {z} \in SUBSET Deadline
    BY DEF Round
  <2>3. [janitor[p] EXCEPT !.step = "xdel", !.cur = {z}] \in Round
    BY <2>2 DEF Round
  <2>4. pel' \subseteq Nat \ {0}
    BY <1>2 DEF JanitorXAck
  <2> QED  BY <1>2, <2>1, <2>3, <2>4 DEF JanitorXAck
<1>3. ASSUME NEW p \in JanitorPod, JanitorXDel(p)  PROVE TypeOK'
  BY <1>3 DEF Round, JanitorXDel
<1>4. ASSUME NEW p \in JanitorPod, JanitorDel(p)  PROVE TypeOK'
  <2>1. [janitor[p] EXCEPT !.step = "xack", !.cur = {},
                           !.todo = janitor[p].todo \ janitor[p].cur] \in Round
    BY DEF Round
  <2>2. payload' \in [Nid -> Nat]
    BY <1>4 DEF JanitorDel
  <2> QED  BY <1>4, <2>1, <2>2 DEF JanitorDel
<1>5. ASSUME NEW p \in JanitorPod, JanitorZRem(p)  PROVE TypeOK'
  BY <1>5 DEF Round, JanitorZRem, JanitorIdle
<1>6. ASSUME NEW p \in JanitorPod, JanitorFails(p)  PROVE TypeOK'
  BY <1>6, LimitAssumption DEF Round, JanitorFails, JanitorIdle, Fail
<1>7. ASSUME NEW p \in TrimmerPod, RetentionTrimmer(p)  PROVE TypeOK'
  <2>1. CASE TrimmerList(p)
    BY <2>1 DEF TrimmerList
  <2>2. CASE TrimmerGetDays(p)
    BY <2>2, LimitAssumption DEF TrimmerGetDays, GetUserRetentionDays, Clamp
  <2>3. CASE TrimmerXTrim(p)
    BY <2>3, LimitAssumption DEF TrimmerXTrim, TrimmerIdle
  <2>4. CASE TrimmerFails(p)
    BY <2>4, LimitAssumption DEF TrimmerFails, TrimmerIdle, Fail
  <2> QED  BY <1>7, <2>1, <2>2, <2>3, <2>4 DEF RetentionTrimmer
<1>8. ASSUME NEW p \in MaintainerPod, GroupMaintenance(p)  PROVE TypeOK'
  BY <1>8 DEF GroupMaintenance, MaintainerList, Reclaim
<1> QED
  BY <1>1, <1>2, <1>3, <1>4, <1>5, <1>6, <1>7, <1>8
  DEF Worker, CleanupExpiredNotifications

(* Every step of the repository keeps it well typed. *)
LEMMA NextType == TypeOK /\ [Next]_vars => TypeOK'
<1> SUFFICES ASSUME TypeOK, [Next]_vars  PROVE TypeOK'
  OBVIOUS
<1>1. CASE Tick
  BY <1>1 DEF TypeOK, Tick, keys, calls, acks, workers
<1>2. CASE UNCHANGED vars
  BY <1>2 DEF TypeOK, vars, keys, calls, acks, workers
<1> QED  BY <1>1, <1>2, CreateType, SessionType, WorkerType DEF Next, Creation

(* Every reachable state is well typed. *)
THEOREM TypeCorrect == Spec => []TypeOK
<1> QED  BY InitType, NextType, PTL DEF Spec

-----------------------------------------------------------------------------
(* The inductive invariant. *)

(* Deadlines that are in the scheduler or in the hands of a janitor. *)
Known == schedule \union UNION {janitor[p].batch : p \in JanitorPod}

(* A janitor works on a batch of deadlines that its clock has reached. *)
BatchInv ==
  \A p \in JanitorPod :
    /\ janitor[p].todo \subseteq janitor[p].batch
    /\ janitor[p].cur \subseteq janitor[p].batch
    /\ \A z \in janitor[p].batch : z.due <= now + MaxSkew

(* A deadline belongs to a call that is over, so that its payload will not *)
(* be written again.                                                       *)
KnownInv ==
  \A z \in Known :
    /\ create[z.nid] = "done" /\ z.id = sid[z.nid]
    /\ z.due > born[z.nid] + TTL - Second - MaxSkew

(* A payload key that is gone was deleted after its time. *)
PayloadInv ==
  \A n \in Nid :
    /\ born[n] <= now
    /\ \/ payload[n] = born[n] + TTL
       \/ payload[n] = 0 /\ (born[n] = 0 \/ now > born[n] + TTL - Tolerance)

(* IDs and times of the past; the group is there before the first entry. *)
StreamInv ==
  /\ IsFiniteSet(stream)
  /\ \A e \in stream : e.id <= lastId /\ e.at <= now
  /\ group <= lastId
  /\ \A n \in Nid : sid[n] <= lastId
  /\ group = NoGroup => stream = {}
  /\ \A n \in Nid : create[n] = "grouped" => group # NoGroup

(* The deadline of an entry comes TTL after the entry, up to the clocks. *)
MatchInv ==
  \A z \in Known, e \in stream :
    e.id = z.id => z.due > e.at + TTL - Second - MaxSkew

(* What a janitor has swept is not in the stream. *)
SweptInv ==
  \A p \in JanitorPod : \A z \in janitor[p].batch :
    z \notin janitor[p].todo \/ (janitor[p].step = "del" /\ z \in janitor[p].cur)
      => \A e \in stream : e.id # z.id

(* A trim uses at least one day, and a clock value of the past. *)
TrimInv ==
  \A p \in TrimmerPod :
    trimmer[p].step = "trim" => trimmer[p].days >= 1 /\ trimmer[p].since <= now

IInv == /\ TypeOK /\ BatchInv /\ KnownInv /\ PayloadInv /\ StreamInv /\ MatchInv
        /\ SweptInv /\ TrimInv

-----------------------------------------------------------------------------
(* What each kind of step leaves alone, and what it can do to the data the *)
(* invariant is about.                                                     *)

Cleaning == \E p \in JanitorPod : CleanupExpiredNotifications(p) \/ JanitorFails(p)
Trimming == \E p \in TrimmerPod : RetentionTrimmer(p)
Maintaining == \E p \in MaintainerPod : GroupMaintenance(p)

(* The kinds of steps, by the part of the state they change. *)
LEMMA NextKinds ==
  ASSUME [Next]_vars
  PROVE  Creation \/ Session \/ Cleaning \/ Trimming \/ Maintaining \/ Tick \/ UNCHANGED vars
  BY DEF Next, Worker, Creation, Cleaning, Trimming, Maintaining

(* What a step of CreateNotification leaves alone. *)
LEMMA CreationFrame ==
  ASSUME Creation
  PROVE  UNCHANGED <<now, pel, readState, retention, acks, workers, confirmed>>
  BY DEF Creation, CreateNotification, CreateFailure, SetPayload, CreateGroup, XAdd,
         ScheduleTTL, ScheduleFails, CreateAborts, PipelineRetry, keys

(* What a command of a session leaves alone. *)
LEMMA SessionFrame ==
  ASSUME Session
  PROVE  UNCHANGED <<now, payload, stream, lastId, schedule, calls, workers>>
  BY DEF Session, AckInFlight, EnsureConsumerGroup, ReadNewMessages, AckMessage, AckXAck,
         AckMarkRead, AckAborts, SetUserRetentionDays, keys

(* What a command of the TTL janitor leaves alone. *)
LEMMA CleaningFrame ==
  ASSUME Cleaning
  PROVE  UNCHANGED <<now, lastId, group, readState, retention, calls, acks, trimmer,
                     maintainer, confirmed>>
  BY DEF Cleaning, CleanupExpiredNotifications, JanitorFetch, JanitorXAck, JanitorXDel,
         JanitorDel, JanitorZRem, JanitorFails, keys

(* What a command of the retention trimmer leaves alone. *)
LEMMA TrimmingFrame ==
  ASSUME Trimming
  PROVE  UNCHANGED <<now, payload, lastId, group, pel, schedule, readState, retention,
                     calls, acks, janitor, maintainer, confirmed>>
  BY DEF Trimming, RetentionTrimmer, TrimmerList, TrimmerGetDays, TrimmerXTrim,
         TrimmerFails, keys

(* What a command of the group maintenance leaves alone. *)
LEMMA MaintainingFrame ==
  ASSUME Maintaining
  PROVE  UNCHANGED <<now, payload, stream, lastId, group, schedule, readState, retention,
                     calls, acks, janitor, trimmer, confirmed>>
  BY DEF Maintaining, GroupMaintenance, MaintainerList, Reclaim, keys

(* Time changes nothing but the clock. *)
LEMMA TickFrame ==
  ASSUME Tick
  PROVE  UNCHANGED <<keys, calls, acks, workers, confirmed>> /\ now' = now + 1
  BY DEF Tick

(* A call that is over stays over. *)
LEMMA DoneStep ==
  ASSUME TypeOK, [Next]_vars, NEW n \in Nid, create[n] = "done"
  PROVE  create'[n] = "done" /\ sid'[n] = sid[n] /\ born'[n] = born[n]
<1>1. CASE Creation
  BY <1>1 DEF Creation, TypeOK, CreateNotification, CreateFailure, SetPayload, CreateGroup,
         XAdd, ScheduleTTL, ScheduleFails, CreateAborts, PipelineRetry, calls
<1>2. CASE UNCHANGED calls
  BY <1>2 DEF calls
<1> QED
  BY <1>1, <1>2, NextKinds, SessionFrame, CleaningFrame, TrimmingFrame, MaintainingFrame,
     TickFrame DEF vars

(* Only an XADD brings an entry, with a new ID and the current time. *)
LEMMA StreamStep ==
  ASSUME TypeOK, [Next]_vars, NEW e \in stream', e \notin stream
  PROVE  \E n \in Nid : XAdd(n) /\ e = [id |-> lastId + 1, nid |-> n, at |-> now]
<1>1. CASE Creation
  BY <1>1 DEF Creation, CreateNotification, CreateFailure, SetPayload, CreateGroup, XAdd,
         ScheduleTTL, ScheduleFails, CreateAborts, PipelineRetry, keys, Newest
<1>2. CASE Cleaning
  BY <1>2 DEF Cleaning, CleanupExpiredNotifications, JanitorFetch, JanitorXAck,
         JanitorXDel, JanitorDel, JanitorZRem, JanitorFails, keys
<1>3. CASE Trimming
  BY <1>3 DEF Trimming, RetentionTrimmer, TrimmerList, TrimmerGetDays, TrimmerXTrim,
         TrimmerFails, keys
<1> QED
  BY <1>1, <1>2, <1>3, NextKinds, SessionFrame, MaintainingFrame, TickFrame
  DEF vars, keys

(* What a janitor holds after a step, it held before or fetched just now. *)
LEMMA BatchStep ==
  ASSUME TypeOK, BatchInv, [Next]_vars, NEW p \in JanitorPod, NEW z \in janitor'[p].batch
  PROVE  z \in janitor[p].batch \/ (z \in schedule /\ z.due <= now + MaxSkew)
<1>1. CASE Cleaning
  <2>1. PICK q \in JanitorPod : CleanupExpiredNotifications(q) \/ JanitorFails(q)
    BY <1>1 DEF Cleaning
  <2>2. CASE JanitorFetch(q)
    <3>1. ASSUME z \in Expired(q)  PROVE z \in schedule /\ z.due <= now + MaxSkew
      <4>1. PodClock(q) \in Int /\ PodClock(q) <= now + MaxSkew
        BY TimeAssumption, PodAssumption DEF PodClock, TypeOK
      <4>2. Unix(PodClock(q)) \in Int /\ Unix(PodClock(q)) <= PodClock(q)
        BY <4>1, UnixType
      <4>3. z \in schedule /\ z.due <= Unix(PodClock(q)) /\ z.due \in Int
        BY <3>1 DEF Expired, TypeOK, Deadline
      <4> QED  BY <4>1, <4>2, <4>3, TimeAssumption DEF TypeOK
    <3>2. janitor'[p].batch = janitor[p].batch \/ janitor'[p].batch \subseteq Expired(q)
      BY <2>2 DEF JanitorFetch, ExpiredBatch, TypeOK
    <3> QED  BY <3>1, <3>2
  <2>3. CASE JanitorXAck(q)
    BY <2>3 DEF JanitorXAck, TypeOK, Round
  <2>4. CASE JanitorXDel(q)
    BY <2>4 DEF JanitorXDel, TypeOK, Round
  <2>5. CASE JanitorDel(q)
    BY <2>5 DEF JanitorDel, TypeOK, Round
  <2>6. CASE JanitorZRem(q) \/ JanitorFails(q)
    BY <2>6 DEF JanitorZRem, JanitorFails, JanitorIdle, TypeOK, Round
  <2> QED  BY <2>1, <2>2, <2>3, <2>4, <2>5, <2>6 DEF CleanupExpiredNotifications
<1>2. CASE UNCHANGED janitor
  BY <1>2
<1> QED
  BY <1>1, <1>2, NextKinds, CreationFrame, SessionFrame, TrimmingFrame, MaintainingFrame,
     TickFrame DEF vars, workers

(* The clock never goes back. *)
LEMMA NowStep ==
  ASSUME TypeOK, [Next]_vars
  PROVE  now' \in Nat /\ (now' = now \/ (now' = now + 1 /\ Tick))
  BY NextKinds, CreationFrame, SessionFrame, CleaningFrame, TrimmingFrame, MaintainingFrame,
     TickFrame DEF vars, TypeOK

-----------------------------------------------------------------------------
(* Each part of the invariant is preserved. *)

(* BatchInv: a janitor's batch holds only deadlines that had passed. *)
LEMMA BatchNext ==
  ASSUME TypeOK, BatchInv, [Next]_vars
  PROVE  BatchInv'
<1> SUFFICES ASSUME NEW p \in JanitorPod
             PROVE  /\ janitor'[p].todo \subseteq janitor'[p].batch
                    /\ janitor'[p].cur \subseteq janitor'[p].batch
                    /\ \A z \in janitor'[p].batch : z.due <= now' + MaxSkew
  BY DEF BatchInv
<1>1. \A z \in janitor'[p].batch : z.due <= now' + MaxSkew
  <2> SUFFICES ASSUME NEW z \in janitor'[p].batch  PROVE z.due <= now' + MaxSkew
    OBVIOUS
  <2>1. z.due <= now + MaxSkew
    BY BatchStep DEF BatchInv
  <2>2. z.due \in Int
    BY NextType DEF TypeOK, Round, Deadline
  <2> QED  BY <2>1, <2>2, NowStep, TimeAssumption DEF TypeOK
<1>2. /\ janitor'[p].todo \subseteq janitor'[p].batch
      /\ janitor'[p].cur \subseteq janitor'[p].batch
  <2>1. CASE Cleaning
    <3>1. PICK q \in JanitorPod : CleanupExpiredNotifications(q) \/ JanitorFails(q)
      BY <2>1 DEF Cleaning
    <3>2. CASE JanitorFetch(q)
      BY <3>2 DEF JanitorFetch, TypeOK, BatchInv
    <3>3. CASE JanitorXAck(q)
      BY <3>3 DEF JanitorXAck, TypeOK, Round, BatchInv
    <3>4. CASE JanitorXDel(q)
      BY <3>4 DEF JanitorXDel, TypeOK, Round, BatchInv
    <3>5. CASE JanitorDel(q)
      BY <3>5 DEF JanitorDel, TypeOK, Round, BatchInv
    <3>6. CASE JanitorZRem(q) \/ JanitorFails(q)
      BY <3>6 DEF JanitorZRem, JanitorFails, JanitorIdle, TypeOK, BatchInv
    <3> QED  BY <3>1, <3>2, <3>3, <3>4, <3>5, <3>6 DEF CleanupExpiredNotifications
  <2>2. CASE UNCHANGED janitor
    BY <2>2 DEF BatchInv
  <2> QED
    BY <2>1, <2>2, NextKinds, CreationFrame, SessionFrame, TrimmingFrame, MaintainingFrame,
       TickFrame DEF vars, workers
<1> QED  BY <1>1, <1>2

(* A deadline that becomes known is the one a ZADD just wrote. *)
LEMMA KnownStep ==
  ASSUME TypeOK, BatchInv, [Next]_vars, NEW z \in Known', z \notin Known
  PROVE  \E n \in Nid : /\ ScheduleTTL(n)
                        /\ z = [id |-> sid[n], nid |-> n,
                                due |-> Due(n)]
<1>1. z \in schedule' /\ z \notin schedule
  <2>1. ASSUME NEW p \in JanitorPod, z \in janitor'[p].batch  PROVE FALSE
    BY <2>1, BatchStep DEF Known
  <2> QED  BY <2>1 DEF Known
<1>2. CASE Creation
  BY <1>1, <1>2 DEF Creation, CreateNotification, CreateFailure, SetPayload, CreateGroup,
     XAdd, ScheduleTTL, ScheduleFails, CreateAborts, PipelineRetry, keys
<1>3. CASE Cleaning
  BY <1>1, <1>3 DEF Cleaning, CleanupExpiredNotifications, JanitorFetch, JanitorXAck,
     JanitorXDel, JanitorDel, JanitorZRem, JanitorFails, keys
<1> QED
  BY <1>1, <1>2, <1>3, NextKinds, SessionFrame, TrimmingFrame, MaintainingFrame, TickFrame
  DEF vars, keys

(* The second that a ZADD writes, against the clock of Redis. *)
LEMMA DueBound ==
  ASSUME TypeOK, NEW n \in Nid
  PROVE  /\ Due(n) \in Int
         /\ Due(n) > now + TTL - Second - MaxSkew
<1>1. Home[n] \in Pod
  BY PodAssumption
<1>2. PodClock(Home[n]) + TTL \in Int /\ PodClock(Home[n]) >= now - MaxSkew
  BY <1>1, TimeAssumption, PodAssumption DEF PodClock, TypeOK
<1> QED
  BY <1>2, UnixType, TimeAssumption, PodAssumption, <1>1 DEF Due, PodClock, TypeOK

(* A known deadline is a record of the scheduler's type. *)
LEMMA KnownType == TypeOK => Known \subseteq Deadline
  BY DEF TypeOK, Known, Round

(* KnownInv: no known deadline is earlier than its creation allows. *)
LEMMA KnownNext ==
  ASSUME TypeOK, BatchInv, KnownInv, PayloadInv, [Next]_vars
  PROVE  KnownInv'
<1> SUFFICES ASSUME NEW z \in Known'
             PROVE  /\ create'[z.nid] = "done" /\ z.id = sid'[z.nid]
                    /\ z.due > born'[z.nid] + TTL - Second - MaxSkew
  BY DEF KnownInv
<1>1. CASE z \in Known
  <2>1. z.nid \in Nid
    BY <1>1, KnownType DEF Deadline
  <2> QED  BY <1>1, <2>1, DoneStep DEF KnownInv
<1>2. CASE z \notin Known
  <2>1. PICK n \in Nid : /\ ScheduleTTL(n)
                         /\ z = [id |-> sid[n], nid |-> n,
                                 due |-> Due(n)]
    BY <1>2, KnownStep
  <2>2. /\ create'[n] = "done" /\ sid'[n] = sid[n] /\ born'[n] = born[n]
    BY <2>1 DEF ScheduleTTL, TypeOK
  <2>3. z.due > born[n] + TTL - Second - MaxSkew
    BY <2>1, DueBound, TimeAssumption DEF PayloadInv, TypeOK
  <2> QED  BY <2>1, <2>2, <2>3
<1> QED  BY <1>1, <1>2

(* PayloadInv: a payload is there until its TTL is over. *)
LEMMA PayloadNext ==
  ASSUME TypeOK, BatchInv, KnownInv, PayloadInv, [Next]_vars
  PROVE  PayloadInv'
<1> SUFFICES ASSUME NEW n \in Nid
             PROVE  /\ born'[n] <= now'
                    /\ \/ payload'[n] = born'[n] + TTL
                       \/ /\ payload'[n] = 0
                          /\ born'[n] = 0 \/ now' > born'[n] + TTL - Tolerance
  BY DEF PayloadInv
<1>1. ASSUME payload'[n] = payload[n], born'[n] = born[n]
      PROVE  /\ born'[n] <= now'
             /\ \/ payload'[n] = born'[n] + TTL
                \/ /\ payload'[n] = 0
                   /\ born'[n] = 0 \/ now' > born'[n] + TTL - Tolerance
  BY <1>1, NowStep, TimeAssumption DEF PayloadInv, TypeOK, Tolerance
<1>2. CASE Creation
  <2>1. PICK m \in Nid : CreateNotification(m) \/ CreateFailure(m)
    BY <1>2 DEF Creation
  <2>2. CASE SetPayload(m)
    <3>1. CASE m = n
      BY <2>2, <3>1, TimeAssumption DEF SetPayload, TypeOK
    <3>2. CASE m # n
      BY <1>1, <2>2, <3>2 DEF SetPayload, TypeOK
    <3> QED  BY <3>1, <3>2
  <2>3. CASE ~SetPayload(m)
    BY <1>1, <2>1, <2>3 DEF CreateNotification, CreateFailure, CreateGroup, XAdd, ScheduleTTL,
       ScheduleFails, CreateAborts, PipelineRetry, keys
  <2> QED  BY <2>2, <2>3
<1>3. CASE Cleaning
  <2>1. PICK q \in JanitorPod : CleanupExpiredNotifications(q) \/ JanitorFails(q)
    BY <1>3 DEF Cleaning
  <2>2. now' = now /\ born' = born
    BY <1>3, CleaningFrame DEF calls
  <2>3. CASE JanitorDel(q) /\ \E z \in janitor[q].cur : z.nid = n
    <3>1. PICK z \in janitor[q].cur : z.nid = n
      BY <2>3
    <3>2. z \in Known /\ z.due <= now + MaxSkew
      BY <3>1 DEF BatchInv, Known
    <3>3. z.due \in Int /\ z.due > born[n] + TTL - Second - MaxSkew
      BY <3>1, <3>2, KnownType DEF KnownInv, Deadline
    <3>4. payload'[n] = 0
      BY <2>3 DEF JanitorDel
    <3> QED  BY <2>2, <3>2, <3>3, <3>4, TimeAssumption DEF TypeOK, PayloadInv, Tolerance
  <2>4. CASE ~(JanitorDel(q) /\ \E z \in janitor[q].cur : z.nid = n)
    <3>1. payload'[n] = payload[n]
      BY <2>1, <2>4 DEF CleanupExpiredNotifications, JanitorFetch, JanitorXAck, JanitorXDel,
         JanitorDel, JanitorZRem, JanitorFails, keys
    <3> QED  BY <1>1, <2>2, <3>1
  <2> QED  BY <2>3, <2>4
<1> QED
  BY <1>1, <1>2, <1>3, NextKinds, SessionFrame, TrimmingFrame, MaintainingFrame, TickFrame
  DEF vars, keys, calls

(* What XADD keeps of the entries. *)
LEMMA NewestSubset == ASSUME NEW S, NEW k  PROVE Newest(S, k) \subseteq S
  BY DEF Newest

(* StreamInv: entries have IDs the stream generated, each once. *)
LEMMA StreamNext ==
  ASSUME TypeOK, StreamInv, [Next]_vars
  PROVE  StreamInv'
<1>1. CASE Creation
  <2>1. PICK n \in Nid : CreateNotification(n) \/ CreateFailure(n)
    BY <1>1 DEF Creation
  <2>2. CASE CreateGroup(n)
    BY <2>2 DEF CreateGroup, GroupAfterCreate, StreamInv, TypeOK
  <2>3. CASE XAdd(n)
    <3> DEFINE new == [id |-> lastId + 1, nid |-> n, at |-> now]
    <3>1. stream' \subseteq stream \union {new}
      BY <2>3, NewestSubset DEF XAdd
    <3>2. IsFiniteSet(stream')
      <4>1. IsFiniteSet(stream \union {new})
        BY FS_AddElement DEF StreamInv
      <4> QED  BY <3>1, <4>1, FS_Subset
    <3>3. \A e \in stream' : e.id <= lastId' /\ e.at <= now'
      <4>1. new.id = lastId + 1 /\ new.at = now
        OBVIOUS
      <4>2. lastId' = lastId + 1 /\ now' = now
        BY <2>3 DEF XAdd
      <4>3. ASSUME NEW e \in stream  PROVE e.id <= lastId' /\ e.at <= now'
        BY <4>2 DEF StreamInv, TypeOK, Entry
      <4> HIDE DEF new
      <4> QED  BY <3>1, <4>1, <4>2, <4>3 DEF TypeOK
    <3>4. group' = group /\ group' # NoGroup /\ group' <= lastId'
      BY <2>3 DEF XAdd, StreamInv, TypeOK
    <3>5. \A m \in Nid : sid'[m] <= lastId'
      BY <2>3 DEF XAdd, StreamInv, TypeOK
    <3> QED  BY <3>2, <3>3, <3>4, <3>5 DEF StreamInv
  <2>4. CASE SetPayload(n) \/ ScheduleTTL(n)
    BY <2>4 DEF SetPayload, ScheduleTTL, StreamInv, TypeOK
  <2>5. CASE CreateFailure(n)
    BY <2>5 DEF CreateFailure, ScheduleFails, CreateAborts, PipelineRetry, StreamInv, TypeOK, keys
  <2> QED  BY <2>1, <2>2, <2>3, <2>4, <2>5 DEF CreateNotification
<1>2. CASE Session
  <2>1. UNCHANGED <<now, stream, lastId, calls>>
    BY <1>2, SessionFrame
  <2>2. (group' = group \/ group' = lastId \/ \E e \in stream : group' = e.id)
        /\ (group # NoGroup => group' # NoGroup)
        /\ (group' = NoGroup => group = NoGroup)
    <3>1. CASE EnsureConsumerGroup
      BY <3>1 DEF EnsureConsumerGroup
    <3>2. CASE ReadNewMessages
      <4>1. PICK e \in stream : group' = e.id
        BY <3>2 DEF ReadNewMessages, NewBatch, Undelivered
      <4>2. e.id \in Nat
        BY DEF TypeOK, Entry
      <4> QED  BY <3>2, <4>1, <4>2 DEF ReadNewMessages
    <3>3. CASE UNCHANGED group
      BY <3>3
    <3> QED
      BY <1>2, <3>1, <3>2, <3>3
      DEF Session, AckInFlight, AckMessage, AckXAck, AckMarkRead, AckAborts, SetUserRetentionDays, keys
  <2>3. group' <= lastId'
    BY <2>1, <2>2 DEF StreamInv, TypeOK
  <2> QED  BY <2>1, <2>2, <2>3 DEF StreamInv, calls
<1>3. CASE Cleaning \/ Trimming
  <2>1. UNCHANGED <<now, lastId, group, calls>>
    BY <1>3, CleaningFrame, TrimmingFrame
  <2>2. stream' \subseteq stream
    BY <1>3, StreamStep, <2>1 DEF calls, XAdd, TypeOK
  <2> QED  BY <2>1, <2>2, FS_Subset DEF StreamInv, calls
<1>4. CASE Maintaining \/ UNCHANGED vars
  BY <1>4, MaintainingFrame DEF StreamInv, vars, keys, calls
<1>5. CASE Tick
  BY <1>5, TickFrame DEF StreamInv, keys, calls, TypeOK, Entry
<1> QED  BY <1>1, <1>2, <1>3, <1>4, <1>5, NextKinds

(* MatchInv: an entry and a deadline with one ID belong together. *)
LEMMA MatchNext ==
  ASSUME TypeOK, BatchInv, KnownInv, StreamInv, MatchInv, [Next]_vars
  PROVE  MatchInv'
<1> SUFFICES ASSUME NEW z \in Known', NEW e \in stream', e.id = z.id
             PROVE  z.due > e.at + TTL - Second - MaxSkew
  BY DEF MatchInv
<1>1. CASE z \in Known /\ e \in stream
  BY <1>1 DEF MatchInv
<1>2. CASE z \in Known /\ e \notin stream
  <2>1. e.id = lastId + 1
    BY <1>2, StreamStep
  <2>2. z.id <= lastId /\ z.id \in Nat
    BY <1>2, KnownType DEF KnownInv, StreamInv, Deadline
  <2> QED  BY <2>1, <2>2 DEF TypeOK
<1>3. CASE z \notin Known
  <2>1. PICK n \in Nid : /\ ScheduleTTL(n)
                         /\ z.due = Due(n)
    BY <1>3, KnownStep
  <2>2. stream' = stream
    BY <2>1 DEF ScheduleTTL
  <2>3. e.at <= now /\ e.at \in Nat
    BY <2>2 DEF StreamInv, TypeOK, Entry
  <2> QED  BY <2>1, <2>3, DueBound, TimeAssumption DEF TypeOK
<1> QED  BY <1>1, <1>2, <1>3

(* SweptInv: what a round has cleaned it keeps in its batch. *)
LEMMA SweptNext ==
  ASSUME TypeOK, BatchInv, KnownInv, StreamInv, SweptInv, [Next]_vars
  PROVE  SweptInv'
<1> SUFFICES ASSUME NEW p \in JanitorPod, NEW z \in janitor'[p].batch,
                    \/ z \notin janitor'[p].todo
                    \/ janitor'[p].step = "del" /\ z \in janitor'[p].cur,
                    NEW e \in stream'
             PROVE  e.id # z.id
  BY DEF SweptInv
<1>1. ASSUME janitor'[p] = janitor[p]  PROVE e.id # z.id
  <2>1. CASE e \in stream
    BY <1>1, <2>1 DEF SweptInv
  <2>2. CASE e \notin stream
    <3>1. e.id = lastId + 1
      BY <2>2, StreamStep
    <3>2. z.id <= lastId /\ z.id \in Nat
      BY <1>1, KnownType DEF KnownInv, Known, StreamInv, Deadline
    <3> QED  BY <3>1, <3>2 DEF TypeOK
  <2> QED  BY <2>1, <2>2
<1>2. CASE Cleaning
  <2>1. PICK q \in JanitorPod : CleanupExpiredNotifications(q) \/ JanitorFails(q)
    BY <1>2 DEF Cleaning
  <2>2. CASE q # p
    BY <1>1, <2>1, <2>2 DEF CleanupExpiredNotifications, JanitorFetch, JanitorXAck,
       JanitorXDel, JanitorDel, JanitorZRem, JanitorFails, TypeOK
  <2>3. CASE q = p
    <3>1. CASE JanitorFetch(p)
      BY <3>1 DEF JanitorFetch, TypeOK
    <3>2. CASE JanitorXAck(p)
      BY <3>2 DEF JanitorXAck, TypeOK, Round, SweptInv
    <3>3. CASE JanitorXDel(p)
      BY <3>3 DEF JanitorXDel, TypeOK, Round, SweptInv
    <3>4. CASE JanitorDel(p)
      BY <3>4 DEF JanitorDel, TypeOK, Round, SweptInv
    <3>5. CASE JanitorZRem(p) \/ JanitorFails(p)
      BY <3>5 DEF JanitorZRem, JanitorFails, JanitorIdle, TypeOK
    <3> QED  BY <2>1, <2>3, <3>1, <3>2, <3>3, <3>4, <3>5 DEF CleanupExpiredNotifications
  <2> QED  BY <2>2, <2>3
<1>3. CASE UNCHANGED janitor
  BY <1>1, <1>3
<1> QED
  BY <1>2, <1>3, NextKinds, CreationFrame, SessionFrame, TrimmingFrame, MaintainingFrame,
     TickFrame DEF vars, workers

(* TrimInv: a trim uses a retention in range and a time not ahead. *)
LEMMA TrimNext ==
  ASSUME TypeOK, TrimInv, [Next]_vars
  PROVE  TrimInv'
<1>1. CASE Trimming
  <2>1. PICK q \in TrimmerPod : RetentionTrimmer(q)
    BY <1>1 DEF Trimming
  <2>2. now' = now
    BY <1>1, TrimmingFrame
  <2>3. CASE TrimmerGetDays(q)
    BY <2>3, LimitAssumption
    DEF TrimmerGetDays, GetUserRetentionDays, Clamp, TypeOK, TrimInv
  <2>4. CASE TrimmerList(q)
    BY <2>4 DEF TrimmerList, TypeOK, TrimInv
  <2>5. CASE TrimmerXTrim(q) \/ TrimmerFails(q)
    BY <2>2, <2>5 DEF TrimmerXTrim, TrimmerFails, TrimmerIdle, TypeOK, TrimInv
  <2> QED  BY <2>1, <2>3, <2>4, <2>5 DEF RetentionTrimmer
<1>2. CASE UNCHANGED trimmer
  BY <1>2, NowStep DEF TrimInv, TypeOK
<1> QED
  BY <1>1, <1>2, NextKinds, CreationFrame, SessionFrame, CleaningFrame, MaintainingFrame,
     TickFrame DEF vars, workers

(* The inductive invariant holds at the start. *)
LEMMA InitInv == Init => IInv
<1> SUFFICES ASSUME Init  PROVE IInv
  OBVIOUS
<1>1. TypeOK
  BY InitType
<1>2. Known = {}
  BY DEF Init, Known, JanitorIdle
<1>3. BatchInv /\ SweptInv /\ TrimInv
  BY DEF Init, BatchInv, SweptInv, TrimInv, JanitorIdle, TrimmerIdle
<1>4. PayloadInv /\ StreamInv
  BY FS_EmptySet DEF Init, PayloadInv, StreamInv
<1> QED  BY <1>1, <1>2, <1>3, <1>4 DEF IInv, KnownInv, MatchInv

(* Every step preserves the inductive invariant. *)
LEMMA NextInv == IInv /\ [Next]_vars => IInv'
  BY NextType, BatchNext, KnownNext, PayloadNext, StreamNext, MatchNext, SweptNext, TrimNext
  DEF IInv

(* The inductive invariant holds in every reachable state. *)
THEOREM Invariance == Spec => []IInv
  BY InitInv, NextInv, PTL DEF Spec

(* No payload disappears before its time. *)
THEOREM PayloadLives == Spec => []NoEarlyExpiry
<1>1. IInv => NoEarlyExpiry
  BY TimeAssumption DEF IInv, PayloadInv, NoEarlyExpiry, Alive, Tolerance, TypeOK
<1> QED  BY <1>1, Invariance, PTL

-----------------------------------------------------------------------------
(* XREADGROUP leaves no older entry behind the group. *)
LEMMA NewBatchIsOldest ==
  ASSUME StreamInv, TypeOK, NEW m \in NewBatch, NEW e \in Undelivered, e.id <= m.id
  PROVE  e \in NewBatch
<1> DEFINE Below(x) == {f \in Undelivered : f.id < x.id}
<1>1. Undelivered \subseteq stream
  BY DEF Undelivered
<1>2. \A x \in Undelivered : x.id \in Nat
  BY <1>1 DEF TypeOK, Entry
<1>3. m \in Undelivered /\ Cardinality(Below(m)) < BatchLimit
  BY DEF NewBatch
<1>4. Below(e) \subseteq Below(m)
  BY <1>2, <1>3
<1>5. IsFiniteSet(Below(m))
  BY <1>1, FS_Subset DEF StreamInv
<1>6. Cardinality(Below(e)) <= Cardinality(Below(m)) /\ IsFiniteSet(Below(e))
  BY <1>4, <1>5, FS_Subset
<1>7. Cardinality(Below(e)) \in Nat /\ Cardinality(Below(m)) \in Nat
  BY <1>5, <1>6, FS_CardinalityType
<1>8. Cardinality(Below(e)) < BatchLimit
  BY <1>3, <1>6, <1>7, LimitAssumption
<1> QED  BY <1>8 DEF NewBatch

(* An entry that a janitor may sweep is old. *)
LEMMA SweptIsOld ==
  ASSUME TypeOK, BatchInv, MatchInv, NEW p \in JanitorPod, NEW z \in janitor[p].batch,
         NEW e \in stream, e.id = z.id
  PROVE  now > e.at + TTL - Tolerance
<1>1. z \in Known /\ z.due <= now + MaxSkew
  BY DEF Known, BatchInv
<1>2. z.due \in Int /\ e.at \in Nat
  BY <1>1, KnownType DEF TypeOK, Deadline, Entry
<1> QED  BY <1>1, <1>2, TimeAssumption DEF MatchInv, Tolerance, TypeOK

(* No command loses an entry between XADD and confirmation. *)
LEMMA NoLostStep ==
  ASSUME IInv, NoLostEntry, [Next]_vars
  PROVE  NoLostEntry'
<1> USE DEF IInv
<1> SUFFICES ASSUME NEW e \in stream'
             PROVE  \/ e.id > group'
                    \/ e.id \in pel'
                    \/ e.id \in confirmed'
                    \/ now' > e.at + TTL - Tolerance
  BY DEF NoLostEntry
<1>1. ASSUME e \in stream, pel \subseteq pel', confirmed' = confirmed, group' = group
      PROVE  \/ e.id > group' \/ e.id \in pel' \/ e.id \in confirmed'
             \/ now' > e.at + TTL - Tolerance
  BY <1>1, NowStep, TimeAssumption DEF NoLostEntry, TypeOK, Entry, Tolerance
<1>2. CASE e \notin stream
  <2>1. PICK n \in Nid : XAdd(n) /\ e = [id |-> lastId + 1, nid |-> n, at |-> now]
    BY <1>2, StreamStep
  <2> QED  BY <2>1 DEF XAdd, StreamInv, TypeOK
<1>3. CASE e \in stream /\ Creation
  <2>1. PICK n \in Nid : CreateNotification(n) \/ CreateFailure(n)
    BY <1>3 DEF Creation
  <2>2. group # NoGroup
    BY <1>3 DEF StreamInv
  <2>3. group' = group
    BY <2>1, <2>2 DEF CreateNotification, CreateFailure, SetPayload, CreateGroup,
       GroupAfterCreate, XAdd, ScheduleTTL, ScheduleFails, CreateAborts, PipelineRetry, keys
  <2> QED  BY <1>1, <1>3, <2>3, CreationFrame
<1>4. CASE e \in stream /\ Session
  <2>1. CASE EnsureConsumerGroup
    BY <1>4, <2>1 DEF EnsureConsumerGroup, StreamInv
  <2>2. CASE ReadNewMessages
    <3>1. CASE e.id > group
      <4>1. e \in Undelivered
        BY <1>4, <3>1 DEF Undelivered
      <4>2. PICK m \in NewBatch : group' = m.id
        BY <2>2 DEF ReadNewMessages
      <4>3. m.id \in Nat /\ e.id \in Nat
        BY <1>4, <4>2 DEF NewBatch, Undelivered, TypeOK, Entry
      <4>4. CASE e.id <= m.id
        BY <4>1, <4>4, NewBatchIsOldest, <2>2 DEF ReadNewMessages
      <4> QED  BY <4>2, <4>3, <4>4
    <3>2. CASE ~(e.id > group)
      BY <1>4, <2>2, <3>2 DEF ReadNewMessages, NoLostEntry
    <3> QED  BY <3>1, <3>2
  <2>3. ASSUME NEW a \in acking, AckXAck(a)
        PROVE  \/ e.id > group' \/ e.id \in pel' \/ e.id \in confirmed'
               \/ now' > e.at + TTL - Tolerance
    BY <1>4, <2>3 DEF AckXAck, NoLostEntry
  <2>4. CASE UNCHANGED <<pel, confirmed, group>>
    BY <1>1, <1>4, <2>4
  <2> QED
    BY <1>4, <2>1, <2>2, <2>3, <2>4
    DEF Session, AckInFlight, AckMessage, AckMarkRead, AckAborts, SetUserRetentionDays, keys
<1>5. CASE e \in stream /\ Cleaning
  <2>1. PICK q \in JanitorPod : CleanupExpiredNotifications(q) \/ JanitorFails(q)
    BY <1>5 DEF Cleaning
  <2>2. CASE JanitorXAck(q)
    <3>1. PICK z \in janitor[q].todo : pel' = pel \ {z.id}
      BY <2>2 DEF JanitorXAck
    <3>2. CASE e.id = z.id
      BY <1>5, <3>1, <3>2, SweptIsOld, CleaningFrame DEF BatchInv
    <3>3. CASE e.id # z.id
      BY <1>5, <3>1, <3>3, CleaningFrame DEF NoLostEntry
    <3> QED  BY <3>2, <3>3
  <2>3. CASE ~JanitorXAck(q)
    <3>1. pel' = pel
      BY <2>1, <2>3 DEF CleanupExpiredNotifications, JanitorFetch, JanitorXDel, JanitorDel,
         JanitorZRem, JanitorFails, keys
    <3> QED  BY <1>1, <1>5, <3>1, CleaningFrame
  <2> QED  BY <2>2, <2>3
<1>6. CASE e \in stream /\ Maintaining
  <2>1. group' = group /\ confirmed' = confirmed /\ now' = now
    BY <1>6, MaintainingFrame
  <2>2. e.id \in pel => e.id \in pel'
    BY <1>6 DEF Maintaining, GroupMaintenance, MaintainerList, Reclaim, Ghosts, keys
  <2> QED  BY <1>6, <2>1, <2>2 DEF NoLostEntry
<1>7. CASE e \in stream /\ (Trimming \/ Tick \/ UNCHANGED vars)
  BY <1>1, <1>7, TrimmingFrame, TickFrame DEF keys, vars
<1> QED  BY <1>2, <1>3, <1>4, <1>5, <1>6, <1>7, NextKinds

(* Between XADD and the client's confirmation nothing loses a message. *)
THEOREM NothingLost == Spec => []NoLostEntry
<1>1. Init => NoLostEntry
  BY DEF Init, NoLostEntry
<1> QED  BY <1>1, NoLostStep, Invariance, PTL DEF Spec

-----------------------------------------------------------------------------
(* No command takes a scheduled entry's deadline before the entry. *)
LEMMA ScheduledStep ==
  ASSUME IInv, ScheduledUntilDeleted, [Next]_vars
  PROVE  ScheduledUntilDeleted'
<1> USE DEF IInv
<1> SUFFICES ASSUME NEW n \in Nid, create'[n] = "done",
                    NEW e \in stream', e.id = sid'[n]
             PROVE  \E z \in schedule' : z.id = sid'[n] /\ z.nid = n
  BY DEF ScheduledUntilDeleted
<1>1. CASE create[n] = "done"
  <2>1. sid'[n] = sid[n]
    BY <1>1, DoneStep
  <2>2. e \in stream
    <3>1. CASE e \notin stream
      <4>1. e.id = lastId + 1
        BY <3>1, StreamStep
      <4>2. sid[n] \in Nat /\ sid[n] <= lastId /\ lastId \in Nat
        BY DEF StreamInv, TypeOK
      <4>3. lastId + 1 = sid[n]
        BY <4>1, <2>1
      <4>4. ~(lastId + 1 <= lastId)
        BY <4>2
      <4> QED  BY <4>2, <4>3, <4>4
    <3> QED  BY <3>1
  <2>3. PICK z \in schedule : z.id = sid[n] /\ z.nid = n
    BY <1>1, <2>1, <2>2 DEF ScheduledUntilDeleted
  <2>4. z \in schedule'
    <3>1. CASE Cleaning
      <4>1. PICK q \in JanitorPod : CleanupExpiredNotifications(q) \/ JanitorFails(q)
        BY <3>1 DEF Cleaning
      <4>2. CASE JanitorZRem(q)
        <5>1. z \notin janitor[q].batch
          BY <2>1, <2>2, <2>3, <4>2 DEF JanitorZRem, SweptInv
        <5> QED  BY <4>2, <5>1 DEF JanitorZRem
      <4>3. CASE ~JanitorZRem(q)
        BY <4>1, <4>3 DEF CleanupExpiredNotifications, JanitorFetch, JanitorXAck,
           JanitorXDel, JanitorDel, JanitorFails, keys
      <4> QED  BY <4>2, <4>3
    <3>2. CASE Creation
      BY <3>2 DEF Creation, CreateNotification, CreateFailure, SetPayload, CreateGroup,
         XAdd, ScheduleTTL, ScheduleFails, CreateAborts, PipelineRetry, keys
    <3> QED
      BY <3>1, <3>2, NextKinds, SessionFrame, TrimmingFrame, MaintainingFrame, TickFrame
      DEF vars, keys
  <2> QED  BY <2>1, <2>3, <2>4
<1>2. CASE create[n] # "done"
  <2>1. Creation
    BY <1>2, NextKinds, SessionFrame, CleaningFrame, TrimmingFrame, MaintainingFrame,
       TickFrame DEF calls, vars
  <2>2. ScheduleTTL(n)
    <3>1. PICK m \in Nid : CreateNotification(m) \/ CreateFailure(m)
      BY <2>1 DEF Creation
    <3>2. CASE ScheduleTTL(m)
      BY <1>2, <3>2 DEF ScheduleTTL, TypeOK
    <3>3. CASE SetPayload(m) \/ CreateGroup(m) \/ XAdd(m)
      BY <1>2, <3>3 DEF SetPayload, CreateGroup, XAdd, TypeOK
    <3>4. CASE CreateFailure(m)
      BY <1>2, <3>4 DEF CreateFailure, ScheduleFails, CreateAborts, PipelineRetry, TypeOK
    <3> QED  BY <3>1, <3>2, <3>3, <3>4 DEF CreateNotification
  <2> DEFINE new == [id |-> sid[n], nid |-> n, due |-> Due(n)]
  <2>3. new \in schedule' /\ sid' = sid
    BY <2>2 DEF ScheduleTTL
  <2>4. new.id = sid'[n] /\ new.nid = n
    BY <2>3
  <2> QED  BY <2>3, <2>4
<1> QED  BY <1>1, <1>2

(* A scheduled entry stays in the scheduler until the stream has lost it. *)
THEOREM ScheduledKept == Spec => []ScheduledUntilDeleted
<1>1. Init => ScheduledUntilDeleted
  BY DEF Init, ScheduledUntilDeleted
<1> QED  BY <1>1, ScheduledStep, Invariance, PTL DEF Spec

-----------------------------------------------------------------------------
(* A trim takes only entries older than a day by the clock of some pod. *)
LEMMA TrimmedIsOld ==
  ASSUME IInv, NEW p \in TrimmerPod, TrimmerXTrim(p), NEW e \in stream \ stream'
  PROVE  now > e.at + TTL - Tolerance
<1> USE DEF IInv
<1>1. PICK t \in trimmer[p].since..now :
        stream' = {f \in stream : f.at >= t + Skew[p] - trimmer[p].days * Day}
  BY DEF TrimmerXTrim
<1>2. /\ trimmer[p].days \in Nat /\ trimmer[p].days >= 1
      /\ t \in Int /\ t <= now /\ e.at \in Nat
  BY LimitAssumption DEF TrimmerXTrim, TrimInv, TypeOK, Entry
<1>3. trimmer[p].days * Day \in Nat /\ trimmer[p].days * Day >= Day
  <2> DEFINE more == trimmer[p].days - 1
  <2>1. more \in Nat /\ trimmer[p].days = more + 1
    BY <1>2
  <2> HIDE DEF more
  <2>2. more * Day \in Nat
    BY <2>1, TimeAssumption
  <2>3. (more + 1) * Day = more * Day + Day
    BY <2>1, TimeAssumption
  <2> QED  BY <2>1, <2>2, <2>3, TimeAssumption
<1>4. ~(e.at >= t + Skew[p] - trimmer[p].days * Day)
  BY <1>1
<1>5. Skew[p] \in Int /\ Skew[p] <= MaxSkew
  BY PodAssumption
<1> HIDE DEF IInv
<1>6. now \in Nat
  BY DEF IInv, TypeOK
<1> QED  BY <1>2, <1>3, <1>4, <1>5, <1>6, TimeAssumption DEF Tolerance

(* No command takes an entry that is young and within MAXLEN. *)
LEMMA LiveStep ==
  ASSUME IInv, Next, NEW e \in stream \ stream'
  PROVE  \/ now > e.at + TTL - Tolerance
         \/ Cardinality({f \in stream \union stream' : f.id > e.id}) >= MaxLen
<1> USE DEF IInv
<1>1. CASE Creation
  <2>1. PICK n \in Nid : XAdd(n)
    BY <1>1 DEF Creation, CreateNotification, CreateFailure, SetPayload, CreateGroup,
       ScheduleTTL, ScheduleFails, CreateAborts, PipelineRetry, keys
  <2> DEFINE new == [id |-> lastId + 1, nid |-> n, at |-> now]
             S == stream \union {new}
             Above(x) == {f \in S : f.id > x.id}
  <2>2. stream' = Newest(S, MaxLen)
    BY <2>1 DEF XAdd
  <2>3. IsFiniteSet(S)
    BY FS_AddElement DEF StreamInv
  <2>4. Above(new) = {}
    <3>1. new.id = lastId + 1 /\ lastId \in Nat
      BY DEF TypeOK
    <3>2. \A f \in stream : f.id \in Nat /\ f.id <= lastId
      BY DEF StreamInv, TypeOK, Entry
    <3>3. \A f \in S : ~(f.id > new.id)
      BY <3>1, <3>2
    <3> QED  BY <3>3
  <2>5. new \in stream'
    BY <2>2, <2>4, FS_EmptySet, LimitAssumption DEF Newest
  <2>6. stream \union stream' = S
    BY <2>2, <2>5, NewestSubset
  <2>7. ~(Cardinality(Above(e)) < MaxLen)
    BY <2>2 DEF Newest
  <2>8. Cardinality(Above(e)) \in Nat
    BY <2>3, FS_Subset, FS_CardinalityType
  <2>9. Cardinality(Above(e)) >= MaxLen
    BY <2>7, <2>8, LimitAssumption
  <2> QED  BY <2>6, <2>9
<1>2. CASE Cleaning
  <2>1. PICK p \in JanitorPod : JanitorXDel(p)
    BY <1>2 DEF Cleaning, CleanupExpiredNotifications, JanitorFetch, JanitorXAck, JanitorDel,
       JanitorZRem, JanitorFails, keys
  <2>2. PICK z \in janitor[p].cur : z.id = e.id
    BY <2>1 DEF JanitorXDel
  <2> QED  BY <2>2, SweptIsOld DEF BatchInv
<1>3. CASE Trimming
  <2>1. PICK p \in TrimmerPod : TrimmerXTrim(p)
    BY <1>3 DEF Trimming, RetentionTrimmer, TrimmerList, TrimmerGetDays, TrimmerFails, keys
  <2> QED  BY <2>1, TrimmedIsOld
<1> QED
  BY <1>1, <1>2, <1>3, NextKinds, SessionFrame, MaintainingFrame, TickFrame
  DEF keys, vars

(* Only age and MAXLEN take an entry out of the stream. *)
THEOREM LiveEntriesKept == Spec => LiveEntryKept
<1>1. IInv /\ [Next]_vars
        => [\A e \in stream \ stream' :
              \/ now > e.at + TTL - Tolerance
              \/ Cardinality({f \in stream \union stream' : f.id > e.id}) >= MaxLen]_vars
  BY LiveStep
<1> QED  BY <1>1, Invariance, PTL DEF Spec, LiveEntryKept

-----------------------------------------------------------------------------
(* The pending and the confirmed messages are behind the group. *)
GroupInv ==
  /\ \A id \in pel \union confirmed : id <= group
  /\ confirmed \intersect pel = {}

(* GroupInv: the group never moves back over a confirmed message. *)
LEMMA GroupStep ==
  ASSUME IInv, GroupInv, [Next]_vars
  PROVE  GroupInv'
<1> USE DEF IInv
<1>1. CASE Creation
  <2>1. PICK n \in Nid : CreateNotification(n) \/ CreateFailure(n)
    BY <1>1 DEF Creation
  <2>2. group' = group \/ (group = NoGroup /\ group' = lastId)
    BY <2>1 DEF CreateNotification, CreateFailure, SetPayload, CreateGroup,
       GroupAfterCreate, XAdd, ScheduleTTL, ScheduleFails, CreateAborts, PipelineRetry, keys
  <2>3. group <= group'
    BY <2>2 DEF TypeOK
  <2> QED  BY <1>1, <2>3, NextType, CreationFrame DEF GroupInv, TypeOK
<1>2. CASE EnsureConsumerGroup
  BY <1>2 DEF EnsureConsumerGroup, GroupInv, TypeOK
<1>3. CASE ReadNewMessages
  <2>1. \A e \in NewBatch : e.id > group /\ e.id <= group' /\ e.id \in Nat
    BY <1>3 DEF ReadNewMessages, NewBatch, Undelivered, TypeOK, Entry
  <2>2. PICK m \in NewBatch : TRUE
    BY <1>3 DEF ReadNewMessages
  <2>3. group <= group' /\ group' \in Int
    BY <2>1, <2>2, NextType DEF TypeOK
  <2>4. pel' = pel \union {e.id : e \in NewBatch} /\ confirmed' = confirmed
    BY <1>3 DEF ReadNewMessages
  <2>5. \A id \in pel \union confirmed : id \in Nat /\ id <= group /\ id <= group'
    BY <2>3 DEF GroupInv, TypeOK
  <2>6. \A id \in pel' \union confirmed' : id <= group'
    BY <2>1, <2>4, <2>5
  <2>7. \A id \in confirmed : \A e \in NewBatch : id # e.id
    BY <2>1, <2>5 DEF TypeOK
  <2> QED  BY <2>4, <2>6, <2>7 DEF GroupInv
<1>4. ASSUME NEW m \in acking, AckXAck(m)  PROVE GroupInv'
  BY <1>4 DEF AckXAck, GroupInv
<1>5. CASE pel' \subseteq pel /\ UNCHANGED <<group, confirmed>>
  BY <1>5 DEF GroupInv
<1>6. CASE Session
  BY <1>2, <1>3, <1>4, <1>5, <1>6
  DEF Session, AckInFlight, AckMessage, AckMarkRead, AckAborts, SetUserRetentionDays, keys
<1>7. CASE Cleaning
  <2>1. pel' \subseteq pel
    BY <1>7 DEF Cleaning, CleanupExpiredNotifications, JanitorFetch, JanitorXAck, JanitorXDel,
       JanitorDel, JanitorZRem, JanitorFails, keys
  <2> QED  BY <1>5, <1>7, <2>1, CleaningFrame
<1>8. CASE Maintaining
  BY <1>5, <1>8, MaintainingFrame DEF Maintaining, GroupMaintenance, MaintainerList, Reclaim, keys
<1>9. CASE Trimming \/ Tick \/ UNCHANGED vars
  BY <1>5, <1>9, TrimmingFrame, TickFrame DEF keys, vars
<1> QED  BY <1>1, <1>6, <1>7, <1>8, <1>9, NextKinds

(* A confirmed message never becomes pending again. *)
THEOREM ConfirmedStays == Spec => []ConfirmedNotPending
<1>1. Init => GroupInv
  BY DEF Init, GroupInv
<1>2. GroupInv => ConfirmedNotPending
  BY DEF GroupInv, ConfirmedNotPending
<1> QED  BY <1>1, <1>2, GroupStep, Invariance, PTL DEF Spec
=============================================================================
