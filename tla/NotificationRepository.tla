------------------------ MODULE NotificationRepository ------------------------
(***************************************************************************)
(* The Redis keys of ONE user and everything that changes them: the        *)
(* commands of internal/repository/redis_repository.go, and the workers    *)
(* TTLJanitor, RetentionTrimmer and GroupMaintenance that every pod runs.  *)
(*                                                                         *)
(* One action is one command that Redis executes.  A go-redis Pipeline is  *)
(* a batch of commands, not a transaction, so the commands of two clients  *)
(* interleave and a pipeline may stop after any of its commands.           *)
(*                                                                         *)
(* A stream ID stands for the position of its entry (Redis makes IDs of    *)
(* one stream increase); the millisecond part of the ID, which XTRIM MINID *)
(* compares, is the field `at' of the entry.                               *)
(***************************************************************************)
EXTENDS Integers, FiniteSets

CONSTANTS
  Nid,            \* notification UUIDs; each is one CreateNotification call
  NoNid,          \* the empty UUID: of an entry without fields, of a message without one
  Pod,            \* server processes
  JanitorPod,     \* the pods whose TTL janitor runs (in the code: every pod)
  TrimmerPod,     \* the pods whose retention trimmer runs (every pod)
  MaintainerPod,  \* the pods whose group maintenance runs (every pod)
  Home,           \* Home[n]: the pod that serves the call that creates n
  Skew,           \* Skew[p]: the clock of pod p minus the clock of Redis
  MaxSkew,        \* bound of |Skew[p]|
  TTL,            \* domain.NotificationTTL, in clock ticks
  Second,         \* ticks per second (scheduler scores are whole seconds)
  Day,            \* ticks per day of retention
  MaxLen,         \* XADD MAXLEN
  BatchLimit,     \* COUNT of a read and LIMIT of a janitor round
  RetentionInput, \* "days" a client may send in retention.set
  MaxDays,        \* upper end of the retention range, 15
  DefaultDays,    \* retention of a user who never set one, 7
  MaxAcks,        \* bound: AckMessage calls in flight together
  MaxFaults,      \* bound: failures, retries and crashes in one behaviour
  MaxTime         \* bound: the last tick of the clock

ASSUME TimeAssumption ==
  /\ TTL \in Nat /\ Second \in Nat \ {0} /\ Day \in Nat
  /\ MaxSkew \in Nat /\ MaxTime \in Nat
  /\ TTL <= Day

ASSUME NidAssumption == NoNid \notin Nid

ASSUME PodAssumption ==
  /\ Home \in [Nid -> Pod]
  /\ Skew \in [Pod -> Int]
  /\ JanitorPod \subseteq Pod /\ TrimmerPod \subseteq Pod
  /\ MaintainerPod \subseteq Pod
  /\ \A p \in Pod : Skew[p] <= MaxSkew /\ -MaxSkew <= Skew[p]

ASSUME LimitAssumption ==
  /\ MaxLen \in Nat \ {0} /\ BatchLimit \in Nat \ {0}
  /\ MaxFaults \in Nat /\ MaxAcks \in Nat
  /\ RetentionInput \subseteq Int
  /\ MaxDays \in Nat \ {0} /\ DefaultDays \in 1..MaxDays

VARIABLES
  \* The keys of the user in Redis.
  now,        \* the clock of Redis
  payload,    \* notification:<uuid>: time at which the key expires, 0: no key
  stream,     \* stream:user:<key>: its entries
  lastId,     \* last ID the stream generated
  group,      \* last-delivered ID of the group "notifications", or NoGroup
  pel,        \* the group's pending entries (one consumer name per user)
  schedule,   \* notif:ttl:<key>: the TTL scheduler, a sorted set
  readState,  \* notification_state:<key>: UUIDs (the empty one too) whose field is "read"
  retention,  \* notif:retention:<key>: days, 0: no key
  \* The progress of the calls in flight.
  create,     \* create[n]: last command of CreateNotification that took effect
  sid,        \* sid[n]: stream ID that XADD returned to that call, 0: none
  acking,     \* AckMessage calls before their XACK: the message they name
  marking,    \* AckMessage calls between their XACK and their HSET
  janitor,    \* janitor[p]: the cleanup round of pod p: next command, entries of the
              \* batch, those not cleaned yet, and the one being cleaned (or none)
  trimmer,    \* trimmer[p]: the retention trim of pod p
  maintainer, \* maintainer[p]: the group maintenance round of pod p
  faults,     \* failures so far
  \* History: read by properties only.
  born,       \* born[n]: when the payload was last SET
  sent,       \* the messages that XADD ever put into the stream
  confirmed   \* IDs that a client's XACK took out of the pending entries

keys     == <<payload, stream, lastId, group, pel, schedule, readState, retention>>
calls    == <<create, sid, born, sent>>
acks     == <<acking, marking>>
workers  == <<janitor, trimmer, maintainer>>
vars     == <<now, keys, calls, acks, workers, faults, confirmed>>
-----------------------------------------------------------------------------
NoGroup == -1

Entry    == [id : Nat \ {0}, nid : Nid, at : Nat]
Message  == [id : Nat, nid : Nid]
Receipt  == [id : Nat, nid : Nid \union {NoNid}]
Deadline == [id : Nat, nid : Nid, due : Int]

(* time.Time.Unix(): whole seconds. *)
Unix(t) == t - (t % Second)

PodClock(p) == now + Skew[p]

(* A key with an expiry is there until the clock reaches it. *)
Alive(n) == payload[n] > now

CreateSteps == {"new", "set", "grouped", "added", "done", "unscheduled", "failed"}

JanitorIdle == [step |-> "idle", batch |-> {}, todo |-> {}, cur |-> {}]
TrimmerIdle == [step |-> "idle", days |-> 0, since |-> 0]

Init ==
  /\ now = 1
  /\ payload = [n \in Nid |-> 0]
  /\ stream = {} /\ lastId = 0
  /\ group = NoGroup /\ pel = {}
  /\ schedule = {}
  /\ readState = {} /\ retention = 0
  /\ create = [n \in Nid |-> "new"]
  /\ sid = [n \in Nid |-> 0]
  /\ acking = {} /\ marking = {}
  /\ janitor = [p \in JanitorPod |-> JanitorIdle]
  /\ trimmer = [p \in TrimmerPod |-> TrimmerIdle]
  /\ maintainer = [p \in MaintainerPod |-> "idle"]
  /\ faults = 0
  /\ born = [n \in Nid |-> 0]
  /\ sent = {} /\ confirmed = {}

-----------------------------------------------------------------------------
(* CreateNotification: SET, XGROUP CREATE, XADD in a pipeline, then ZADD. *)

(* Mutant: the payload lives half as long as its entry. *)
SetPayloadBriefly(n) ==
  /\ create[n] = "new"
  /\ payload' = [payload EXCEPT ![n] = now + TTL \div 2]
  /\ born' = [born EXCEPT ![n] = now]
  /\ create' = [create EXCEPT ![n] = "set"]
  /\ UNCHANGED <<now, stream, lastId, group, pel, schedule, readState, retention,
                 sid, sent, acks, workers, faults, confirmed>>

SetPayload(n) ==
  /\ create[n] = "new"
  /\ payload' = [payload EXCEPT ![n] = now + TTL]
  /\ born' = [born EXCEPT ![n] = now]
  /\ create' = [create EXCEPT ![n] = "set"]
  /\ UNCHANGED <<now, stream, lastId, group, pel, schedule, readState, retention,
                 sid, sent, acks, workers, faults, confirmed>>

(* Mutants: creating the group again moves it to the end or to the start. *)
GroupAlwaysAtEnd == lastId
GroupAlwaysAtStart == 0

(* XGROUP CREATE ... "$" MKSTREAM: BUSYGROUP when the group exists. *)
GroupAfterCreate == IF group = NoGroup THEN lastId ELSE group

CreateGroup(n) ==
  /\ create[n] = "set"
  /\ group' = GroupAfterCreate
  /\ create' = [create EXCEPT ![n] = "grouped"]
  /\ UNCHANGED <<now, payload, stream, lastId, pel, schedule, readState, retention,
                 sid, born, sent, acks, workers, faults, confirmed>>

(* MAXLEN without "~": exactly the newest MaxLen entries stay. *)
Newest(S, k) == {e \in S : Cardinality({f \in S : f.id > e.id}) < k}

XAdd(n) ==
  /\ create[n] = "grouped"
  /\ lastId' = lastId + 1
  /\ stream' = Newest(stream \union {[id |-> lastId + 1, nid |-> n, at |-> now]}, MaxLen)
  /\ sent' = sent \union {[id |-> lastId + 1, nid |-> n]}
  /\ sid' = [sid EXCEPT ![n] = lastId + 1]
  /\ create' = [create EXCEPT ![n] = "added"]
  /\ UNCHANGED <<now, payload, group, pel, schedule, readState, retention,
                 born, acks, workers, faults, confirmed>>

(* The score: the pod's clock, in whole seconds. *)
Due(n) == Unix(PodClock(Home[n]) + TTL)

(* ZADD; the sorted set holds (ID|UUID, score). *)
ScheduleTTL(n) ==
  /\ create[n] = "added"
  /\ schedule' = schedule \union {[id |-> sid[n], nid |-> n, due |-> Due(n)]}
  /\ create' = [create EXCEPT ![n] = "done"]
  /\ UNCHANGED <<now, payload, stream, lastId, group, pel, readState, retention,
                 sid, born, sent, acks, workers, faults, confirmed>>

Fail ==
  /\ faults < MaxFaults
  /\ faults' = faults + 1

(* The ZADD fails, which is only logged: the call still succeeds. *)
ScheduleFails(n) ==
  /\ Fail
  /\ create[n] = "added"
  /\ create' = [create EXCEPT ![n] = "unscheduled"]
  /\ UNCHANGED <<now, keys, sid, born, sent, acks, workers, confirmed>>

(* Mutant: the BUSYGROUP of a group that exists hides a failing XADD. *)
XAddFailureHidden(n) ==
  /\ Fail
  /\ create[n] \in {"new", "set", "grouped", "added"}
  /\ create' = [create EXCEPT ![n] = IF @ = "grouped" THEN "unscheduled" ELSE "failed"]
  /\ UNCHANGED <<now, keys, sid, born, sent, acks, workers, confirmed>>

(* The connection or the pod is lost: the rest of the call never happens. *)
CreateAborts(n) ==
  /\ Fail
  /\ create[n] \in {"new", "set", "grouped", "added"}
  /\ create' = [create EXCEPT ![n] = "failed"]
  /\ UNCHANGED <<now, keys, sid, born, sent, acks, workers, confirmed>>

(* go-redis sends a pipeline again when its replies do not arrive, so that *)
(* commands which did take effect run twice.                               *)
PipelineRetry(n) ==
  /\ Fail
  /\ create[n] \in {"set", "grouped", "added"}
  /\ create' = [create EXCEPT ![n] = "new"]
  /\ sid' = [sid EXCEPT ![n] = 0]
  /\ UNCHANGED <<now, keys, born, sent, acks, workers, confirmed>>

-----------------------------------------------------------------------------
(* What a WebSocket session calls. *)

EnsureConsumerGroup ==
  /\ group = NoGroup
  /\ group' = lastId
  /\ UNCHANGED <<now, payload, stream, lastId, pel, schedule, readState, retention,
                 calls, acks, workers, faults, confirmed>>

(* XREADGROUP ">": the oldest undelivered entries become pending. *)
Undelivered == {e \in stream : e.id > group}

NewBatch == {e \in Undelivered :
               Cardinality({f \in Undelivered : f.id < e.id}) < BatchLimit}

ReadNewMessages ==
  /\ group # NoGroup
  /\ NewBatch # {}
  /\ pel' = pel \union {e.id : e \in NewBatch}
  /\ group' \in {e.id : e \in NewBatch}
  /\ \A e \in NewBatch : e.id <= group'
  /\ UNCHANGED <<now, payload, stream, lastId, schedule, readState, retention,
                 calls, acks, workers, faults, confirmed>>

(* What a client may confirm: anything that was ever in the stream, there   *)
(* or not, expired or read already, with its UUID or without.  Nothing that *)
(* it sends is looked at.                                                   *)
Confirmable == sent \union {[id |-> s.id, nid |-> NoNid] : s \in sent}

AckMessage(m) ==
  /\ Cardinality(acking \union marking) < MaxAcks
  /\ acking' = acking \union {m}
  /\ UNCHANGED <<now, keys, calls, marking, workers, faults, confirmed>>

(* AckMessage sends XACK, which does nothing for an ID that is not pending, *)
(* and HSET in one pipeline.                                                *)
AckXAck(m) ==
  /\ m \in acking
  /\ pel' = pel \ {m.id}
  /\ confirmed' = confirmed \union (pel \intersect {m.id})
  /\ acking' = acking \ {m}
  /\ marking' = marking \union {m}
  /\ UNCHANGED <<now, payload, stream, lastId, group, schedule, readState, retention,
                 calls, workers, faults>>

AckMarkRead(m) ==
  /\ m \in marking
  /\ readState' = readState \union {m.nid}
  /\ marking' = marking \ {m}
  /\ UNCHANGED <<now, payload, stream, lastId, group, pel, schedule, retention,
                 calls, acking, workers, faults, confirmed>>

AckAborts(m) ==
  /\ Fail
  /\ m \in acking \union marking
  /\ acking' = acking \ {m}
  /\ marking' = marking \ {m}
  /\ UNCHANGED <<now, keys, calls, workers, confirmed>>

Clamp(d) == IF d < 1 THEN 1 ELSE IF d > MaxDays THEN MaxDays ELSE d

(* Mutant: the value is stored as the client sent it. *)
SetUserRetentionDaysUnchecked(d) ==
  /\ retention' = d
  /\ UNCHANGED <<now, payload, stream, lastId, group, pel, schedule, readState,
                 calls, acks, workers, faults, confirmed>>

(* The service drops a value outside 1..15, the repository clamps again. *)
SetUserRetentionDays(d) ==
  /\ d \in 1..MaxDays
  /\ retention' = Clamp(d)
  /\ UNCHANGED <<now, payload, stream, lastId, group, pel, schedule, readState,
                 calls, acks, workers, faults, confirmed>>

-----------------------------------------------------------------------------
(* The workers.  All of them find users by GetAllUserKeys, a SCAN of the   *)
(* scheduler keys: Redis drops a sorted set that becomes empty.            *)
UserListed == schedule # {}

(* Mutants: the janitor's clock is rounded up, or must have passed the score. *)
ExpiredRoundedUp(p) == {z \in schedule : z.due <= Unix(PodClock(p) + Second - 1)}
ExpiredStrictly(p) == {z \in schedule : z.due < Unix(PodClock(p))}

(* CleanupExpiredNotifications, first command: ZRANGEBYSCORE ... LIMIT.    *)
(* Listing the user and fetching are one step: a user without scheduler    *)
(* entries gives an empty batch, whenever the SCAN ran.                    *)
Expired(p) == {z \in schedule : z.due <= Unix(PodClock(p))}

Earlier(y, z) == y.due < z.due \/ (y.due = z.due /\ y.id < z.id)

ExpiredBatch(p) == {z \in Expired(p) :
                      Cardinality({y \in Expired(p) : Earlier(y, z)}) < BatchLimit}

JanitorFetch(p) ==
  /\ janitor[p].step = "idle"
  /\ UserListed
  /\ ExpiredBatch(p) # {}
  /\ janitor' = [janitor EXCEPT ![p] =
       [step |-> "xack", batch |-> ExpiredBatch(p), todo |-> ExpiredBatch(p), cur |-> {}]]
  /\ UNCHANGED <<now, keys, calls, acks, trimmer, maintainer, faults, confirmed>>

(* The rest of the pipeline: XACK, XDEL and DEL for each entry of the      *)
(* batch, in the order of the scheduler, and one ZREM of the whole batch.  *)
JanitorXAck(p) ==
  /\ janitor[p].step = "xack"
  /\ \E z \in janitor[p].todo :
       /\ \A y \in janitor[p].todo : ~Earlier(y, z)
       /\ pel' = pel \ {z.id}
       /\ janitor' = [janitor EXCEPT ![p] = [@ EXCEPT !.step = "xdel", !.cur = {z}]]
  /\ UNCHANGED <<now, payload, stream, lastId, group, schedule, readState, retention,
                 calls, acks, trimmer, maintainer, faults, confirmed>>

JanitorXDel(p) ==
  /\ janitor[p].step = "xdel"
  /\ stream' = {e \in stream : \A z \in janitor[p].cur : z.id # e.id}
  /\ janitor' = [janitor EXCEPT ![p].step = "del"]
  /\ UNCHANGED <<now, payload, lastId, group, pel, schedule, readState, retention,
                 calls, acks, trimmer, maintainer, faults, confirmed>>

JanitorDel(p) ==
  /\ janitor[p].step = "del"
  /\ payload' = [n \in Nid |-> IF \E z \in janitor[p].cur : z.nid = n
                               THEN 0 ELSE payload[n]]
  /\ janitor' = [janitor EXCEPT ![p] =
       [@ EXCEPT !.step = "xack", !.cur = {}, !.todo = janitor[p].todo \ janitor[p].cur]]
  /\ UNCHANGED <<now, stream, lastId, group, pel, schedule, readState, retention,
                 calls, acks, trimmer, maintainer, faults, confirmed>>

(* Mutant: ZREMRANGEBYSCORE up to the janitor's clock. *)
JanitorZRemByScore(p) ==
  /\ janitor[p].step = "xack" /\ janitor[p].todo = {}
  /\ schedule' = schedule \ Expired(p)
  /\ janitor' = [janitor EXCEPT ![p] = JanitorIdle]
  /\ UNCHANGED <<now, payload, stream, lastId, group, pel, readState, retention,
                 calls, acks, trimmer, maintainer, faults, confirmed>>

JanitorZRem(p) ==
  /\ janitor[p].step = "xack" /\ janitor[p].todo = {}
  /\ schedule' = schedule \ janitor[p].batch
  /\ janitor' = [janitor EXCEPT ![p] = JanitorIdle]
  /\ UNCHANGED <<now, payload, stream, lastId, group, pel, readState, retention,
                 calls, acks, trimmer, maintainer, faults, confirmed>>

(* The connection is lost, or the pod restarts, in the middle of a round. *)
JanitorFails(p) ==
  /\ Fail
  /\ janitor[p].step # "idle"
  /\ janitor' = [janitor EXCEPT ![p] = JanitorIdle]
  /\ UNCHANGED <<now, keys, calls, acks, trimmer, maintainer, confirmed>>

(* TrimUserStreamByRetention: list, GET the days, read the clock, XTRIM. *)
TrimmerList(p) ==
  /\ trimmer[p].step = "idle"
  /\ UserListed
  /\ trimmer' = [trimmer EXCEPT ![p].step = "listed"]
  /\ UNCHANGED <<now, keys, calls, acks, janitor, maintainer, faults, confirmed>>

(* Mutant: a user without a setting has 0 days. *)
RetentionWithoutDefault == retention

GetUserRetentionDays == IF retention = 0 THEN DefaultDays ELSE Clamp(retention)

TrimmerGetDays(p) ==
  /\ trimmer[p].step = "listed"
  /\ trimmer' = [trimmer EXCEPT ![p] =
       [step |-> "trim", days |-> GetUserRetentionDays, since |-> now]]
  /\ UNCHANGED <<now, keys, calls, acks, janitor, maintainer, faults, confirmed>>

(* The pod read its clock at some instant t between the two commands. *)
TrimmerXTrim(p) ==
  /\ trimmer[p].step = "trim"
  /\ \E t \in trimmer[p].since..now :
       LET cutoff == t + Skew[p] - trimmer[p].days * Day
       IN  stream' = {e \in stream : e.at >= cutoff}
  /\ trimmer' = [trimmer EXCEPT ![p] = TrimmerIdle]
  /\ UNCHANGED <<now, payload, lastId, group, pel, schedule, readState, retention,
                 calls, acks, janitor, maintainer, faults, confirmed>>

TrimmerFails(p) ==
  /\ Fail
  /\ trimmer[p].step # "idle"
  /\ trimmer' = [trimmer EXCEPT ![p] = TrimmerIdle]
  /\ UNCHANGED <<now, keys, calls, acks, janitor, maintainer, confirmed>>

MaintainerList(p) ==
  /\ maintainer[p] = "idle"
  /\ UserListed
  /\ maintainer' = [maintainer EXCEPT ![p] = "listed"]
  /\ UNCHANGED <<now, keys, calls, acks, janitor, trimmer, faults, confirmed>>

(* Mutant: everything that is scanned is dropped. *)
AllPending == pel

(* Pending IDs whose entry has left the stream. *)
Ghosts == {id \in pel : \A e \in stream : e.id # id}

(* ReclaimPendingMessages: XAUTOCLAIM moves idle entries to the consumer   *)
(* that has them already, and drops the ghosts among the IDs it scans.     *)
(* Idle times are not kept.                                                *)
Reclaim(p) ==
  /\ maintainer[p] = "listed"
  /\ \E scanned \in SUBSET pel : pel' = pel \ (scanned \intersect Ghosts)
  /\ maintainer' = [maintainer EXCEPT ![p] = "idle"]
  /\ UNCHANGED <<now, payload, stream, lastId, group, schedule, readState, retention,
                 calls, acks, janitor, trimmer, faults, confirmed>>

Tick ==
  /\ now < MaxTime
  /\ now' = now + 1
  /\ UNCHANGED <<keys, calls, acks, workers, faults, confirmed>>

-----------------------------------------------------------------------------
CreateNotification(n) ==
  \/ SetPayload(n) \/ CreateGroup(n) \/ XAdd(n) \/ ScheduleTTL(n)

CreateFailure(n) == ScheduleFails(n) \/ CreateAborts(n) \/ PipelineRetry(n)

Creation == \E n \in Nid : CreateNotification(n) \/ CreateFailure(n)

AckInFlight ==
  \/ \E m \in acking : AckXAck(m)
  \/ \E m \in marking : AckMarkRead(m)
  \/ \E m \in acking \union marking : AckAborts(m)

Session ==
  \/ EnsureConsumerGroup
  \/ ReadNewMessages
  \/ \E m \in Confirmable : AckMessage(m)
  \/ AckInFlight
  \/ \E d \in RetentionInput : SetUserRetentionDays(d)

CleanupExpiredNotifications(p) ==
  \/ JanitorFetch(p) \/ JanitorXAck(p) \/ JanitorXDel(p) \/ JanitorDel(p)
  \/ JanitorZRem(p)

RetentionTrimmer(p) ==
  TrimmerList(p) \/ TrimmerGetDays(p) \/ TrimmerXTrim(p) \/ TrimmerFails(p)

GroupMaintenance(p) == MaintainerList(p) \/ Reclaim(p)

Worker ==
  \/ \E p \in JanitorPod : CleanupExpiredNotifications(p) \/ JanitorFails(p)
  \/ \E p \in TrimmerPod : RetentionTrimmer(p)
  \/ \E p \in MaintainerPod : GroupMaintenance(p)

Next ==
  \/ Creation
  \/ Session
  \/ Worker
  \/ Tick

Spec == Init /\ [][Next]_vars

(* A call that started runs on, each janitor's ticker fires every minute,  *)
(* and time passes.                                                        *)
Fairness ==
  /\ WF_vars(Tick)
  /\ \A n \in Nid : WF_vars(CreateNotification(n))
  /\ \A p \in JanitorPod : WF_vars(CleanupExpiredNotifications(p))

FairSpec == Spec /\ Fairness
-----------------------------------------------------------------------------
(* Properties. *)

Round == [step : {"idle", "xack", "xdel", "del"},
          batch : SUBSET Deadline, todo : SUBSET Deadline, cur : SUBSET Deadline]

TypeOK ==
  /\ now \in Nat
  /\ payload \in [Nid -> Nat] /\ born \in [Nid -> Nat]
  /\ stream \subseteq Entry /\ sent \subseteq Message
  /\ lastId \in Nat
  /\ group \in Nat \union {NoGroup}
  /\ pel \subseteq Nat \ {0} /\ confirmed \subseteq Nat
  /\ schedule \subseteq Deadline
  /\ readState \subseteq Nid \union {NoNid}
  /\ retention \in 0..MaxDays
  /\ create \in [Nid -> CreateSteps]
  /\ sid \in [Nid -> Nat]
  /\ acking \subseteq Receipt /\ marking \subseteq Receipt
  /\ janitor \in [JanitorPod -> Round]
  /\ trimmer \in [TrimmerPod -> [step : {"idle", "listed", "trim"},
                          days : 0..MaxDays, since : Nat]]
  /\ maintainer \in [MaintainerPod -> {"idle", "listed"}]
  /\ faults \in 0..MaxFaults

(* Scores are cut to whole seconds twice, when they are written and when   *)
(* they are compared, and two pods' clocks differ by up to 2 * MaxSkew.    *)
Tolerance == Second + 2 * MaxSkew

(* A payload does not disappear before its 15 minutes are over, up to the  *)
(* rounding to seconds and the clocks of the pods: no janitor deletes the  *)
(* key of a young notification, whatever is retried, fails or races it.    *)
NoEarlyExpiry ==
  \A n \in Nid :
    born[n] # 0 /\ ~Alive(n) => now > born[n] + TTL - Tolerance

(* Nothing loses a message between XADD and the client's confirmation: an  *)
(* entry of the stream is ahead of the group, or pending, or confirmed by  *)
(* a client, or expired.  It needs the group to exist before the XADD and  *)
(* XREADGROUP to move the group and the pending entries together.          *)
NoLostEntry ==
  \A e \in stream :
    \/ e.id > group
    \/ e.id \in pel
    \/ e.id \in confirmed
    \/ now > e.at + TTL - Tolerance

(* A message that a client confirmed is never handed out again: the group  *)
(* does not move back when sessions and creations race to create it.       *)
ConfirmedNotPending == confirmed \intersect pel = {}

(* Once CreateNotification has put an entry into the scheduler, the entry  *)
(* stays there for as long as the stream has it: a janitor round that      *)
(* fails after any of its commands leaves work for the next one, never an  *)
(* entry that no round will find.                                          *)
ScheduledUntilDeleted ==
  \A n \in Nid :
    create[n] = "done" /\ (\E e \in stream : e.id = sid[n])
      => \E z \in schedule : z.id = sid[n] /\ z.nid = n

(* An entry leaves the stream only when it has expired or when MAXLEN      *)
(* newer ones push it out: neither a janitor nor a retention trim takes a  *)
(* young message.                                                          *)
LiveEntryKept ==
  [][\A e \in stream \ stream' :
       \/ now > e.at + TTL - Tolerance
       \/ Cardinality({f \in stream \union stream' : f.id > e.id}) >= MaxLen]_vars

(* The deadline of notification n comes before the clocks stop. *)
DeadlineReached(n) ==
  \E z \in schedule :
    z.nid = n /\ \A p \in JanitorPod : z.due <= Unix(MaxTime + Skew[p])

(* The janitor catches up: whatever fails on the way, a notification with  *)
(* a scheduler entry loses its stream entry and its scheduler entry.       *)
ExpiredEventuallyCleaned ==
  \A n \in Nid :
    DeadlineReached(n) ~> /\ \A e \in stream : e.id # sid[n]
                          /\ \A z \in schedule : z.nid # n

(* The user's keys as a mailbox: before the group exists, there is nothing *)
(* that it could have been shown.                                          *)
Mail == INSTANCE Mailbox WITH
  Item <- Nid, Capacity <- MaxLen, Lifetime <- TTL - Tolerance,
  clock <- now, box <- stream, posted <- lastId,
  frontier <- IF group = NoGroup THEN lastId ELSE group,
  open <- pel, done <- confirmed

(* The commands of all sessions, calls and workers, in whatever order they *)
(* interleave and wherever they stop, amount to a mailbox: messages are    *)
(* shown once and in order, and only age, MAXLEN or the user ends them.    *)
MailboxRefined == Mail!Spec

(* What the callers of CreateNotification rely on.  The error of the       *)
(* pipeline is that of its first failing command, which is the harmless    *)
(* BUSYGROUP on nearly every call: it must not hide that the XADD failed.  *)
Contract == INSTANCE CreateContract WITH
  Item <- Nid,
  outcome <- [n \in Nid |-> IF create[n] \in {"done", "unscheduled"} THEN "returned"
                            ELSE IF create[n] = "failed" THEN "failed" ELSE "open"],
  inStream <- {m.nid : m \in sent}

ContractRefined == Contract!Spec
=============================================================================
