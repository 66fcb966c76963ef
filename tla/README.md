# Notificator: a verification development

Notificator delivers notifications to browsers. A client posts a notification for some users, the server stores it
in Redis, and every user who is connected by WebSocket is shown it. A notification lives for 15 minutes. Several
server processes ("pods") share one Redis and nothing else.

This directory holds TLA+ modules that model the program, TLC configurations that check small instances, and proofs
that TLAPS checks for all values of the constants. `PROJECT.json` says which lines of the source each definition
stands for, which mistake in the code each property would notice, and where the hazards are.

Contents: [inventory](#inventory), [modules](#modules), [runs](#runs), [bounds](#bounds), [fairness](#fairness),
[proofs](#proofs), [disagreements with the code](#disagreements-found), [not modelled](#what-is-not-modelled),
[plan](#plan).

## Inventory

### The keys of a user in Redis

| key | written by | read by | variable |
|---|---|---|---|
| `notification:<uuid>`, expires after 15 minutes | CreateNotification, TTL janitor (DEL) | sessions | `payload` |
| `stream:user:<key>`, at most 100 entries | CreateNotification (XADD), janitor (XDEL), retention trimmer (XTRIM) | sessions | `stream`, `lastId` |
| group `notifications` of the stream | CreateNotification, EnsureConsumerGroup, reads, XACK, XAUTOCLAIM | sessions, admin | `group`, `pel` |
| `notif:ttl:<key>`, sorted set (ID and UUID, deadline) | CreateNotification (ZADD), janitor (ZREM) | janitor; its existence puts the user on the workers' list | `schedule` |
| `notification_state:<key>`, hash UUID to "read" | AckMessage | history synchronisation | `readState` |
| `notif:retention:<key>` | retention.set of a client | retention trimmer | `retention` |
| `notif:lock:consumer:<key>`, a pod, expires after 60 s | sessions (SETNX, PEXPIRE, DEL) | sessions | `lock`, `lease` |

Keys that belong to no user:

| key | written by | read by | variable |
|---|---|---|---|
| `notify:req:<key>`, the response to a request, expires after 10 minutes | CreateNotifications | CreateNotifications | `cache` (Requests) |
| `notif:pods:hb`, hash pod to timestamp | heartbeat workers (HSET, HDEL) | heartbeat workers | `registry` (Heartbeat) |
| `notif:bus:<pod>`, stream, and its group `router` | nobody in the repository | router of that pod | `bus`, `group`, `pel` (InterPodRouter) |

### Components

**Redis repository** (`internal/repository/redis_repository.go`). All commands sent to Redis. No state of its own.
Pipelines are batches, not transactions: another client's commands come in between, and a lost connection cuts one
short anywhere. What makes it correct: a message, once XADD has taken it, is undelivered, pending, confirmed or
expired, never in none of these; a confirmed message does not come back; nothing is deleted before its time;
everything scheduled is deleted in the end.

**Workers** (`internal/worker`), all of them on every pod, so several run at once on the same user:
*TTL janitor* (each minute: fetch up to 100 deadlines, then XACK, XDEL, DEL for each and one ZREM),
*retention trimmer* (XTRIM by a number of days the user chose), *group maintenance* (XAUTOCLAIM), *heartbeat*
(writes the pod's time, removes dead pods), *inter-pod router* (reads the pod's bus). What makes them correct: two
rounds may interleave and may stop anywhere without losing a live message or forgetting an expired one; a pod that
beats is listed and a dead one is not; a bus message goes to its addressee, in order, and not twice.

**Notification service** (`internal/service/notification_service.go`). CreateNotifications (with an idempotency
key) and the WebSocket session: two goroutines and a handler that waits for the first error. The delivery goroutine
shows what is pending, then the last 100 messages, then loops on new ones; the other goroutine reads the client's
messages (confirm, set retention, synchronise). What makes it correct: a client that stays connected is shown
everything; a notification is called expired only if it is; a session ends completely when its connection is gone; a
request that is repeated with its key creates nothing and is answered as the first time.

**Connection manager** (`internal/websocket/connection_manager.go`). A map from user key to connection under a
mutex; a newer connection closes the older. What makes it correct: nothing is registered that is not served, and a
user has one open connection in a pod.

**Consumer lock** (`redis_repository.go`, used by the service). A Redis key with the name of a pod, taken by SETNX
when a session starts, extended every 20 seconds, deleted when the session ends. Extending and deleting are a GET
followed by the change. What makes it correct: a session that was told it has the lock has it alone, and the lock
is not left behind. A session that does not get the lock reads all the same.

**Handlers, admin repository, user keys, clients, web UI, configuration, metrics.** Request decoding and reports;
a pure encoding of (ID, login); a page; two test programs; environment variables; counters.

### How they interact

The handlers call the service, the service calls the repository and the connection manager, the workers call the
repository (the router calls the connection manager). Goroutines of one process share the connection map, an error
channel per session and a context; processes share only Redis.

### What is hard here

Interleaving of pipelines from several pods; clocks of several pods against the one of Redis; rounding to seconds;
pipelines cut short or sent twice by the Redis client library; one consumer name for all sessions of a user;
a reader that goes on reading after its connection is gone; MAXLEN and XDEL removing entries that are still pending; a
request whose client gave up and sent it again; a pod that comes back while another one deletes its entry.
`PROJECT.json` lists each hazard at its line.

## Modules

| module | what it is |
|---|---|
| `NotificationRepository` | the keys of one user; one action per Redis command; creation, session commands, three workers, time |
| `NotificationRepository_proofs` | its type invariant, inductive invariant, and five more theorems |
| `Mailbox` | what the server promises to one user, without keys, pods or workers: the abstract specification |
| `CreateContract` | what CreateNotification promises its caller: an abstract specification of one result per creation |
| `Mailbox_proofs` | that `NotificationRepository` implements `Mailbox` and `CreateContract` |
| `Delivery` | extends `NotificationRepository` by the WebSocket sessions of that user |
| `Delivery_proofs` | its type invariant, that it implements `NotificationRepository`, and `ClearedIsExpired` |
| `DeliverySync_proofs` | that nothing falls between the parts of a session, what sessions show and in which order, and that they implement `SessionLife` and, with the repository, `Mailbox` |
| `SessionLife` | what `Delivery` and `Sessions` say alike of the life of a session: an abstract specification |
| `Sessions` | the life of the sessions of one user on several pods: handler, goroutines, registries, consumer lock |
| `Sessions_proofs` | its type invariant, its four safety invariants, and that it implements `SessionLife` |
| `Requests` | POST /api/v1/notify on several pods, with the idempotency key |
| `NotifyService` | what the callers of POST /api/v1/notify are promised: an abstract specification |
| `Requests_proofs` | its type invariant, its four safety invariants, and that it implements `NotifyService` and `CreateContract` |
| `Heartbeat` | the registry of pods and the heartbeat workers |
| `Heartbeat_proofs` | its type invariant and its two safety invariants |
| `UserKeys` | the user key and the way back from it, as functions on sequences of symbols |
| `InterPodRouter` | the router of one pod, with the connections it writes to; extends `UserKeys` |
| `InterPodRouter_proofs` | two theorems about user keys, the type invariant and three safety invariants |
| `MCNotificationRepository`, `MCDelivery`, `MCSessions`, `MCRequests`, `MCHeartbeat`, `MCInterPodRouter` | values of the constants for TLC |

### NotificationRepository

Users do not share keys, so one user is enough. **One action is one command Redis executes**: CreateNotification is
`SetPayload`, `CreateGroup`, `XAdd` (the pipeline) and `ScheduleTTL` (the separate ZADD), with `create[n]` as the
program counter of the call for notification `n`. A cleanup round is `JanitorFetch`, then `JanitorXAck`,
`JanitorXDel`, `JanitorDel` per deadline, then `JanitorZRem`; the record `janitor[p]` is the state of pod `p`'s
round. AckMessage is a call that starts (`AckMessage`), then XACK (`AckXAck`), then HSET (`AckMarkRead`), and any
number of calls up to `MaxAcks` are in flight. The trimmer reads the list of users, the days and the clock in
separate steps. `Reclaim` is XAUTOCLAIM; since all sessions of a user are one consumer, all it can do is drop
pending IDs whose entry is gone, and only those it scanned.

Failures are actions: `CreateAborts`, `AckAborts`, `JanitorFails`, `TrimmerFails` (pod or connection lost, the rest
of the commands never comes), `ScheduleFails` (the ZADD error that is only logged), and `PipelineRetry` (the Redis
client sends a pipeline again whose replies it did not get, so commands run twice and a notification gets two
entries).

Data: a UUID is a model value, a stream ID is the entry's number, and its millisecond part is the field `at`.
`Skew[p]` is what pod `p`'s clock is ahead of that of Redis, a constant. `Unix` cuts to seconds, as in the code.
`born`, `sent` and `confirmed` are history: no guard reads `born` or `confirmed`, and `sent` is read only by
`Confirmable`, the messages a client can know of. The server looks at nothing that a client confirms, so `Confirmable`
is anything that was ever in the stream, removed, expired or read already, under its UUID or without one: a pending
message whose entry is gone is pushed with an empty `notification_id` (`NoNid`), and the client sends it back.

The entry's and the payload's own expiry and the deadline come from three clocks, so no property can speak of
exactly 15 minutes. `Tolerance` is one second of rounding plus twice the largest skew.

Properties: `TypeOK`, `NoEarlyExpiry`, `NoLostEntry`, `ConfirmedNotPending`, `ScheduledUntilDeleted`, the action
property `LiveEntryKept`, under fairness `ExpiredEventuallyCleaned`, and the refinements `MailboxRefined` and
`ContractRefined`.

### Mailbox

The abstract specification: messages are posted into a box that keeps the newest `Capacity`; they are shown in order
and each once; they stay open until the user confirms them; and nothing leaves the box or stops being open before its
lifetime is over, unless newer messages push it out. `NotificationRepository` implements it under the mapping `Mail`
(at the end of that module): the box is the stream, the frontier is the last delivered ID of the group, what is open is
the group's pending list, and `Lifetime` is the TTL less `Tolerance`. As long as there is no group the frontier is
the last ID: the first creation of a group, whoever makes it, must not skip or repeat anything. By the refinement
of `Delivery`, its sessions implement the mailbox too.

### CreateContract

The caller of CreateNotification sees a result and no commands. Per notification there is an `outcome` (open, returned,
failed) and whether it was put into a stream: a call that returns has put it there; one that fails may or may not have,
even after its caller has given up. `NotificationRepository` implements it (`ContractRefined`): XADD is `Post`, the
end of the ZADD is `Return`, whether the ZADD worked or not. Exec of the pipeline reports the first command that failed,
which for every user with a group is the ignored BUSYGROUP, so it is the look at the result of the XADD itself that
keeps the contract. `Requests` implements it from the other side (`ContractKept`): whatever target it lists has returned,
and each target gets one outcome. The two modules agree on what passes between them. It is not shown that `Requests`
meets every behaviour of the contract: a `Post` after the caller has seen the failure is a step of the contract that
`Requests` does not have, since no property of its callers depends on it.

### Delivery

Extends the repository by sessions. `socket[c]` is the connection (`broken`: the peer is gone and nobody noticed
yet), `handler[c]` the handler goroutine, and `task[<<c, g>>]` what the delivery goroutine or the client goroutine
of session `c` is doing: its `kind` is the part of the code, its `step` the place in it, `toLoad` the messages whose
payload is still to be fetched and `loaded` those fetched and not yet written to the connection. One action is one
request to Redis or one write to the connection, so a janitor round, another session or a creation may come between
any two. The client goroutine answers a synchronisation request itself, at the same time as the delivery goroutine
delivers.

A write to a broken connection may succeed and reach nobody (TCP), or fail. XREADGROUP with BLOCK does not notice
that the session's context was cancelled: the loop looks at the context only between two reads (`LoopRound`). The
handler returns on the first error (`HandlerReturns`) and closes the connection afterwards (`Close`), so that a
goroutine can meet a canceled context on an open connection. `Displaced` is what AddClient of a newer connection
does to this one. `ClientAcks` has no condition on what is confirmed, as in the code: the client may name any push
that any connection of the user got, also an expired one or one that is called read. The page of the server leaves
those out, the documented client (`docs/en/README.md:641`) confirms every push. A client asks for a history of some
length of `SyncLimit`; the delivery goroutine always for `HistoryCount`. `ReadFails`, `GetFails` and `LoopReplyLost`
are the failures of requests; what each does differs, as in the code (end the goroutine, skip the message, only
log).

`Environment` is every repository step that no session makes. `RepositorySpec`, the specification of
`NotificationRepository`, is checked as a property: that is the refinement, and the mapping is the identity.

Properties: `DeliveryTypeOK`, `InitialSyncComplete`, `NoGap`, `TakenOnce` (of the sessions of a user, which are one
consumer, one gets a new message), `LiveInOrder` (a live loop shows in the order of the stream), `ReadWasShown` (the
history calls a notification read only when a client of the user was shown it unread, or as expired when it was:
`Doubtful` names what else may make a push say "expired", a failed request, a failure of a creation or a worker, a
session that has returned), `ClearedIsExpired`, the
refinements `RepositorySpec` and `LifeRefined`, and under fairness `ShownWhileConnected` and `SessionEnds`.

### SessionLife

`Delivery` has what a session does to Redis and shows; `Sessions` has how it is registered, locks, is displaced and
crashes. `SessionLife` is what both say of it: it starts once, its two tasks end once each, its context is canceled
only after a task of it has ended by itself (or with its process), and its link may be lost at any time. Both
modules implement it (`LifeRefined` in each), so that `Delivery` may leave out handlers, locks and registries, and
`Sessions` what is shown. Only `Sessions` takes `Crash`: in `Delivery`, whose pods do not crash, a session that a
crash cut short is one that takes no further step, which its safety properties allow at any time.

### Sessions

Delivery has one session run to its end in isolation; this module has what sessions share beside the stream: the
registry of their pod and the lock in Redis. `handler[c]` is the next call of WebSocketHandler and
HandleWebSocketConnection: `group` (EnsureConsumerGroup), then SETNX and the start of the goroutines, `wait` (the error
channel), `check` and `delete` (the GET and the DEL of the deferred release, which runs before the context is
canceled), `remove` (cancel, RemoveClient), `close`. `client`, `delivery` and `renewer` are the three goroutines,
reduced to when they fail and end. `errChan` counts the errors in the channel of capacity 2; `Report` waits when it
is full. `AddClient` closes the socket of whatever connection the pod has registered, and `RemoveClient` deletes the
entry whatever connection it holds, both as in the code.

The lock holds the name of a pod, so sessions of one pod write the same value. `AcquireFails` covers a SETNX that took
effect and whose reply was lost: the session goes on without releasing or renewing. `RenewFails` ends the renewing for
good, as in the code. `LockTick` may run the lease out at any time, also between the GET and the PEXPIRE or DEL of
another session. `PodCrashes` ends everything in a pod at once (a kill, a shutdown, which does not
wait for upgraded connections, or a panic) and leaves the lock as it is; the pod may be reached again at once.

Properties: `SessionsTypeOK`, `LockKept`, `LockHasHolder`, `RegisteredIsServed`, `ReportsNeverWait` (a goroutine that
still runs finds room in the error channel), the refinement `LifeRefined`, and under fairness `AllEnd` and
`LockFreed`. `LockKept` is stated while the lock has never run out (`ranOut`, a history variable): after that, the DEL of
a session whose lock ran out may take away the lock of another pod, and nothing in the code prevents it.

### Requests

One action is one call to Redis of `CreateNotifications`: the look-up of the key (`AnswerFromCache`, `NothingCached`;
validation comes after it, as in the code, so an invalid request with a known key is answered), one
`CreateNotification` per target, and the SET of the result. `CreateNotification` has the outcomes that its caller can
meet: done, failed, or failed after its XADD; its own commands are in `NotificationRepository`. A retry of the client is
one more call with the same key. `ClientLeaves` cancels `r.Context()`: from then on every command of the call fails,
and the handler runs to its end on failures (`CommandFails`). `Crash` ends all running calls of a pod.

A result carries the call it answers (`by`), so that a result that lists nothing differs from none. `covered[d]` is
history: the calls with the key of `d` whose result was stored, and still alive, when `d` looked the key up.

Properties: `TypeOK`, `AnswerNamesPosted`, `EveryTargetTried`, `RetryCreatesNothing`, `ReplayIsOneAnswer`, the
refinements `NotifyRefined` and `ContractKept`, under fairness `EveryCallEnds`; `NoDuplicates` is violated (below).
`RetryCreatesNothing` excepts a call whose look-up failed: the code takes an error for "no result".

A request may last as long as it likes: the server sets no time limits, and the number of targets is not limited. So
nothing relates the ten minutes of a stored result to the fifteen of the notifications it names, and no property does.

`NotifyService` is what the callers may rely on, without pods, caches, times or failures: a call creates nothing
after its answer, and its answer lists its own creations, or it is the whole answer of one call with the same key,
given to a call that created nothing. It does not promise that a retry creates nothing, which holds under the
conditions of `RetryCreatesNothing` only.

### Heartbeat

Each worker's round is `TickerFires`, `Beat` (HSET), `ReadAll` (HGETALL), `CleanupStale` (HDEL), each of which may fail,
and the pod may crash and start again between any two. Each pod has a clock; timestamps are whole seconds. The pod
reads its clock before a command and the command takes effect up to `Delay[p]` later: `OwnEntry` has the time at which
the step began (`since`), `CleanupStale` any clock value since the HGETALL. `next` is the ticker, which keeps one tick
for a late worker and drops the others (`NextTick`). What a cleaner deletes are pods, by name, not the entries it has
read: an entry written in between goes too.

`BeatingPodListed` therefore has an exception, which the run shows to be needed: a pod that was silent for long until
less than `Latency` before its last beat. `Patience` is how long a pod may be silent and be safe: `staleAfter` less the
rounding, the skew and the delays, in the code almost 90 seconds, so that two beats may be missed. `DeadPodForgotten`
says when a dead pod must have gone from the registry if any pod works: `Oblivion`.

### UserKeys and InterPodRouter

A key is a sequence of symbols, where a decimal numeral, written as `%d` writes it, is one symbol; a dash may occur
anywhere in a login, and in front of a negative ID, which WebSocketHandler accepts. `ParseUserKey` is the set of users
a key stands for: one or none.

The router creates its group (whose error it ignores), reads a batch, and for each message parses the key, looks the
connection up in the connection manager (`FindClient`, under its lock), writes (`WriteMessage`, without the lock) and
acknowledges (`Ack`). `sessions[u]` numbers the connections of a user, so that a write can meet a connection that has
been closed or replaced since the look-up. A message whose user is not here or whose write fails stays pending, and
nothing ever reads the pending list: it is lost, as in the code. What the router promises is order, the right
addressee, no repetition and progress. The producers and the users are the environment.

Properties: `RouterTypeOK`, `WrittenInOrder`, `RoutedToAddressee`, `AckedIffWritten`, and under fairness
`RouterGetsThrough`.

## Runs

| run | instance | what it shows |
|---|---|---|
| `repository_keys` | 2 notifications, a trimmer on one pod, a maintainer on the other, MAXLEN 1, retention set to values in and out of range, 1 failure | no message is lost before it is confirmed, none comes back, whoever creates the group and whatever is retried; only what is old or pushed out leaves; XAUTOCLAIM loses no pending message; all of it is a mailbox; a creation that succeeds has posted |
| `repository_two_janitors` | 2 notifications, 2 janitors, clocks 2 ticks apart, batches of 1, 1 failure | two rounds on the same user that interleave and stop anywhere delete nothing early and forget nothing, and the whole is still a mailbox |
| `repository_live` | 2 notifications, 1 janitor, 1 failure, fairness | everything scheduled is cleaned in the end |
| `delivery_sync` | 2 sessions, 2 notifications | synchronisation is complete, nothing falls between it and the live loop, a new message goes to one session, and each loop shows in order |
| `delivery_refines` | 1 session, 1 notification, janitor, client messages, 1 failing request | sessions do to Redis only what the repository's specification allows, and a client is told "expired" only of what has expired or has left the stream, and "read" only of what a client was shown before, unread or, when it had expired or a request had failed, as expired, whatever pushes clients confirm; the session lives as `SessionLife` says |
| `delivery_live` | 1 session, 2 notifications, 1 failing request, fairness | what arrives is shown; a session whose connection is gone ends |
| `sessions` | 2 connections, 2 pods, lease of 2 ticks, 1 failure or crash, fairness | nobody takes a lock that somebody has, nothing is left behind in Redis or in a registry, the error channel never blocks a goroutine, the sessions live as `SessionLife` says, every goroutine ends |
| `sessions_one_connection` | 3 connections, 1 pod, no failures | violated: see below |
| `requests` | 4 requests on 2 pods (3 with one key, one of them invalid; one with 2 targets), 2 failures, clients that leave or crashes, fairness | the callers see what `NotifyService` promises, every target is tried, a retry creates nothing, a target is listed only if it was created, every request ends |
| `requests_duplicate` | the same requests without failures | violated: see below |
| `heartbeat` | 2 pods, clocks one tick apart, one of them late, 1 failure or crash | a pod that beats is listed, a dead one is forgotten |
| `router` | 3 messages for 2 users with keys `1-b` and `1-b-b` and for `-1-b`, 2 connections each, batches of 2, 1 failure or crash, fairness | order, addressee, acknowledgement; no message holds up the others |

Deadlock is not checked: the clock and the number of calls are bounded, so every run may stop.

A run leaves out what it would only repeat. `AnswerNamesPosted` and `ReplayIsOneAnswer` follow from `NotifyRefined`.
`repository_two_janitors` leaves `NoLostEntry` and `LiveEntryKept` to `repository_keys`, which has no janitor, and to the
proofs, which have any number; what a janitor may take from a user is in `MailboxRefined`. The
type invariants of `Delivery`, `Sessions`, `Heartbeat` and `InterPodRouter` are only proved.

Each property of a passing run has a mutant: a definition of the model changed as a plausible mistake would change
the code. The mutated forms stand in the modules before what they would replace (for example `GroupAlwaysAtEnd`
before `GroupAfterCreate`) and are used by nothing. With the mutant in place the property is violated in that run.

## Bounds

| constant | code | runs | why it is enough |
|---|---|---|---|
| `Nid` | unbounded | 1 or 2 | the properties relate one entry to another one at most; with MAXLEN 1, or 2 and a pipeline sent twice, one is pushed out |
| `MaxLen` | 100 | 1 or 2 | reached, and passed by one |
| `BatchLimit` | 100 (janitor and reads) | 1; 2 in `delivery_sync` | with 1, a backlog larger than a batch occurs already with two entries; with 2, a batch has an order in which it is shown |
| `HistoryCount` | 100 | 2 | equal to `MaxLen`, as in the code |
| `SyncLimit` | 1 to 1000 | none, {1, 2} or {2} | a length below and one equal to that of the stream |
| `TTL`, `Second`, `Day` | 15 min, 1 s, 24 h | 1 to 5, 1 or 2, 3 to 6 | a second has two ticks so that rounding cuts something; TTL is not a whole number of seconds, which is the worst case; TTL <= Day |
| `Skew` | any | 0, or -1 and +1 | the pod that creates is behind, the one that cleans is ahead: the direction that deletes early |
| `MaxTime` | none | 1 to 8 | past the last deadline where time matters; 1 (time stands still) where it does not |
| `MaxFaults`, `MaxErrors` | none | 0 to 2 | each failure action happens, at each command |
| `Pod` (Sessions), `Route` | a few pods; any of them | 1 or 2; the first connection goes to the first pod | sessions of one pod and of two; pods are alike, so fixing the first choice loses nothing |
| `LockTTL` | 60 s, renewed each 20 s | 2 | the lock may run out between any two commands, and be renewed before it does, for ever |
| `MaxAcks` | none | 0 or 1 | 0 where no property of the run depends on a confirmation: `delivery_sync` leaves confirmations out, `delivery_refines` and `repository_keys` have them |
| `Conn` | unbounded | 1 or 2, 3 in `sessions_one_connection` | two sessions compete; a third is a second competitor, and is needed where the first displaces nobody |
| `OneCallAfterFailure` | none | constraint of `repository_keys` | states with a failure in which both calls have begun are not continued: what a failure leaves behind is there with one call, and what two calls do to each other is there without a failure |
| `NoEmptyMark` | none | constraint of `repository_keys` | states in which a confirmation without a UUID has marked the empty field as read are not continued: no step and no property of the run reads `readState`; the XACK of such a confirmation, which comes first, is there |
| `Call`, `Key`, `Targets` | unbounded | 4, 1, 1 or 2 | a request, its retry, an invalid one, one without a key; requests with different keys share nothing; with two targets one may fail and the other not |
| `ResultTTL`, `MaxTime` (Requests) | 10 min, none | 1, 4 | a result is found, and one has run out, while requests with its key run |
| `Interval`, `StaleAfter`, `Latency`, `MaxTime` (Heartbeat) | 30 s, 90 s, small, none | 3, 9, 1, 23 | the ratio of the code; three intervals and one more, so that a pod is forgotten, comes back, and is met by a cleaner that read its old entry |
| `BatchSize`, `MaxMessages`, `MaxSessions` | 100, none, none | 2, 3, 2 | a full batch and a rest; a connection that is replaced |

The theorems do not depend on these bounds.

## Fairness

`Fairness`: time passes, a creation that has started runs on (a goroutine that is not waiting is scheduled; a
failing command is a separate action that may happen instead), and every janitor's commands: its ticker
fires each minute for as long as the pod runs. Failures are bounded by `MaxFaults`, so in the end a round completes.
Nothing is assumed of clients, trimmers or maintainers.

`DeliveryFairness`: the goroutines of a session run on, its handler receives from the error channel, and an
acknowledgement in flight is answered. `LoopTimeout` is the BLOCK of 30 seconds running out, which cannot last
longer. No fairness is assumed of the client: it may be silent for ever.

`SessionsFairness`: handlers that are not waiting run on (`HandlerRuns`), ReadJSON on a connection that is gone returns
an error (`ClientFails`), the loop of the delivery goroutine comes back to its context (`DeliveryEnds`: XREADGROUP
blocks for 30 seconds at most), the renewer's ticker fires and its requests are answered or fail, and the lease of the
lock runs. Nothing is assumed of clients, and no failure is forced. `AllEnd` has the error channel in it:
the fairness of `ClientFails` is of no use to a goroutine that waits at a full channel.

`FairSpec` of Requests: a request's goroutine runs on, because each command of the Redis client returns.
`RouterFairSpec`: the router's goroutine runs on and a pod that died is started again. Heartbeat needs no fairness:
`DeadPodForgotten` is a bound in time, under the assumption `Prompt` that a worker is late by `Delay` at most, and
`Latency <= Interval`.

## Proofs

All the theorems assume only the named ASSUMEs of the modules: sizes are natural numbers, the TTL is at most a day,
a second has at least one tick, `|Skew[p]| <= MaxSkew` (`TimeAssumption`, `PodAssumption`), no UUID is empty
(`NidAssumption`), a heartbeat is less than an interval late, the initial synchronisation asks for as many messages
as a stream may have (`HistoryAssumption`: the code has 100 for both, in two files). The numbers of notifications,
pods, sessions, requests, messages, failures and entries are arbitrary.

| theorem | establishes |
|---|---|
| `TypeCorrect` | `Spec => []TypeOK` |
| `Invariance` | the inductive invariant `IInv` |
| `PayloadLives` | `Spec => []NoEarlyExpiry` |
| `NothingLost` | `Spec => []NoLostEntry` |
| `ScheduledKept` | `Spec => []ScheduledUntilDeleted` |
| `LiveEntriesKept` | `Spec => LiveEntryKept` |
| `ConfirmedStays` | `Spec => []ConfirmedNotPending` |
| `DeliveryTypeCorrect` | `DeliverySpec => []DeliveryTypeOK` |
| `Refinement` | `DeliverySpec => RepositorySpec` |
| `RepositoryIsMailbox` | `Spec => MailboxRefined`: the repository implements the mailbox |
| `CreationsKeepContract` | `Spec => ContractRefined`: the commands of CreateNotification implement its contract |
| `SessionsServeMailbox` | `DeliverySpec => MailboxRefined`, from `Refinement` and `RepositoryIsMailbox` |
| `ClearedAreExpired` | `DeliverySpec => ClearedIsExpired` |
| `DeliveryLosesNothing` | `DeliverySpec => []NoLostEntry`, from `Refinement` and `NothingLost` |
| `NothingBetween` | `DeliverySpec => []NoGap`, for any number of sessions |
| `SyncShowsAll` | `DeliverySpec => []InitialSyncComplete` |
| `OneTaker` | `DeliverySpec => []TakenOnce`, for any number of sessions |
| `LoopInOrder` | `DeliverySpec => []LiveInOrder` |
| `ReadIsHonest` | `DeliverySpec => []ReadWasShown` |
| `DeliveryLives` | `DeliverySpec => LifeRefined`: the sessions implement `SessionLife` |
| `SessionsLive` | `SessionsSpec => LifeRefined`: so do handlers, registries, locks and crashes |
| `SessionsTypeCorrect` | `SessionsSpec => []SessionsTypeOK` |
| `SessionsReport` | `SessionsSpec => []ReportsNeverWait` |
| `SessionsRegistered` | `SessionsSpec => []RegisteredIsServed` |
| `SessionsLockKept` | `SessionsSpec => []LockKept` |
| `SessionsLockHasHolder` | `SessionsSpec => []LockHasHolder` |
| `RequestsTypes`, `AnswersNamePosted`, `EveryTargetIsTried`, `RetriesCreateNothing`, `ReplaysAreVerbatim` | `Spec => []P` for each safety invariant of Requests |
| `RequestsServe` | `Spec => NotifyRefined`: Requests implements `NotifyService` |
| `RequestsKeepContract` | `Spec => ContractKept`: Requests implements `CreateContract` |
| `HeartbeatTypes`, `BeatingPodsListed`, `DeadPodsForgotten` | `HeartbeatSpec => []P` for each invariant of Heartbeat |
| `RouterTypes`, `MessagesInOrder`, `MessagesReachAddressee`, `AcknowledgedIsWritten` | `RouterSpec => []P` for each invariant of InterPodRouter |
| `KeyParsesBack`, `KeysDistinct` | for IDs that are not negative, parsing a user key gives the user back, and different users have different keys |

The argument. None of the properties is inductive: a janitor acts on deadlines it fetched some steps ago, so an
invariant must say what is known of those. `Known` is the set of deadlines in the scheduler or in a janitor's hands.
`KnownInv`: each belongs to a call that is over, whose payload will not be written again, and lies no earlier than
the payload's birth plus TTL, less a second and the skew. `MatchInv` says the same of the stream entry with its ID.
`BatchInv`: a deadline in a batch had been reached by a clock at most `MaxSkew` ahead. Together they give the
tolerance of the properties: what a janitor deletes is older than TTL less a second less twice the skew.
`PayloadInv` turns that into `NoEarlyExpiry`. `SweptInv`: what a round has gone through is no longer in the stream,
so that its ZREM drops deadlines of vanished entries only; that is `ScheduledUntilDeleted`. `StreamInv`: IDs and
times are of the past, and the group exists before the first entry. `TrimInv`: a trim uses at least one day, which
is at least TTL. For `ConfirmedNotPending`, `GroupInv` adds that whatever is pending or confirmed is not ahead of
the group. `NoLostEntry` and `LiveEntryKept` are then preserved step by step. The refinement needs one more
invariant, `SentInv`: what a goroutine holds or a client was shown was put in the stream once, so that the client's
confirmation is an `AckMessage` of the repository.

For the sessions, `SInv` is the inductive invariant. `LeaseInv`: a lock that is there has a lease to run, and a session
that has started knows its pod. `HoldInv`: only a session that was told it has the lock goes on to release it.
`RegistryInv`: a registry has connections of its own pod whose handlers have not passed RemoveClient; without the first
half, deleting the entry of the handler's own pod would prove nothing about the others. `LockKept` then follows step by
step: a session can only acquire while the key is absent, which by `LockKept` itself means that nobody holds it.

`ReportsNeverWait` needs `ChanInv`: while both tasks run the channel is empty, and while one runs it has at most one
error, so that the free places always cover the tasks that can still report. For `SessionLife`, the mapping of
`Sessions` needs `EndInv`: an error in the channel, or received from it, is the report of a task that has ended; without
it, nothing would tie the cancel of the context to the end of a task. The mapping of `Delivery` needs `StartInv`: a
connection without a handler has no socket and two idle tasks, so that a session starts whole.

The mailbox is implemented step by step under the repository's inductive invariant: XADD posts (the group exists by
then), a read shows the oldest entries up to one of them, which `NewBatchIsOldest` says of the batch, XACK confirms, and
a janitor's XACK and XDEL act on deadlines that the invariant bounds, so that what they end is old. For
`CreateContract`, `AddedInv` says that a call which has come to its ZADD, or is through, has its XADD behind it; it
survives `PipelineRetry`, which goes back to the SET only before the call is over.

`ClearedAreExpired` needs two facts that outlive a session's own steps. `IdInv`: only XADD gives an ID, and a new one,
so an entry that has left the stream never comes back. `GoneInv`: whatever a goroutine holds without a
notification is gone from the stream for good. The rest is the repository's `PayloadInv`: a payload that is not found
was not alive.

`NothingBetween` and `SyncShowsAll` follow every entry of the stream through every session. `SyncInv` says that a
session which has read its history has each of them ahead of the group, in hand or shown, or another session took it.
It is preserved because an entry that appears is ahead of the group (`StaysPaid`), and because the group passes an
entry only in the hands of the goroutine that read it: `ShapeInv` says that this is a delivery goroutine, hence the
session's own or another session's. It begins to hold with the XREVRANGE, which returns the whole stream: `SizeInv` is
what XADD's MAXLEN guarantees, and `HistoryAssumption` that it is enough. `ConnectInv` keeps what was there at
the connection apart from what comes later.

`OneTaker`: `TakenInv` adds to `TakenOnce` that everything taken is behind the group, and a read takes only what is
ahead of it; nothing moves the group back, and it is created once. `LoopInOrder`:
`LiveInv` says that what a live loop has in hand it has taken, and that it is done with whatever it took before; a
batch is read only with empty hands and lies ahead of all that was taken. `ReadIsHonest`: `MarksInv`
follows a confirmation from the client that was shown a message, through the calls that are under way, to the field
"read". So what a history has loaded as read was pushed to some client before. `Honest` says of every push,
in hand or shown, what is behind it: if it says "read", the client's mark, and if it says "expired", a payload that was
gone (`ClearedInTime`, by the repository's `PayloadInv`) or another of the reasons of `Doubtful`. Once true, these
stay so (`DoubtStays`): `OnceInv`, that without a failure a payload is written once and before the entry is there, so
that `born` does not move, and `HandlerInv`, that a handler that has returned does not start again.

For the requests: `StepInv` says that only a call that is answered has stored a result, `PostInv` that what was
posted belongs to a call which has looked its key up, and `CoverInv` that a covered call does not go on to create;
that is `RetryCreatesNothing`. `AnswerInv` and `CacheInv`: whatever is answered or stored is what some call answered
for itself at the end of its loop, which gives `ReplayIsOneAnswer` and `AnswerNamesPosted`. `LatestInv` says that a
result that was stored can only be replaced by a later one, so that a covered call finds one. `CacheInv` also says
that a result lies under the key of the call that gave it; that is what makes a repeated answer a step of
`NotifyService`. `AheadInv`: no target has a result before its turn, so that the loop settles each creation once, as
`CreateContract` demands.

For the heartbeats, `EntryInv` ties an entry to the last beat of its pod, and `SeenInv` says that an entry a cleaner
holds was young when it was read, or its pod has been silent since: a cleaner cannot hold an entry that is stale and
whose pod beats. `ForgetInv` says of every listed pod `p` and working pod `q`, and every time after which `p`'s entry
is stale, that the round of `q` cannot yet have come to its deletions; `RoundSince` bounds where that round is, and
when the bounds contradict the clock, `p` is not listed.

For the router, `TodoInv` says that the batch in hand is the end of what the group has delivered, in order, and
`WrittenInv` that what was written comes before it; nothing delivered is delivered again.

Only model-checked: liveness under fairness (`ExpiredEventuallyCleaned`, `ShownWhileConnected`, `SessionEnds`,
`AllEnd`, `LockFreed`, `EveryCallEnds`, `RouterGetsThrough`), which is out of the prover's reach. Every safety
invariant and every action property of a passing run is also proved.

## Disagreements found

1. **Two connections in one pod** (`sessions_one_connection`). A second connection displaces a first one; the first
   one's handler then calls RemoveClient, which deletes the entry of the second; the third finds no entry and closes
   nothing. Two connections of the user are now served by one pod, and the router can reach only one of them.
2. **Duplicates under one key** (`requests_duplicate`). The key is looked up before and stored after the notifications
   are created. A retry that arrives in between, for example after the client's own time-out, creates all of them
   again, although `docs/en/README.md:486` says that the key prevents duplicates. The result is stored
   by whichever request ends last.

What the code does in these cases is in the models, but no run checks a property about it:

- A client may confirm a message it saw in the history before the group delivered it. The XACK does nothing
  (`AckXAck`); the read that follows makes the message pending, and it is pushed as unread on every reconnection.
- A session whose peer is gone keeps reading from the group for up to 30 seconds (`LoopRead` in a session that is
  `broken`). What it takes is pending, and the session the client has opened meanwhile is past its pending messages:
  the client is not shown it until it reconnects.
- A pending message that MAXLEN pushed out of the stream comes back from XREADGROUP without fields and is shown as
  `auto_cleared`, with an empty `notification_id`, although its payload is alive. `ClearedIsExpired` excepts it.
- A GET of the history that fails has its message pushed as `auto_cleared`. The documented client confirms that push
  as any other, and the next history calls the message read, although nobody has seen its text (`Doubtful` in
  `ReadWasShown`).
- A request may last longer than five minutes. Its stored result then outlives notifications that it names, and a
  retry is answered with them.
- A client that gives up leaves a request whose commands fail: what it had created stays, no result is stored, and
  the retry creates it again. `NoDuplicates` forbids it; no other property does.
- Release and renewal of the lock are two commands each (`ReleaseGet`, `ReleaseDel`), and the lock may run out and
  be taken by another pod in between: it is then deleted or extended for the wrong session. Nothing is guarded by
  it.
- A request of which every target failed is answered with 202 and an empty list, which is also what a retry with its
  key gets for ten minutes (`RetryCreatesNothing` has it).
- If the router's group could not be created, its error is ignored and every read fails until the process starts
  again (`CreateGroupFails`).
- A user with a negative ID, which WebSocketHandler accepts, has a key that nothing can parse: the workers skip the
  user and the router cannot reach it. POST /api/v1/notify refuses such IDs, so there is nothing to clean.
- `docs/en/README.md:294` says that the consumer lock ensures that only one pod reads the messages of a user. A
  session that does not get the lock reads all the same (`AcquireConsumerLock` in `Sessions` has the one step for
  both outcomes), and `Delivery` has such sessions compete.
- `docs/en/README.md:296` says that the heartbeat releases the locks of failed pods. Nothing in `heartbeat.go` does;
  a lock goes away by running out, which is what `LockFreed` relies on.
- `docs/en/README.md:295` says that the bus routes messages to the right pod. Nothing in the repository writes to a
  bus.
- `GetAllUserKeys` is documented as all users, but scans the TTL scheduler keys. A session that reads a message
  between the janitor's XACK and XDEL makes it pending; the ZREM empties the scheduler, and no worker visits the
  user until the next notification.

## What is not modelled

- Eviction: `docker-compose.yaml` runs Redis with `allkeys-lru`, so under memory pressure Redis may drop any key.
  Every promise here is for a Redis that does not evict, restart without its data, or fail over.
- Idle times of XAUTOCLAIM: `Reclaim` may scan any pending entries, which allows more than the code does.
- A full connection pool: sessions hold pool connections while they block, and other requests wait. The pool is in
  the Redis client library; for the models its time-outs are requests that fail.
- Two goroutines that write to one connection at the same time: the WebSocket library panics, which ends the pod. That
  is `PodCrashes`; nothing in the code or its documents says that the writers take turns.
- The jitter of the lock's extension (up to 250 ms) and an empty pod name, with which there is no lock.
- Other users: keys are disjoint (`KeysDistinct`, for IDs that are not negative). Numerals that `%d` does not write
  (`+1`, `01`), which the parsers accept, do not occur in keys that the repository makes.
- The reports of the administration: they call `GetAllUserKeys` and `ReadPendingMessages`, which are modelled where
  workers and sessions call them, and change nothing.
- Entries of the heartbeat registry that are no numbers, which nothing writes and the workers delete.
- HTTP decoding and formatting, the web page, the two command line clients, metrics, configuration.

## Plan

Done: `NotificationRepository`, `Mailbox`, `CreateContract`, `Delivery`, `SessionLife`, `Sessions`, `Requests`,
`NotifyService`, `Heartbeat`, `UserKeys` and `InterPodRouter`, with their proofs. What is left, in the order of its
worth:

1. An abstract specification of the bus (messages written in order, each at most once, to the addressee), and
   `InterPodRouter` shown to implement it.
2. An abstract specification of the registry of pods for `Heartbeat`, in time: listed while beating, forgotten after.
3. The lock of `Sessions` as an abstract lock with a lease, refined as long as the lease has not run out.
