---------------------------- MODULE InterPodRouter ----------------------------
(***************************************************************************)
(* The InterPodRouter of ONE pod (internal/worker/router_bus.go), with the *)
(* callback that cmd/server/main.go gives it: it reads the pod's stream    *)
(* notif:bus:<pod> as the consumer group "router" and writes each message  *)
(* to the WebSocket connection of its user, if the user has one here.      *)
(* Nothing in the repository posts to the stream: the producers, and the   *)
(* users that come and go, are the environment.                            *)
(***************************************************************************)
EXTENDS UserKeys

CONSTANTS
  Target,      \* users that connect to this pod
  Key,         \* user keys that messages carry
  BatchSize,   \* COUNT of a read, 100
  MaxMessages, \* bound: messages posted
  MaxSessions, \* bound: connections of one user
  MaxFaults    \* bound: failing commands and crashes in one behaviour

ASSUME RouterAssumption ==
  /\ Target \subseteq User /\ Key \subseteq Seq(Symbol)
  /\ BatchSize \in Nat \ {0}
  /\ MaxMessages \in Nat /\ MaxSessions \in Nat /\ MaxFaults \in Nat

VARIABLES
  bus,      \* the stream: the user key of each message
  group,    \* last-delivered position of the group, or NoGroup
  pel,      \* the group's pending positions
  step,     \* the router: off, create the group, read, deliver, write, ack
  todo,     \* positions of the batch that it has not dealt with, in order
  session,  \* the connection that SendToUser found
  sessions, \* sessions[u]: how many connections u has had to this pod
  online,   \* users whose last connection is registered and open
  written,  \* history: what was written, in order: position and user
  acked,    \* history: positions acknowledged
  faults    \* failures so far

redis   == <<bus, group, pel>>
routing == <<step, todo, session>>
clients == <<sessions, online>>
rvars   == <<redis, routing, clients, written, acked, faults>>

NoGroup == -1

RouterInit ==
  /\ bus = <<>> /\ group = NoGroup /\ pel = {}
  /\ step = "off" /\ todo = <<>> /\ session = 0
  /\ sessions = [u \in Target |-> 0] /\ online = {}
  /\ written = <<>> /\ acked = {}
  /\ faults = 0

Fail ==
  /\ faults < MaxFaults
  /\ faults' = faults + 1
-----------------------------------------------------------------------------
Start ==
  /\ step = "off"
  /\ step' = "create"
  /\ UNCHANGED <<redis, todo, session, clients, written, acked, faults>>

(* Mutant: a pod that starts again reads the stream from its beginning. *)
GroupFromStart == 0

(* XGROUP CREATE ... "$" MKSTREAM; the error is ignored, also BUSYGROUP. *)
GroupAfterCreate == IF group = NoGroup THEN Len(bus) ELSE group

CreateGroup ==
  /\ step = "create"
  /\ group' = GroupAfterCreate
  /\ step' = "read"
  /\ UNCHANGED <<bus, pel, todo, session, clients, written, acked, faults>>

CreateGroupFails ==
  /\ Fail
  /\ step = "create"
  /\ step' = "read"
  /\ UNCHANGED <<redis, todo, session, clients, written, acked>>

(* XREADGROUP ">" BLOCK.  A read that fails, by NOGROUP or otherwise, or   *)
(* that times out, changes nothing: the loop reads again.                  *)
BatchEnd == IF group + BatchSize < Len(bus) THEN group + BatchSize ELSE Len(bus)

Fetch ==
  /\ step = "read"
  /\ group # NoGroup /\ group < Len(bus)
  /\ group' = BatchEnd
  /\ pel' = pel \union (group + 1 .. BatchEnd)
  /\ UNCHANGED bus

Read ==
  /\ Fetch
  /\ step' = "deliver"
  /\ todo' = [k \in 1 .. BatchEnd - group |-> group + k]
  /\ UNCHANGED <<session, clients, written, acked, faults>>

(* The read takes effect and its reply is lost. *)
ReadReplyLost ==
  /\ Fail
  /\ Fetch
  /\ UNCHANGED <<routing, clients, written, acked>>

(* The router is through with a message and goes on to the next one. *)
NextMessage ==
  /\ todo' = Tail(todo)
  /\ step' = IF Tail(todo) = <<>> THEN "read" ELSE "deliver"

(* deliver: the user of the key; SendToUser looks for its connection. *)
Addressee == ParseUserKey(bus[Head(todo)])

(* A connection that is not open any more may still be registered. *)
FindClient ==
  /\ step = "deliver"
  /\ \E u \in Addressee \intersect online : session' = sessions[u]
  /\ step' = "write"
  /\ UNCHANGED <<redis, todo, clients, written, acked, faults>>

(* Mutant: the message is tried until its user connects. *)
RetryMessage == UNCHANGED <<todo, step>>

(* What follows when a message was not delivered: it stays pending. *)
GiveUp == NextMessage

NoClient ==
  /\ step = "deliver"
  /\ Addressee \intersect online = {}
  /\ GiveUp
  /\ UNCHANGED <<redis, session, clients, written, acked, faults>>

(* WriteJSON, outside of the lock: the connection may have been closed, or *)
(* replaced by a newer one of the user, since it was looked up.            *)
StillOpen(u) == u \in online /\ sessions[u] = session

WriteMessage ==
  /\ step = "write"
  /\ \E u \in Addressee \intersect Target :
       /\ StillOpen(u)
       /\ written' = Append(written, [pos |-> Head(todo), user |-> u])
  /\ step' = "ack"
  /\ UNCHANGED <<redis, todo, session, clients, acked, faults>>

(* Mutant: the result of the write is not looked at. *)
WriteFailsUnnoticed ==
  /\ step = "write"
  /\ \A u \in Addressee \intersect Target : ~StillOpen(u)
  /\ step' = "ack"
  /\ UNCHANGED <<redis, todo, session, clients, written, acked, faults>>

WriteFails ==
  /\ step = "write"
  /\ \A u \in Addressee \intersect Target : ~StillOpen(u)
  /\ GiveUp
  /\ UNCHANGED <<redis, session, clients, written, acked, faults>>

Ack ==
  /\ step = "ack"
  /\ pel' = pel \ {Head(todo)}
  /\ acked' = acked \union {Head(todo)}
  /\ NextMessage
  /\ UNCHANGED <<bus, group, session, clients, written, faults>>

(* The error of XACK is ignored. *)
AckFails ==
  /\ Fail
  /\ step = "ack"
  /\ NextMessage
  /\ UNCHANGED <<redis, session, clients, written, acked>>

(* The process ends, and every connection with it. *)
Crash ==
  /\ Fail
  /\ step # "off"
  /\ step' = "off" /\ todo' = <<>> /\ online' = {}
  /\ UNCHANGED <<redis, session, sessions, written, acked>>
-----------------------------------------------------------------------------
(* The environment. *)

Post(k) ==
  /\ Len(bus) < MaxMessages
  /\ bus' = Append(bus, k)
  /\ UNCHANGED <<group, pel, routing, clients, written, acked, faults>>

(* AddClient replaces and closes an earlier connection. *)
Connect(u) ==
  /\ step # "off" /\ sessions[u] < MaxSessions
  /\ sessions' = [sessions EXCEPT ![u] = @ + 1]
  /\ online' = online \union {u}
  /\ UNCHANGED <<redis, routing, written, acked, faults>>

Leave(u) ==
  /\ u \in online
  /\ online' = online \ {u}
  /\ UNCHANGED <<redis, routing, sessions, written, acked, faults>>

Router ==
  \/ Start \/ CreateGroup \/ Read
  \/ FindClient \/ NoClient \/ WriteMessage \/ WriteFails \/ Ack

RouterFailure == CreateGroupFails \/ ReadReplyLost \/ AckFails \/ Crash

RouterNext ==
  \/ Router
  \/ RouterFailure
  \/ \E k \in Key : Post(k)
  \/ \E u \in Target : Connect(u) \/ Leave(u)

RouterSpec == RouterInit /\ [][RouterNext]_rvars

(* The router's goroutine runs on, and a pod that died is started again. *)
RouterFairSpec == RouterSpec /\ WF_rvars(Router)
-----------------------------------------------------------------------------
(* Properties. *)

RouterTypeOK ==
  /\ bus \in Seq(Key)
  /\ group \in Nat \union {NoGroup} /\ group <= Len(bus)
  /\ pel \subseteq 1 .. Len(bus) /\ acked \subseteq 1 .. Len(bus)
  /\ step \in {"off", "create", "read", "deliver", "write", "ack"}
  /\ todo \in Seq(Nat) /\ session \in Nat
  /\ step \in {"deliver", "write", "ack"} <=> todo # <<>>
  /\ sessions \in [Target -> Nat] /\ online \subseteq Target
  /\ written \in Seq([pos : Nat, user : Target])
  /\ faults \in 0 .. MaxFaults

(* Messages are written in the order of the stream and none twice, to      *)
(* whichever users and connections: not when a read or an XACK is lost,    *)
(* and not when the pod dies and its router starts again.                  *)
WrittenInOrder ==
  \A i, j \in DOMAIN written : i < j => written[i].pos < written[j].pos

(* A message reaches only the user whose key it carries, although logins   *)
(* may contain dashes, so that one key can be the beginning of another.    *)
RoutedToAddressee ==
  \A i \in DOMAIN written : bus[written[i].pos] = UserKey(written[i].user)

(* XACK means written: an acknowledged message was given to a connection.  *)
(* Conversely, as long as nothing failed, a pending message that the       *)
(* router has left behind was not.                                         *)
AckedIffWritten ==
  LET done == {written[i].pos : i \in DOMAIN written}
      hand == {todo[i] : i \in DOMAIN todo}
  IN  /\ acked \subseteq done
      /\ faults = 0 => (pel \ hand) \intersect done = {}

(* No message holds up the others: while nothing fails, the router gets    *)
(* through with every message that is posted once its group exists.        *)
RouterGetsThrough ==
  \A i \in 1 .. MaxMessages :
    group # NoGroup /\ i <= Len(bus)
      ~> faults # 0 \/ (i <= group /\ \A k \in DOMAIN todo : todo[k] # i)
=============================================================================
