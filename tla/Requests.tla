-------------------------------- MODULE Requests --------------------------------
(***************************************************************************)
(* POST /api/v1/notify on several pods: NotifyHandler, CreateNotifications *)
(* and the results that are kept under the client's Idempotency-Key.       *)
(*                                                                         *)
(* One action is one call to Redis.  CreateNotification is a single action *)
(* here, with the three outcomes its caller can meet; its commands, one by *)
(* one, are in NotificationRepository.  A retry of the client is one more  *)
(* call with the same key.                                                 *)
(***************************************************************************)
EXTENDS Integers, FiniteSets

CONSTANTS
  Call,        \* HTTP requests
  Pod,         \* server processes
  Home,        \* Home[c]: the pod that serves c
  Key, NoKey,  \* values of the Idempotency-Key header, and its absence
  KeyOf,       \* KeyOf[c]
  Body,        \* Body[c]: "ok", or "invalid" for validateNotifyRequest
  Targets,     \* Targets[c]: the number of targets of c
  ResultTTL,   \* ten minutes, in clock ticks
  MaxFaults,   \* bound: failed commands, crashes and lost clients in one behaviour
  MaxTime      \* bound: the last tick of the clock

ASSUME CallAssumption ==
  /\ Home \in [Call -> Pod]
  /\ NoKey \notin Key
  /\ KeyOf \in [Call -> Key \union {NoKey}]
  /\ Body \in [Call -> {"ok", "invalid"}]
  /\ Targets \in [Call -> Nat]

ASSUME TimeAssumption ==
  /\ ResultTTL \in Nat \ {0}
  /\ MaxFaults \in Nat /\ MaxTime \in Nat

VARIABLES
  now,      \* the clock of Redis
  step,     \* step[c]: where the call is
  next,     \* next[c]: the target whose turn it is
  results,  \* results[c]: the targets that the response lists
  cache,    \* cache[k]: notify:req:<k>, the result stored last, or NoResult
  posted,   \* the notifications that were added to a user's stream
  answer,   \* answer[c]: the response, or NoResult
  gone,     \* running calls whose client has left: r.Context() is cancelled
  faults,   \* failures so far
  \* History: read by properties only.
  stored,   \* stored[c]: when the result of c was stored, 0: it was not
  covered,  \* covered[c]: the calls with c's key whose result was stored before c
            \* looked the key up, and less than ResultTTL ago
  blind,    \* the calls whose look-up failed
  broken    \* broken[c]: the targets for which CreateNotification failed

store   == <<cache, posted>>
history == <<stored, covered, blind, broken>>
vars    == <<now, step, next, results, store, answer, gone, faults, history>>
-----------------------------------------------------------------------------
NoResult == [by |-> {}, ids |-> {}, at |-> 0]

(* A notification is the target of a call: each gets a UUID of its own. *)
Notification == [call : Call, target : Nat \ {0}]

Result == [by : SUBSET Call, ids : SUBSET Notification, at : Nat]

Steps  == {"new", "creating", "answered", "refused", "dead"}
Open(c) == step[c] \in {"new", "creating"}

Init ==
  /\ now = 1
  /\ step = [c \in Call |-> "new"]
  /\ next = [c \in Call |-> 1]
  /\ results = [c \in Call |-> {}]
  /\ cache = [k \in Key |-> NoResult]
  /\ posted = {}
  /\ answer = [c \in Call |-> NoResult]
  /\ gone = {} /\ faults = 0
  /\ stored = [c \in Call |-> 0]
  /\ covered = [c \in Call |-> {}]
  /\ blind = {} /\ broken = [c \in Call |-> {}]

(* A command of c fails: always once the client is gone, since go-redis    *)
(* refuses a cancelled context, and otherwise when Redis cannot be reached. *)
CommandFails(c) ==
  \/ c \in gone /\ faults' = faults
  \/ c \notin gone /\ faults < MaxFaults /\ faults' = faults + 1

(* Mutant: a result without notifications does not count as one. *)
HitIfNotEmpty(k) == cache[k].ids # {} /\ now < cache[k].at + ResultTTL

(* GetIdempotencyResult finds a result, even one that lists nothing. *)
Hit(k) == cache[k].by # {} /\ now < cache[k].at + ResultTTL

Keyed(c) == KeyOf[c] # NoKey

(* What every look-up leaves behind, and what it leaves alone. *)
LookUp(c) ==
  /\ covered' = [covered EXCEPT ![c] =
       {d \in Call : /\ Keyed(c) /\ KeyOf[d] = KeyOf[c]
                     /\ stored[d] # 0 /\ now < stored[d] + ResultTTL}]
  /\ UNCHANGED <<now, next, results, store, stored, broken>>

(* The handler is over, and its context with it. *)
Finish(c, s) ==
  /\ step' = [step EXCEPT ![c] = s]
  /\ gone' = gone \ {c}

AnswerFromCache(c) ==
  /\ step[c] = "new"
  /\ Keyed(c) /\ c \notin gone /\ Hit(KeyOf[c])
  /\ answer' = [answer EXCEPT ![c] = cache[KeyOf[c]]]
  /\ Finish(c, "answered")
  /\ LookUp(c)
  /\ UNCHANGED <<faults, blind>>

ValidateNotifyRequest(c) == Body[c] = "ok"

(* No key, no result, or an error of the look-up: the call goes on, and *)
(* only now is it validated.                                            *)
NothingCached(c) ==
  /\ step[c] = "new"
  /\ \/ ~Keyed(c) /\ UNCHANGED <<faults, blind>>
     \/ Keyed(c) /\ c \notin gone /\ ~Hit(KeyOf[c]) /\ UNCHANGED <<faults, blind>>
     \/ Keyed(c) /\ CommandFails(c) /\ blind' = blind \union {c}
  /\ \/ /\ ValidateNotifyRequest(c)
        /\ step' = [step EXCEPT ![c] = "creating"]
        /\ UNCHANGED gone
     \/ ~ValidateNotifyRequest(c) /\ Finish(c, "refused")
  /\ LookUp(c)
  /\ UNCHANGED answer

-----------------------------------------------------------------------------
(* Mutants: a failure ends the loop, or its target is tried again. *)
StopAtFailure(c) == Targets[c] + 1
TryAgain(c) == next[c]

(* `continue': the loop goes on with the other targets. *)
AfterFailure(c) == next[c] + 1

(* Mutant: the target is listed although CreateNotification failed. *)
ListAnyway(c) == results[c] \union {next[c]}

ListedAfterFailure(c) == results[c]

Current(c) == [call |-> c, target |-> next[c]]

CreateNotification(c) ==
  /\ step[c] = "creating" /\ next[c] <= Targets[c]
  /\ c \notin gone
  /\ posted' = posted \union {Current(c)}
  /\ results' = [results EXCEPT ![c] = @ \union {next[c]}]
  /\ next' = [next EXCEPT ![c] = @ + 1]
  /\ UNCHANGED <<now, step, cache, answer, gone, faults, history>>

(* It fails before its XADD, or the reply of the XADD is lost. *)
CreateNotificationFails(c) ==
  /\ step[c] = "creating" /\ next[c] <= Targets[c]
  /\ CommandFails(c)
  /\ \/ posted' = posted
     \/ c \notin gone /\ posted' = posted \union {Current(c)}
  /\ results' = [results EXCEPT ![c] = ListedAfterFailure(c)]
  /\ next' = [next EXCEPT ![c] = AfterFailure(c)]
  /\ broken' = [broken EXCEPT ![c] = @ \union {next[c]}]
  /\ UNCHANGED <<now, step, cache, answer, gone, stored, covered, blind>>

LoopEnded(c) == step[c] = "creating" /\ next[c] > Targets[c]

Response(c) == [by |-> {c}, at |-> now,
                ids |-> {[call |-> c, target |-> i] : i \in results[c]}]

(* Mutant: targets are counted from zero. *)
ResponseFromZero(c) == [Response(c) EXCEPT !.ids =
                          {[call |-> c, target |-> i - 1] : i \in results[c]}]

(* Mutant: what is stored adds to what is stored already. *)
StoredMerged(c) == [Response(c) EXCEPT !.ids = @ \union cache[KeyOf[c]].ids]

Stored(c) == Response(c)

SaveIdempotencyResult(c) ==
  /\ LoopEnded(c) /\ Keyed(c) /\ c \notin gone
  /\ cache' = [cache EXCEPT ![KeyOf[c]] = Stored(c)]
  /\ stored' = [stored EXCEPT ![c] = now]
  /\ answer' = [answer EXCEPT ![c] = Response(c)]
  /\ Finish(c, "answered")
  /\ UNCHANGED <<now, next, results, posted, faults, covered, blind, broken>>

(* No key, or the failure of the SET, which is only logged. *)
AnswerUnstored(c) ==
  /\ LoopEnded(c)
  /\ \/ ~Keyed(c) /\ UNCHANGED faults
     \/ Keyed(c) /\ CommandFails(c)
  /\ answer' = [answer EXCEPT ![c] = Response(c)]
  /\ Finish(c, "answered")
  /\ UNCHANGED <<now, next, results, store, history>>

-----------------------------------------------------------------------------
(* The client closes its connection, for example after its own time limit. *)
ClientLeaves(c) ==
  /\ Open(c) /\ c \notin gone
  /\ faults < MaxFaults
  /\ faults' = faults + 1
  /\ gone' = gone \union {c}
  /\ UNCHANGED <<now, step, next, results, store, answer, history>>

Running(p) == {c \in Call : Home[c] = p /\ step[c] = "creating"}

(* The pod dies with the calls it is at. *)
Crash(p) ==
  /\ faults < MaxFaults
  /\ faults' = faults + 1
  /\ Running(p) # {}
  /\ step' = [c \in Call |-> IF c \in Running(p) THEN "dead" ELSE step[c]]
  /\ gone' = gone \ Running(p)
  /\ UNCHANGED <<now, next, results, store, answer, history>>

(* Nothing bounds how long a request takes. *)
Tick ==
  /\ now < MaxTime
  /\ now' = now + 1
  /\ UNCHANGED <<step, next, results, store, answer, gone, faults, history>>

CreateNotifications(c) ==
  \/ AnswerFromCache(c) \/ NothingCached(c)
  \/ CreateNotification(c) \/ CreateNotificationFails(c)
  \/ SaveIdempotencyResult(c) \/ AnswerUnstored(c)

Next ==
  \/ \E c \in Call : CreateNotifications(c) \/ ClientLeaves(c)
  \/ \E p \in Pod : Crash(p)
  \/ Tick

Spec == Init /\ [][Next]_vars

(* The goroutine of a request runs on: every Redis command returns. *)
FairSpec == Spec /\ \A c \in Call : WF_vars(CreateNotifications(c))
-----------------------------------------------------------------------------
(* Properties. *)

TypeOK ==
  /\ now \in Nat
  /\ step \in [Call -> Steps]
  /\ next \in [Call -> Nat \ {0}]
  /\ results \in [Call -> SUBSET (Nat \ {0})]
  /\ cache \in [Key -> Result]
  /\ posted \subseteq Notification
  /\ answer \in [Call -> Result]
  /\ gone \subseteq Call /\ blind \subseteq Call
  /\ faults \in 0..MaxFaults
  /\ stored \in [Call -> Nat]
  /\ covered \in [Call -> SUBSET Call]
  /\ broken \in [Call -> SUBSET (Nat \ {0})]

(* A response never names a notification that was not created: neither the *)
(* call's own, after failures of some targets, nor one that another call   *)
(* stored and this one repeats.                                            *)
AnswerNamesPosted ==
  \A c \in Call : answer[c].ids \subseteq posted

(* One recipient's failure costs the others nothing: when the call answers *)
(* for itself, each target is listed or its CreateNotification failed.     *)
EveryTargetTried ==
  \A c \in Call :
    answer[c].by = {c} =>
      \A i \in 1..Targets[c] : [call |-> c, target |-> i] \in answer[c].ids
                               \/ i \in broken[c]

(* The promise of the key: a call that looks its key up after the result   *)
(* of another call was stored, and within ten minutes of it, creates       *)
(* nothing, unless the look-up itself failed.                              *)
RetryCreatesNothing ==
  \A d \in Call :
    covered[d] # {} /\ d \notin blind => \A m \in posted : m.call # d

(* A repeated response is the one the call that stored it gave, word for   *)
(* word, and never the state of a call that was still at work.             *)
ReplayIsOneAnswer ==
  \A c, d \in Call : answer[d].by = {c} => answer[d].ids = answer[c].ids

(* Whatever the pods, failures and concurrent calls with one key do, the   *)
(* callers see what NotifyService says: no call creates after its answer,  *)
(* an answer lists the call's own creations, or it is the answer of a call *)
(* with the same key, given to one that has created nothing itself.        *)
Service == INSTANCE NotifyService WITH
  created <- posted,
  reply   <- [c \in Call |-> [by |-> answer[c].by, ids |-> answer[c].ids]]

NotifyRefined == Service!Spec

AllTargets == UNION {{[call |-> c, target |-> i] : i \in 1..Targets[c]} : c \in Call}

(* What a call makes of its results is what the repository tells it: a     *)
(* target is listed when its CreateNotification has returned, and never    *)
(* when it has failed, although its notification may exist.                *)
Contract == INSTANCE CreateContract WITH
  Item <- AllTargets,
  outcome <- [n \in AllTargets |->
                IF n.target \in results[n.call] THEN "returned"
                ELSE IF n.target \in broken[n.call] THEN "failed" ELSE "open"],
  inStream <- posted

ContractKept == Contract!Spec

(* Every request is answered, refused or ended by a crash of its pod, also *)
(* when its client is gone and all its commands fail.                      *)
EveryCallEnds == \A c \in Call : Open(c) ~> ~Open(c)

(* docs/en/README.md:486: the header prevents duplicate notifications. *)
NoDuplicates ==
  \A m, n \in posted :
    /\ Keyed(m.call) /\ KeyOf[m.call] = KeyOf[n.call]
    /\ m.target = n.target
    => m.call = n.call
=============================================================================
