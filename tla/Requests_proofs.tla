---------------------------- MODULE Requests_proofs ----------------------------
(***************************************************************************)
(* The safety invariants of Requests for any number of requests, pods and  *)
(* keys, and for every life time of a stored result.                       *)
(***************************************************************************)
EXTENDS Requests, TLAPS

Listed(c) == {[call |-> c, target |-> i] : i \in results[c]}

(* Only an answered call has stored a result or has an answer. *)
StepInv ==
  /\ now # 0
  /\ \A c \in Call :
    /\ stored[c] <= now
    /\ stored[c] # 0 => Keyed(c) /\ step[c] = "answered"
    /\ answer[c].by # {} => step[c] = "answered"

(* The loop over the targets. *)
LoopInv ==
  \A c \in Call :
    /\ \A i \in results[c] : [call |-> c, target |-> i] \in posted
    /\ \A i \in Nat \ {0} : i < next[c] => i \in results[c] \/ i \in broken[c]

(* What was created belongs to a call that has looked its key up. *)
PostInv == \A m \in posted : step[m.call] # "new"

(* A call that answers for itself has been through its loop. *)
OwnAnswer(c) ==
  answer[c].by = {c} /\ answer[c].ids = Listed(c) /\ next[c] > Targets[c]

AnswerInv ==
  \A c \in Call :
    \/ answer[c].by = {} /\ answer[c].ids = {}
    \/ \E d \in Call : /\ answer[c].by = {d} /\ answer[c].ids = answer[d].ids
                       /\ OwnAnswer(d)

CacheInv ==
  \A k \in Key :
    \/ cache[k].by = {} /\ cache[k].ids = {}
    \/ \E d \in Call : /\ cache[k].by = {d} /\ cache[k].ids = answer[d].ids
                       /\ cache[k].at = stored[d] /\ stored[d] # 0
                       /\ OwnAnswer(d) /\ KeyOf[d] = k

(* The cache holds the result stored last. *)
LatestInv ==
  \A c \in Call :
    stored[c] # 0 => cache[KeyOf[c]].by # {} /\ stored[c] <= cache[KeyOf[c]].at

CoverInv ==
  \A d \in Call : covered[d] # {} /\ d \notin blind => step[d] \notin {"new", "creating"}

IInv ==
  /\ TypeOK /\ StepInv /\ LoopInv /\ PostInv /\ AnswerInv /\ CacheInv
  /\ LatestInv /\ CoverInv /\ RetryCreatesNothing
-----------------------------------------------------------------------------
(* Every step of a call, a crash or the clock. *)
LEMMA StepKinds ==
  ASSUME Next
  PROVE  \/ \E c \in Call : CreateNotifications(c) \/ ClientLeaves(c)
         \/ \E p \in Pod : Crash(p)
         \/ Tick
  BY DEF Next

LEMMA TypeCorrect ==
  ASSUME TypeOK, [Next]_vars
  PROVE  TypeOK'
  <1> USE CallAssumption, TimeAssumption DEF TypeOK, Result, Notification, store, history
  <1>1. ASSUME NEW c \in Call, AnswerFromCache(c) PROVE TypeOK'
    <2>1. covered' \in [Call -> SUBSET Call]
      BY <1>1 DEF AnswerFromCache, LookUp
    <2>2. step' \in [Call -> Steps] /\ gone' \subseteq Call
      BY <1>1 DEF AnswerFromCache, Finish, Steps
    <2>3. answer' \in [Call -> Result]
      BY <1>1 DEF AnswerFromCache, Keyed
    <2> QED BY <1>1, <2>1, <2>2, <2>3 DEF AnswerFromCache, LookUp
  <1>2. ASSUME NEW c \in Call, NothingCached(c) PROVE TypeOK'
    <2>1. covered' \in [Call -> SUBSET Call]
      BY <1>2 DEF NothingCached, LookUp
    <2>2. step' \in [Call -> Steps] /\ gone' \subseteq Call
      <3>1. CASE /\ step' = [step EXCEPT ![c] = "creating"]
                 /\ UNCHANGED gone
        BY <3>1 DEF Steps
      <3>2. CASE Finish(c, "refused")
        BY <1>2, <3>2 DEF Finish, Steps
      <3> QED BY <1>2, <3>1, <3>2 DEF NothingCached
    <2>3. blind' \subseteq Call /\ faults' \in 0..MaxFaults
      BY <1>2 DEF NothingCached, CommandFails
    <2> QED BY <1>2, <2>1, <2>2, <2>3 DEF NothingCached, LookUp
  <1>3. ASSUME NEW c \in Call, CreateNotification(c) PROVE TypeOK'
    BY <1>3 DEF CreateNotification, Current, Steps
  <1>4. ASSUME NEW c \in Call, CreateNotificationFails(c) PROVE TypeOK'
    BY <1>4 DEF CreateNotificationFails, Current, CommandFails, ListedAfterFailure, AfterFailure, Steps
  <1>5. ASSUME NEW c \in Call, SaveIdempotencyResult(c) PROVE TypeOK'
    <2>1. Response(c) \in Result
      BY DEF Response
    <2>2. step' \in [Call -> Steps] /\ gone' \subseteq Call
      BY <1>5 DEF SaveIdempotencyResult, Finish, Steps
    <2>3. cache' \in [Key -> Result] /\ answer' \in [Call -> Result]
      BY <1>5, <2>1 DEF SaveIdempotencyResult, Stored
    <2>4. stored' \in [Call -> Nat]
      BY <1>5 DEF SaveIdempotencyResult
    <2> QED BY <1>5, <2>2, <2>3, <2>4 DEF SaveIdempotencyResult
  <1>6. ASSUME NEW c \in Call, AnswerUnstored(c) PROVE TypeOK'
    BY <1>6 DEF AnswerUnstored, LoopEnded, Response, Finish, CommandFails, Steps
  <1>7. ASSUME NEW c \in Call, ClientLeaves(c) PROVE TypeOK'
    BY <1>7 DEF ClientLeaves, Steps
  <1>8. ASSUME NEW p \in Pod, Crash(p) PROVE TypeOK'
    BY <1>8 DEF Crash, Steps
  <1>9. CASE Tick
    BY <1>9 DEF Tick
  <1>10. CASE UNCHANGED vars
    BY <1>10 DEF vars
  <1> QED BY <1>1, <1>2, <1>3, <1>4, <1>5, <1>6, <1>7, <1>8, <1>9, <1>10 DEF Next, CreateNotifications

LEMMA StepKept ==
  ASSUME TypeOK, StepInv, [Next]_vars
  PROVE  StepInv'
  <1> USE CallAssumption, TimeAssumption DEF TypeOK, StepInv, Keyed, store, history
  <1>1. ASSUME NEW c \in Call, AnswerFromCache(c) PROVE StepInv'
    BY <1>1 DEF AnswerFromCache, LookUp, Finish
  <1>2. ASSUME NEW c \in Call, NothingCached(c) PROVE StepInv'
    <2>1. CASE step' = [step EXCEPT ![c] = "creating"]
      BY <1>2, <2>1 DEF NothingCached, LookUp
    <2>2. CASE Finish(c, "refused")
      BY <1>2, <2>2 DEF NothingCached, LookUp, Finish
    <2> QED BY <1>2, <2>1, <2>2 DEF NothingCached
  <1>3. ASSUME NEW c \in Call, CreateNotification(c) PROVE StepInv'
    BY <1>3 DEF CreateNotification, Current
  <1>4. ASSUME NEW c \in Call, CreateNotificationFails(c) PROVE StepInv'
    BY <1>4 DEF CreateNotificationFails, Current, ListedAfterFailure, AfterFailure
  <1>5. ASSUME NEW c \in Call, SaveIdempotencyResult(c) PROVE StepInv'
    BY <1>5 DEF SaveIdempotencyResult, LoopEnded, Stored, Response, Finish
  <1>6. ASSUME NEW c \in Call, AnswerUnstored(c) PROVE StepInv'
    BY <1>6 DEF AnswerUnstored, LoopEnded, Response, Finish
  <1>7. ASSUME NEW c \in Call, ClientLeaves(c) PROVE StepInv'
    BY <1>7 DEF ClientLeaves
  <1>8. ASSUME NEW p \in Pod, Crash(p) PROVE StepInv'
    BY <1>8 DEF Crash, Running, Open
  <1>9. CASE Tick
    BY <1>9 DEF Tick
  <1>10. CASE UNCHANGED vars
    BY <1>10 DEF vars
  <1> QED BY <1>1, <1>2, <1>3, <1>4, <1>5, <1>6, <1>7, <1>8, <1>9, <1>10 DEF Next, CreateNotifications

LEMMA LoopKept ==
  ASSUME TypeOK, StepInv, LoopInv, [Next]_vars
  PROVE  LoopInv'
  <1> USE CallAssumption, TimeAssumption DEF TypeOK, StepInv, LoopInv, store, history
  <1>1. ASSUME NEW c \in Call, AnswerFromCache(c) PROVE LoopInv'
    BY <1>1 DEF AnswerFromCache, LookUp, Finish
  <1>2. ASSUME NEW c \in Call, NothingCached(c) PROVE LoopInv'
    BY <1>2 DEF NothingCached, LookUp, Finish
  <1>3. ASSUME NEW c \in Call, CreateNotification(c) PROVE LoopInv'
    <2>1. /\ results \in [Call -> SUBSET (Nat \ {0})] /\ next \in [Call -> Nat \ {0}]
          /\ broken \in [Call -> SUBSET (Nat \ {0})]
      OBVIOUS
    <2> HIDE DEF TypeOK, StepInv
    <2>2. /\ posted' = posted \union {Current(c)}
          /\ results' = [results EXCEPT ![c] = results[c] \union {next[c]}]
          /\ next' = [next EXCEPT ![c] = next[c] + 1] /\ broken' = broken
      BY <1>3 DEF CreateNotification
    <2>3. Current(c) \in posted'
      BY <2>2
    <2>4. ASSUME NEW d \in Call, NEW i \in results'[d]
          PROVE  [call |-> d, target |-> i] \in posted'
      <3>1. CASE d = c /\ i = next[c]
        BY <2>3, <3>1 DEF Current
      <3>2. CASE i \in results[d]
        BY <2>2, <3>2
      <3> QED BY <2>1, <2>2, <3>1, <3>2
    <2>5. ASSUME NEW d \in Call, NEW i \in Nat \ {0}, i < next'[d]
          PROVE  i \in results'[d] \/ i \in broken'[d]
      <3>1. CASE d = c
        BY <2>1, <2>2, <2>5, <3>1
      <3>2. CASE d # c
        BY <2>1, <2>2, <2>5, <3>2
      <3> QED BY <3>1, <3>2
    <2> QED BY <2>4, <2>5
  <1>4. ASSUME NEW c \in Call, CreateNotificationFails(c) PROVE LoopInv'
    <2>1. /\ results \in [Call -> SUBSET (Nat \ {0})] /\ next \in [Call -> Nat \ {0}]
          /\ broken \in [Call -> SUBSET (Nat \ {0})]
      OBVIOUS
    <2> HIDE DEF TypeOK, StepInv
    <2>2. posted \subseteq posted' /\ results' = results
      BY <1>4, <2>1 DEF CreateNotificationFails, ListedAfterFailure
    <2>3. /\ next' = [next EXCEPT ![c] = next[c] + 1]
          /\ broken' = [broken EXCEPT ![c] = broken[c] \union {next[c]}]
      BY <1>4 DEF CreateNotificationFails, AfterFailure
    <2>4. ASSUME NEW d \in Call, NEW i \in Nat \ {0}, i < next'[d]
          PROVE  i \in results'[d] \/ i \in broken'[d]
      <3>1. CASE d = c
        BY <2>1, <2>2, <2>3, <2>4, <3>1
      <3>2. CASE d # c
        BY <2>1, <2>2, <2>3, <2>4, <3>2
      <3> QED BY <3>1, <3>2
    <2> QED BY <2>2, <2>4
  <1>5. ASSUME NEW c \in Call, SaveIdempotencyResult(c) PROVE LoopInv'
    BY <1>5 DEF SaveIdempotencyResult, LoopEnded, Stored, Response, Finish
  <1>6. ASSUME NEW c \in Call, AnswerUnstored(c) PROVE LoopInv'
    BY <1>6 DEF AnswerUnstored, LoopEnded, Response, Finish
  <1>7. ASSUME NEW c \in Call, ClientLeaves(c) PROVE LoopInv'
    BY <1>7 DEF ClientLeaves
  <1>8. ASSUME NEW p \in Pod, Crash(p) PROVE LoopInv'
    BY <1>8 DEF Crash, Running, Open
  <1>9. CASE Tick
    BY <1>9 DEF Tick
  <1>10. CASE UNCHANGED vars
    BY <1>10 DEF vars
  <1> QED BY <1>1, <1>2, <1>3, <1>4, <1>5, <1>6, <1>7, <1>8, <1>9, <1>10 DEF Next, CreateNotifications

LEMMA PostKept ==
  ASSUME TypeOK, StepInv, PostInv, [Next]_vars
  PROVE  PostInv'
  <1> USE CallAssumption, TimeAssumption DEF TypeOK, Notification, StepInv, PostInv, store, history
  <1>1. ASSUME NEW c \in Call, AnswerFromCache(c) PROVE PostInv'
    BY <1>1 DEF AnswerFromCache, LookUp, Finish
  <1>2. ASSUME NEW c \in Call, NothingCached(c) PROVE PostInv'
    BY <1>2 DEF NothingCached, LookUp, Finish
  <1>3. ASSUME NEW c \in Call, CreateNotification(c) PROVE PostInv'
    BY <1>3 DEF CreateNotification, Current
  <1>4. ASSUME NEW c \in Call, CreateNotificationFails(c) PROVE PostInv'
    BY <1>4 DEF CreateNotificationFails, Current, ListedAfterFailure, AfterFailure
  <1>5. ASSUME NEW c \in Call, SaveIdempotencyResult(c) PROVE PostInv'
    BY <1>5 DEF SaveIdempotencyResult, LoopEnded, Stored, Response, Finish
  <1>6. ASSUME NEW c \in Call, AnswerUnstored(c) PROVE PostInv'
    BY <1>6 DEF AnswerUnstored, LoopEnded, Response, Finish
  <1>7. ASSUME NEW c \in Call, ClientLeaves(c) PROVE PostInv'
    BY <1>7 DEF ClientLeaves
  <1>8. ASSUME NEW p \in Pod, Crash(p) PROVE PostInv'
    BY <1>8 DEF Crash, Running, Open
  <1>9. CASE Tick
    BY <1>9 DEF Tick
  <1>10. CASE UNCHANGED vars
    BY <1>10 DEF vars
  <1> QED BY <1>1, <1>2, <1>3, <1>4, <1>5, <1>6, <1>7, <1>8, <1>9, <1>10 DEF Next, CreateNotifications

(* A response, once given, stays. *)
LEMMA OwnKept ==
  ASSUME TypeOK, StepInv, [Next]_vars, NEW d \in Call, OwnAnswer(d)
  PROVE  OwnAnswer(d)' /\ answer'[d].ids = answer[d].ids /\ stored'[d] = stored[d]
  <1> USE DEF TypeOK, StepInv, store, history
  <1>1. step[d] = "answered"
    BY DEF OwnAnswer
  <1>2. /\ answer'[d] = answer[d] /\ results'[d] = results[d]
        /\ next'[d] = next[d] /\ stored'[d] = stored[d]
    <2> DEFINE Kept == /\ answer'[d] = answer[d] /\ results'[d] = results[d]
                 /\ next'[d] = next[d] /\ stored'[d] = stored[d]
    <2>1. ASSUME NEW e \in Call, AnswerFromCache(e) PROVE Kept
      BY <1>1, <2>1 DEF AnswerFromCache, LookUp
    <2>2. ASSUME NEW e \in Call, NothingCached(e) PROVE Kept
      BY <1>1, <2>2 DEF NothingCached, LookUp
    <2>3. ASSUME NEW e \in Call, CreateNotification(e) PROVE Kept
      BY <1>1, <2>3 DEF CreateNotification
    <2>4. ASSUME NEW e \in Call, CreateNotificationFails(e) PROVE Kept
      BY <1>1, <2>4 DEF CreateNotificationFails
    <2>5. ASSUME NEW e \in Call, SaveIdempotencyResult(e) PROVE Kept
      BY <1>1, <2>5 DEF SaveIdempotencyResult, LoopEnded
    <2>6. ASSUME NEW e \in Call, AnswerUnstored(e) PROVE Kept
      BY <1>1, <2>6 DEF AnswerUnstored, LoopEnded
    <2>7. ASSUME NEW e \in Call, ClientLeaves(e) PROVE Kept
      BY <1>1, <2>7 DEF ClientLeaves
    <2>8. ASSUME NEW p \in Pod, Crash(p) PROVE Kept
      BY <1>1, <2>8 DEF Crash
    <2>9. CASE Tick \/ UNCHANGED vars
      BY <1>1, <2>9 DEF Tick, vars
    <2> QED BY <2>1, <2>2, <2>3, <2>4, <2>5, <2>6, <2>7, <2>8, <2>9 DEF Next, CreateNotifications
  <1> QED BY <1>2 DEF OwnAnswer, Listed

(* A new response is the call's own, or the cached one. *)
LEMMA NewAnswer ==
  ASSUME TypeOK, StepInv, [Next]_vars, NEW c \in Call, answer'[c] # answer[c]
  PROVE  \/ OwnAnswer(c)'
         \/ Keyed(c) /\ answer'[c] = cache[KeyOf[c]] /\ cache[KeyOf[c]].by # {}
  <1> USE CallAssumption DEF TypeOK, StepInv, store, history
  <1> DEFINE New == \/ OwnAnswer(c)'
                    \/ Keyed(c) /\ answer'[c] = cache[KeyOf[c]] /\ cache[KeyOf[c]].by # {}
  <1>1. ASSUME NEW e \in Call, AnswerFromCache(e) PROVE New
    BY <1>1 DEF AnswerFromCache, Hit
  <1>2. ASSUME NEW e \in Call, NothingCached(e) PROVE New
    BY <1>2 DEF NothingCached, LookUp
  <1>3. ASSUME NEW e \in Call, CreateNotification(e) PROVE New
    BY <1>3 DEF CreateNotification
  <1>4. ASSUME NEW e \in Call, CreateNotificationFails(e) PROVE New
    BY <1>4 DEF CreateNotificationFails
  <1>5. ASSUME NEW e \in Call, SaveIdempotencyResult(e) PROVE New
    BY <1>5 DEF SaveIdempotencyResult, LoopEnded, Response, OwnAnswer, Listed
  <1>6. ASSUME NEW e \in Call, AnswerUnstored(e) PROVE New
    BY <1>6 DEF AnswerUnstored, LoopEnded, Response, OwnAnswer, Listed
  <1>7. ASSUME NEW e \in Call, ClientLeaves(e) PROVE New
    BY <1>7 DEF ClientLeaves
  <1>8. ASSUME NEW p \in Pod, Crash(p) PROVE New
    BY <1>8 DEF Crash
  <1>9. CASE Tick \/ UNCHANGED vars
    BY <1>9 DEF Tick, vars
  <1> QED BY <1>1, <1>2, <1>3, <1>4, <1>5, <1>6, <1>7, <1>8, <1>9 DEF Next, CreateNotifications

LEMMA AnswerKept ==
  ASSUME TypeOK, StepInv, AnswerInv, CacheInv, [Next]_vars
  PROVE  AnswerInv'
  <1> SUFFICES ASSUME NEW c \in Call
               PROVE  \/ answer'[c].by = {} /\ answer'[c].ids = {}
                      \/ \E d \in Call : /\ answer'[c].by = {d}
                                         /\ answer'[c].ids = answer'[d].ids
                                         /\ OwnAnswer(d)'
    BY DEF AnswerInv
  <1>1. CASE answer'[c] = answer[c]
    BY <1>1, OwnKept DEF AnswerInv
  <1>2. CASE OwnAnswer(c)'
    BY <1>2 DEF OwnAnswer
  <1>3. CASE Keyed(c) /\ answer'[c] = cache[KeyOf[c]] /\ cache[KeyOf[c]].by # {}
    <2>1. PICK d \in Call : /\ cache[KeyOf[c]].by = {d}
                            /\ cache[KeyOf[c]].ids = answer[d].ids
                            /\ OwnAnswer(d)
      BY <1>3, CallAssumption DEF CacheInv, Keyed
    <2> QED BY <1>3, <2>1, OwnKept
  <1> QED BY <1>1, <1>2, <1>3, NewAnswer

LEMMA CacheKept ==
  ASSUME TypeOK, StepInv, CacheInv, [Next]_vars
  PROVE  CacheInv'
  <1> SUFFICES ASSUME NEW k \in Key
               PROVE  \/ cache'[k].by = {} /\ cache'[k].ids = {}
                      \/ \E d \in Call : /\ cache'[k].by = {d}
                                         /\ cache'[k].ids = answer'[d].ids
                                         /\ cache'[k].at = stored'[d] /\ stored'[d] # 0
                                         /\ OwnAnswer(d)' /\ KeyOf[d] = k
    BY DEF CacheInv
  <1>1. CASE cache'[k] = cache[k]
    BY <1>1, OwnKept DEF CacheInv
  <1>2. ASSUME NEW c \in Call, SaveIdempotencyResult(c)
        PROVE  \/ cache'[k] = cache[k]
               \/ \E d \in Call : /\ cache'[k].by = {d}
                                  /\ cache'[k].ids = answer'[d].ids
                                  /\ cache'[k].at = stored'[d] /\ stored'[d] # 0
                                  /\ OwnAnswer(d)' /\ KeyOf[d] = k
    <2> USE CallAssumption, TimeAssumption DEF TypeOK, StepInv, store, history
    <2>1. /\ answer' = [answer EXCEPT ![c] = Response(c)]
          /\ cache' = [cache EXCEPT ![KeyOf[c]] = Response(c)]
          /\ stored' = [stored EXCEPT ![c] = now]
          /\ results' = results /\ next' = next /\ next[c] > Targets[c]
      BY <1>2 DEF SaveIdempotencyResult, Stored, LoopEnded
    <2>2. Keyed(c) /\ KeyOf[c] \in Key
      BY <1>2 DEF SaveIdempotencyResult, Keyed
    <2>3. OwnAnswer(c)'
      BY <2>1 DEF OwnAnswer, Listed, Response
    <2>4. now # 0
      OBVIOUS
    <2>5. CASE k = KeyOf[c]
      BY <2>1, <2>2, <2>3, <2>4, <2>5 DEF Response
    <2>6. CASE k # KeyOf[c]
      BY <2>1, <2>2, <2>6
    <2> QED BY <2>5, <2>6
  <1>3. cache'[k] = cache[k] \/ \E c \in Call : SaveIdempotencyResult(c)
    BY DEF Next, CreateNotifications, AnswerFromCache, NothingCached, LookUp, CreateNotification,
           CreateNotificationFails, AnswerUnstored, ClientLeaves, Crash, Tick, vars, store
  <1> QED BY <1>1, <1>2, <1>3

LEMMA LatestKept ==
  ASSUME TypeOK, StepInv, CacheInv, LatestInv, [Next]_vars
  PROVE  LatestInv'
  <1> USE CallAssumption, TimeAssumption DEF TypeOK, Result, StepInv, CacheInv, LatestInv, Keyed, store, history
  <1>1. ASSUME NEW c \in Call, AnswerFromCache(c) PROVE LatestInv'
    BY <1>1 DEF AnswerFromCache, LookUp, Finish
  <1>2. ASSUME NEW c \in Call, NothingCached(c) PROVE LatestInv'
    BY <1>2 DEF NothingCached, LookUp, Finish
  <1>3. ASSUME NEW c \in Call, CreateNotification(c) PROVE LatestInv'
    BY <1>3 DEF CreateNotification, Current
  <1>4. ASSUME NEW c \in Call, CreateNotificationFails(c) PROVE LatestInv'
    BY <1>4 DEF CreateNotificationFails, Current, ListedAfterFailure, AfterFailure
  <1>5. ASSUME NEW c \in Call, SaveIdempotencyResult(c) PROVE LatestInv'
    <2>1. /\ cache' = [cache EXCEPT ![KeyOf[c]] = Response(c)]
          /\ stored' = [stored EXCEPT ![c] = now]
          /\ Keyed(c) /\ KeyOf[c] \in Key
      BY <1>5 DEF SaveIdempotencyResult, Stored
    <2>2. Response(c).by = {c} /\ Response(c).at = now
      BY DEF Response
    <2>3. ASSUME NEW d \in Call, stored'[d] # 0
          PROVE  cache'[KeyOf[d]].by # {} /\ stored'[d] <= cache'[KeyOf[d]].at
      <3>1. CASE KeyOf[d] = KeyOf[c]
        <4>1. cache'[KeyOf[d]] = Response(c)
          BY <2>1, <3>1
        <4>2. stored'[d] <= now
          BY <2>1
        <4> QED BY <2>2, <4>1, <4>2
      <3>2. CASE KeyOf[d] # KeyOf[c]
        BY <2>1, <2>3, <3>2
      <3> QED BY <3>1, <3>2
    <2> QED BY <2>3
  <1>6. ASSUME NEW c \in Call, AnswerUnstored(c) PROVE LatestInv'
    BY <1>6 DEF AnswerUnstored, LoopEnded, Response, Finish
  <1>7. ASSUME NEW c \in Call, ClientLeaves(c) PROVE LatestInv'
    BY <1>7 DEF ClientLeaves
  <1>8. ASSUME NEW p \in Pod, Crash(p) PROVE LatestInv'
    BY <1>8 DEF Crash, Running, Open
  <1>9. CASE Tick
    BY <1>9 DEF Tick
  <1>10. CASE UNCHANGED vars
    BY <1>10 DEF vars
  <1> QED BY <1>1, <1>2, <1>3, <1>4, <1>5, <1>6, <1>7, <1>8, <1>9, <1>10 DEF Next, CreateNotifications

LEMMA CoverKept ==
  ASSUME TypeOK, StepInv, LatestInv, CoverInv, [Next]_vars
  PROVE  CoverInv'
  <1> USE CallAssumption, TimeAssumption DEF TypeOK, StepInv, LatestInv, CoverInv, Keyed, Hit, store, history
  <1>1. ASSUME NEW c \in Call, AnswerFromCache(c) PROVE CoverInv'
    BY <1>1 DEF AnswerFromCache, LookUp, Finish
  <1>2. ASSUME NEW c \in Call, NothingCached(c) PROVE CoverInv'
    <2>1. /\ covered' = [covered EXCEPT ![c] =
               {d \in Call : /\ Keyed(c) /\ KeyOf[d] = KeyOf[c]
                             /\ stored[d] # 0 /\ now < stored[d] + ResultTTL}]
      BY <1>2 DEF NothingCached, LookUp
    <2>2. ASSUME covered'[c] # {} PROVE Hit(KeyOf[c])
      <3>1. PICK d \in Call : /\ Keyed(c) /\ KeyOf[d] = KeyOf[c]
                              /\ stored[d] # 0 /\ now < stored[d] + ResultTTL
        BY <2>1, <2>2
      <3>2. KeyOf[c] \in Key /\ cache[KeyOf[c]] \in Result
        BY <3>1
      <3>3. cache[KeyOf[c]].at \in Nat
        BY <3>2 DEF Result
      <3> QED BY <3>1, <3>3
    <2>3. covered'[c] # {} => c \in blind'
      BY <1>2, <2>1, <2>2 DEF NothingCached
    <2>4. \A d \in Call \ {c} : /\ covered'[d] = covered[d] /\ step'[d] = step[d]
                                /\ d \in blind => d \in blind'
      BY <1>2, <2>1 DEF NothingCached, Finish
    <2> QED BY <2>3, <2>4
  <1>3. ASSUME NEW c \in Call, CreateNotification(c) PROVE CoverInv'
    BY <1>3 DEF CreateNotification, Current
  <1>4. ASSUME NEW c \in Call, CreateNotificationFails(c) PROVE CoverInv'
    BY <1>4 DEF CreateNotificationFails, Current, ListedAfterFailure, AfterFailure
  <1>5. ASSUME NEW c \in Call, SaveIdempotencyResult(c) PROVE CoverInv'
    BY <1>5 DEF SaveIdempotencyResult, LoopEnded, Stored, Response, Finish
  <1>6. ASSUME NEW c \in Call, AnswerUnstored(c) PROVE CoverInv'
    BY <1>6 DEF AnswerUnstored, LoopEnded, Response, Finish
  <1>7. ASSUME NEW c \in Call, ClientLeaves(c) PROVE CoverInv'
    BY <1>7 DEF ClientLeaves
  <1>8. ASSUME NEW p \in Pod, Crash(p) PROVE CoverInv'
    BY <1>8 DEF Crash, Running, Open
  <1>9. CASE Tick
    BY <1>9 DEF Tick
  <1>10. CASE UNCHANGED vars
    BY <1>10 DEF vars
  <1> QED BY <1>1, <1>2, <1>3, <1>4, <1>5, <1>6, <1>7, <1>8, <1>9, <1>10 DEF Next, CreateNotifications

LEMMA RetryKept ==
  ASSUME TypeOK, StepInv, PostInv, LatestInv, CoverInv, RetryCreatesNothing, [Next]_vars
  PROVE  RetryCreatesNothing'
  <1> USE CallAssumption, TimeAssumption DEF TypeOK, Notification, StepInv, PostInv, CoverInv, RetryCreatesNothing, store, history
  <1>1. ASSUME NEW c \in Call, AnswerFromCache(c) PROVE RetryCreatesNothing'
    BY <1>1 DEF AnswerFromCache, LookUp, Finish
  <1>2. ASSUME NEW c \in Call, NothingCached(c) PROVE RetryCreatesNothing'
    BY <1>2 DEF NothingCached, LookUp, Finish
  <1>3. ASSUME NEW c \in Call, CreateNotification(c) PROVE RetryCreatesNothing'
    BY <1>3 DEF CreateNotification, Current
  <1>4. ASSUME NEW c \in Call, CreateNotificationFails(c) PROVE RetryCreatesNothing'
    <2>1. /\ covered' = covered /\ blind' = blind /\ step[c] = "creating"
          /\ posted' \subseteq posted \union {Current(c)}
      BY <1>4 DEF CreateNotificationFails
    <2>2. Current(c).call = c
      BY DEF Current
    <2> QED BY <2>1, <2>2
  <1>5. ASSUME NEW c \in Call, SaveIdempotencyResult(c) PROVE RetryCreatesNothing'
    BY <1>5 DEF SaveIdempotencyResult, LoopEnded, Stored, Response, Finish
  <1>6. ASSUME NEW c \in Call, AnswerUnstored(c) PROVE RetryCreatesNothing'
    BY <1>6 DEF AnswerUnstored, LoopEnded, Response, Finish
  <1>7. ASSUME NEW c \in Call, ClientLeaves(c) PROVE RetryCreatesNothing'
    BY <1>7 DEF ClientLeaves
  <1>8. ASSUME NEW p \in Pod, Crash(p) PROVE RetryCreatesNothing'
    BY <1>8 DEF Crash, Running, Open
  <1>9. CASE Tick
    BY <1>9 DEF Tick
  <1>10. CASE UNCHANGED vars
    BY <1>10 DEF vars
  <1> QED BY <1>1, <1>2, <1>3, <1>4, <1>5, <1>6, <1>7, <1>8, <1>9, <1>10 DEF Next, CreateNotifications
-----------------------------------------------------------------------------
LEMMA InitInv ==
  ASSUME Init
  PROVE  IInv
  <1> USE CallAssumption, TimeAssumption DEF Init, NoResult
  <1>1. TypeOK
    BY DEF TypeOK, Result, Steps
  <1>2. StepInv /\ LoopInv /\ PostInv /\ AnswerInv /\ CacheInv /\ LatestInv
    BY DEF StepInv, LoopInv, PostInv, AnswerInv, CacheInv, LatestInv
  <1>3. CoverInv /\ RetryCreatesNothing
    BY DEF CoverInv, RetryCreatesNothing
  <1> QED BY <1>1, <1>2, <1>3 DEF IInv

LEMMA InvKept ==
  ASSUME IInv, [Next]_vars
  PROVE  IInv'
  BY TypeCorrect, StepKept, LoopKept, PostKept, AnswerKept, CacheKept, LatestKept,
     CoverKept, RetryKept DEF IInv

(* The inductive invariant. *)
THEOREM Invariance == Spec => []IInv
  BY InitInv, InvKept, PTL DEF Spec

(* The variables keep their types. *)
THEOREM RequestsTypes == Spec => []TypeOK
  <1>1. IInv => TypeOK
    BY DEF IInv
  <1> QED BY <1>1, Invariance, PTL

(* A retry within ten minutes of a stored result creates nothing. *)
THEOREM RetriesCreateNothing == Spec => []RetryCreatesNothing
  <1>1. IInv => RetryCreatesNothing
    BY DEF IInv
  <1> QED BY <1>1, Invariance, PTL

(* Whether it is its own or a repeated one, a response names notifications *)
(* that exist.                                                             *)
THEOREM AnswersNamePosted == Spec => []AnswerNamesPosted
  <1>1. ASSUME IInv PROVE AnswerNamesPosted
    <2> SUFFICES ASSUME NEW c \in Call, NEW n \in answer[c].ids
                 PROVE  n \in posted
      BY DEF AnswerNamesPosted
    <2>1. PICK d \in Call : n \in answer[d].ids /\ OwnAnswer(d)
      BY <1>1 DEF IInv, AnswerInv
    <2>2. PICK i \in results[d] : n = [call |-> d, target |-> i]
      BY <2>1 DEF OwnAnswer, Listed
    <2> QED BY <1>1, <2>2 DEF IInv, LoopInv
  <1> QED BY <1>1, Invariance, PTL

(* The failure of one target does not keep the call from the others. *)
THEOREM EveryTargetIsTried == Spec => []EveryTargetTried
  <1>1. ASSUME IInv PROVE EveryTargetTried
    <2> SUFFICES ASSUME NEW c \in Call, answer[c].by = {c}, NEW i \in 1..Targets[c]
                 PROVE  \/ [call |-> c, target |-> i] \in answer[c].ids
                        \/ i \in broken[c]
      BY DEF EveryTargetTried
    <2>1. PICK d \in Call : answer[c].by = {d} /\ OwnAnswer(d)
      BY <1>1 DEF IInv, AnswerInv
    <2>2. d = c
      BY <2>1
    <2>3. i < next[c] /\ i \in Nat \ {0}
      BY <1>1, <2>1, <2>2, CallAssumption DEF IInv, TypeOK, OwnAnswer
    <2>4. i \in results[c] \/ i \in broken[c]
      BY <1>1, <2>3 DEF IInv, LoopInv
    <2> QED BY <2>1, <2>2, <2>4 DEF OwnAnswer, Listed
  <1> QED BY <1>1, Invariance, PTL

(* A repeated response is the one that was first given. *)
THEOREM ReplaysAreVerbatim == Spec => []ReplayIsOneAnswer
  <1>1. ASSUME IInv PROVE ReplayIsOneAnswer
    <2> SUFFICES ASSUME NEW c \in Call, NEW d \in Call, answer[d].by = {c}
                 PROVE  answer[d].ids = answer[c].ids
      BY DEF ReplayIsOneAnswer
    <2>1. PICK e \in Call : answer[d].by = {e} /\ answer[d].ids = answer[e].ids
      BY <1>1 DEF IInv, AnswerInv
    <2> QED BY <2>1
  <1> QED BY <1>1, Invariance, PTL
-----------------------------------------------------------------------------
(* The refinement of NotifyService. *)

Reply == [c \in Call |-> [by |-> answer[c].by, ids |-> answer[c].ids]]

(* A call that is not answered has no answer yet; one that has not started *)
(* has created nothing.                                                    *)
LEMMA Unanswered ==
  ASSUME IInv, NEW c \in Call, step[c] # "answered"
  PROVE  Reply[c] = Service!None
  <1>1. answer[c].by = {}
    BY DEF IInv, StepInv
  <1>2. answer[c].ids = {}
    BY <1>1 DEF IInv, AnswerInv
  <1> QED BY <1>1, <1>2 DEF Reply, Service!None

LEMMA NewAnswerMaps ==
  ASSUME TypeOK, NEW c \in Call, NEW r \in Result, answer' = [answer EXCEPT ![c] = r]
  PROVE  Reply' = [Reply EXCEPT ![c] = [by |-> r.by, ids |-> r.ids]]
  BY DEF Reply, TypeOK

(* An answer that a call gives for itself. *)
LEMMA OwnAnswerMaps ==
  ASSUME IInv, NEW c \in Call, LoopEnded(c), posted' = posted,
         answer' = [answer EXCEPT ![c] = Response(c)]
  PROVE  Service!Answer(c)
  <1>1. Reply[c] = Service!None
    BY Unanswered DEF LoopEnded
  <1>2. Response(c) \in Result /\ Response(c).by = {c} /\ Response(c).ids = Listed(c)
    BY DEF Response, Result, Notification, Listed, IInv, TypeOK
  <1>3. Listed(c) \subseteq Service!CreatedBy(c)
    BY DEF Listed, IInv, LoopInv, Service!CreatedBy
  <1>4. Reply' = [Reply EXCEPT ![c] = [by |-> {c}, ids |-> Listed(c)]]
    BY <1>2, NewAnswerMaps DEF IInv
  <1> QED BY <1>1, <1>3, <1>4 DEF Service!Answer, Reply

LEMMA PostMaps ==
  ASSUME IInv, NEW c \in Call, step[c] = "creating", answer' = answer,
         posted' = posted \union {Current(c)}
  PROVE  Service!Create(c)
  <1>1. Reply[c] = Service!None /\ Reply' = Reply
    BY Unanswered DEF Reply
  <1>2. Current(c).call = c
    BY DEF Current
  <1> QED BY <1>1, <1>2 DEF Service!Create, Reply

LEMMA CachedMaps ==
  ASSUME IInv, NEW c \in Call, AnswerFromCache(c)
  PROVE  \E d \in Call : Service!Repeat(c, d)
  <1>1. /\ step[c] = "new" /\ Keyed(c) /\ KeyOf[c] \in Key /\ cache[KeyOf[c]].by # {}
        /\ answer' = [answer EXCEPT ![c] = cache[KeyOf[c]]] /\ posted' = posted
    BY CallAssumption DEF AnswerFromCache, LookUp, store, Hit, Keyed
  <1>2. PICK d \in Call : /\ cache[KeyOf[c]].by = {d} /\ cache[KeyOf[c]].ids = answer[d].ids
                          /\ OwnAnswer(d) /\ KeyOf[d] = KeyOf[c]
    BY <1>1 DEF IInv, CacheInv
  <1>3. Reply[c] = Service!None
    BY <1>1, Unanswered
  <1>4. Service!CreatedBy(c) = {}
    BY <1>1 DEF IInv, PostInv, Service!CreatedBy
  <1>5. Reply[d] = [by |-> {d}, ids |-> answer[d].ids]
    BY <1>2 DEF OwnAnswer, Reply
  <1>6. cache[KeyOf[c]] \in Result
    BY <1>1 DEF IInv, TypeOK
  <1>7. Reply' = [Reply EXCEPT ![c] = Reply[d]]
    <2> DEFINE r == cache[KeyOf[c]]
    <2>1. r \in Result /\ answer' = [answer EXCEPT ![c] = r]
      BY <1>1, <1>6
    <2>2. Reply[d] = [by |-> r.by, ids |-> r.ids]
      BY <1>2, <1>5
    <2>3. TypeOK
      BY DEF IInv
    <2> HIDE DEF r
    <2> QED BY <2>1, <2>2, <2>3, NewAnswerMaps
  <1> QED BY <1>1, <1>2, <1>3, <1>4, <1>5, <1>7 DEF Service!Repeat, Keyed, Reply

LEMMA ServiceStep ==
  ASSUME IInv, [Next]_vars
  PROVE  [Service!Next]_(Service!serviceVars)
  <1> DEFINE Stutter == UNCHANGED Service!serviceVars
  <1> USE DEF store, history
  <1>1. ASSUME UNCHANGED <<posted, answer>> PROVE Stutter
    BY <1>1 DEF Service!serviceVars
  <1>2. ASSUME NEW c \in Call, CreateNotifications(c) PROVE Service!Next \/ Stutter
    <2>1. CASE AnswerFromCache(c)
      BY <2>1, CachedMaps DEF Service!Next
    <2>2. CASE NothingCached(c)
      BY <1>1, <2>2 DEF NothingCached, LookUp
    <2>3. CASE CreateNotification(c)
      BY <2>3, PostMaps DEF CreateNotification, Service!Next
    <2>4. CASE CreateNotificationFails(c)
      BY <1>1, <2>4, PostMaps DEF CreateNotificationFails, Service!Next
    <2>5. CASE SaveIdempotencyResult(c)
      BY <2>5, OwnAnswerMaps DEF SaveIdempotencyResult, Service!Next
    <2>6. CASE AnswerUnstored(c)
      BY <2>6, OwnAnswerMaps DEF AnswerUnstored, Service!Next
    <2> QED BY <1>2, <2>1, <2>2, <2>3, <2>4, <2>5, <2>6 DEF CreateNotifications
  <1>3. ASSUME NEW c \in Call, ClientLeaves(c) PROVE Stutter
    BY <1>1, <1>3 DEF ClientLeaves
  <1>4. ASSUME NEW p \in Pod, Crash(p) PROVE Stutter
    BY <1>1, <1>4 DEF Crash
  <1>5. CASE Tick \/ UNCHANGED vars
    BY <1>1, <1>5 DEF Tick, vars
  <1> QED BY <1>2, <1>3, <1>4, <1>5 DEF Next

(* The service keeps its promise to the callers on any number of pods,     *)
(* whatever fails, and however many calls carry one key.                   *)
THEOREM RequestsServe == Spec => NotifyRefined
  <1>1. Init => Service!Init
    BY DEF Init, NoResult, Service!Init, Service!None
  <1>2. IInv /\ [Next]_vars => [Service!Next]_(Service!serviceVars)
    BY ServiceStep
  <1> QED BY <1>1, <1>2, Invariance, PTL DEF Spec, NotifyRefined, Service!Spec
-----------------------------------------------------------------------------
(* The refinement of CreateContract. *)

OutcomeOf == [n \in AllTargets |->
                IF n.target \in results[n.call] THEN "returned"
                ELSE IF n.target \in broken[n.call] THEN "failed" ELSE "open"]

(* The loop has no result for a target whose turn is still to come. *)
AheadInv == \A c \in Call : \A i \in results[c] \union broken[c] : i < next[c]

LEMMA CurrentIsTarget ==
  ASSUME TypeOK, NEW c \in Call, next[c] <= Targets[c]
  PROVE  Current(c) \in AllTargets
  <1>1. next[c] \in 1..Targets[c]
    BY CallAssumption DEF TypeOK
  <1> QED BY <1>1 DEF Current, AllTargets

LEMMA TargetFields ==
  ASSUME NEW n \in AllTargets
  PROVE  n.call \in Call /\ n = [call |-> n.call, target |-> n.target]
  BY DEF AllTargets

LEMMA AheadNext ==
  ASSUME TypeOK, AheadInv, [Next]_vars
  PROVE  AheadInv'
  <1> USE DEF TypeOK, AheadInv
  <1>1. ASSUME UNCHANGED <<next, results, broken>> PROVE AheadInv'
    BY <1>1
  <1>2. ASSUME NEW c \in Call, CreateNotification(c) PROVE AheadInv'
    <2>1. /\ next' = [next EXCEPT ![c] = @ + 1] /\ broken' = broken
          /\ results' = [results EXCEPT ![c] = @ \union {next[c]}]
      BY <1>2 DEF CreateNotification, history
    <2> QED BY <2>1
  <1>3. ASSUME NEW c \in Call, CreateNotificationFails(c) PROVE AheadInv'
    <2>1. /\ next' = [next EXCEPT ![c] = @ + 1] /\ results' = results
          /\ broken' = [broken EXCEPT ![c] = @ \union {next[c]}]
      BY <1>3 DEF CreateNotificationFails, AfterFailure, ListedAfterFailure
    <2> QED BY <2>1
  <1>4. ASSUME NEW c \in Call, \/ AnswerFromCache(c) \/ NothingCached(c) \/ ClientLeaves(c)
                               \/ SaveIdempotencyResult(c) \/ AnswerUnstored(c)
        PROVE AheadInv'
    BY <1>1, <1>4 DEF AnswerFromCache, NothingCached, LookUp, SaveIdempotencyResult,
       AnswerUnstored, ClientLeaves, history
  <1>5. ASSUME NEW p \in Pod, Crash(p) PROVE AheadInv'
    BY <1>1, <1>5 DEF Crash, history
  <1>6. CASE Tick \/ UNCHANGED vars
    BY <1>1, <1>6 DEF Tick, vars, history
  <1> QED BY <1>2, <1>3, <1>4, <1>5, <1>6 DEF Next, CreateNotifications

(* The turn of a target settles its outcome, and no other. *)
LEMMA TurnMaps ==
  ASSUME TypeOK, AheadInv, NEW c \in Call, next[c] <= Targets[c]
  PROVE  /\ OutcomeOf[Current(c)] = "open"
         /\ /\ results' = [results EXCEPT ![c] = @ \union {next[c]}]
            /\ broken' = broken
            => OutcomeOf' = [OutcomeOf EXCEPT ![Current(c)] = "returned"]
         /\ /\ results' = results
            /\ broken' = [broken EXCEPT ![c] = @ \union {next[c]}]
            => OutcomeOf' = [OutcomeOf EXCEPT ![Current(c)] = "failed"]
  <1> DEFINE t == Current(c)
  <1>1. t \in AllTargets /\ t.call = c /\ t.target = next[c]
    BY CurrentIsTarget DEF Current
  <1>2. next[c] \notin results[c] /\ next[c] \notin broken[c]
    BY DEF AheadInv, TypeOK
  <1>3. \A n \in AllTargets : n.call \in Call /\ (n.call = c /\ n.target = next[c] => n = t)
    BY TargetFields DEF Current
  <1> HIDE DEF t
  <1>4. OutcomeOf[t] = "open"
    BY <1>1, <1>2 DEF OutcomeOf
  <1>5. ASSUME results' = [results EXCEPT ![c] = @ \union {next[c]}], broken' = broken
        PROVE  OutcomeOf' = [OutcomeOf EXCEPT ![t] = "returned"]
    BY <1>1, <1>3, <1>5 DEF OutcomeOf, TypeOK
  <1>6. ASSUME results' = results, broken' = [broken EXCEPT ![c] = @ \union {next[c]}]
        PROVE  OutcomeOf' = [OutcomeOf EXCEPT ![t] = "failed"]
    BY <1>1, <1>2, <1>3, <1>6 DEF OutcomeOf, TypeOK
  <1> QED BY <1>4, <1>5, <1>6 DEF t

LEMMA ContractStep ==
  ASSUME TypeOK, AheadInv, [Next]_vars
  PROVE  [Contract!Next]_(Contract!contractVars)
  <1> DEFINE Stutter == UNCHANGED Contract!contractVars
  <1>1. ASSUME UNCHANGED <<posted, results, broken>> PROVE Stutter
    BY <1>1 DEF Contract!contractVars
  <1>2. ASSUME NEW c \in Call, CreateNotification(c) PROVE Contract!Next
    <2>1. /\ next[c] <= Targets[c] /\ broken' = broken
          /\ results' = [results EXCEPT ![c] = @ \union {next[c]}]
          /\ posted' = posted \union {Current(c)}
      BY <1>2 DEF CreateNotification, history
    <2>2. PICK t \in AllTargets : t = Current(c)
      BY <2>1, CurrentIsTarget
    <2>3. /\ OutcomeOf[t] = "open"
          /\ OutcomeOf' = [OutcomeOf EXCEPT ![t] = "returned"]
      BY <2>1, <2>2, TurnMaps
    <2>4. posted' = posted \union {t}
      BY <2>1, <2>2
    <2>5. Contract!Return(t)
      BY <2>3, <2>4 DEF Contract!Return, Contract!Becomes, OutcomeOf
    <2> QED BY <2>5 DEF Contract!Next
  <1>3. ASSUME NEW c \in Call, CreateNotificationFails(c) PROVE Contract!Next
    <2>1. /\ next[c] <= Targets[c] /\ results' = results
          /\ broken' = [broken EXCEPT ![c] = @ \union {next[c]}]
          /\ \/ posted' = posted
             \/ posted' = posted \union {Current(c)}
      BY <1>3 DEF CreateNotificationFails, ListedAfterFailure, TypeOK
    <2>2. PICK t \in AllTargets : t = Current(c)
      BY <2>1, CurrentIsTarget
    <2>3. /\ OutcomeOf[t] = "open"
          /\ OutcomeOf' = [OutcomeOf EXCEPT ![t] = "failed"]
      BY <2>1, <2>2, TurnMaps
    <2>4. posted' = posted \/ posted' = posted \union {t}
      BY <2>1, <2>2
    <2>5. Contract!FailCall(t)
      BY <2>3, <2>4 DEF Contract!FailCall, Contract!Becomes, OutcomeOf
    <2> QED BY <2>5 DEF Contract!Next
  <1>4. ASSUME NEW c \in Call, \/ AnswerFromCache(c) \/ NothingCached(c) \/ ClientLeaves(c)
                               \/ SaveIdempotencyResult(c) \/ AnswerUnstored(c)
        PROVE Stutter
    BY <1>1, <1>4 DEF AnswerFromCache, NothingCached, LookUp, SaveIdempotencyResult,
       AnswerUnstored, ClientLeaves, history, store
  <1>5. ASSUME NEW p \in Pod, Crash(p) PROVE Stutter
    BY <1>1, <1>5 DEF Crash, history, store
  <1>6. CASE Tick \/ UNCHANGED vars
    BY <1>1, <1>6 DEF Tick, vars, history, store
  <1> QED BY <1>2, <1>3, <1>4, <1>5, <1>6 DEF Next, CreateNotifications

(* The caller takes a creation for done only when the repository says so,  *)
(* and each creation has one outcome, however the loop's calls fail.       *)
THEOREM RequestsKeepContract == Spec => ContractKept
  <1>1. Init => AheadInv /\ Contract!Init
    BY TargetFields DEF Init, AheadInv, Contract!Init
  <1>2. TypeOK /\ AheadInv /\ [Next]_vars => AheadInv'
    BY AheadNext
  <1>3. TypeOK /\ AheadInv /\ [Next]_vars => [Contract!Next]_(Contract!contractVars)
    BY ContractStep
  <1>4. IInv => TypeOK
    BY DEF IInv
  <1> QED BY <1>1, <1>2, <1>3, <1>4, Invariance, PTL DEF Spec, ContractKept, Contract!Spec
=============================================================================
