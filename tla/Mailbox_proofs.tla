------------------------------ MODULE Mailbox_proofs ------------------------------
(***************************************************************************)
(* The commands on a user's keys implement Mailbox: each step is one step  *)
(* of a mailbox, or leaves the mailbox unchanged.                          *)
(* Those of CreateNotification implement CreateContract in the same way.   *)
(***************************************************************************)
EXTENDS NotificationRepository_proofs

USE DEF NoGroup

(* The empty keys are an empty mailbox. *)
LEMMA InitMail == Init => Mail!Init
  BY DEF Init, Mail!Init

(* A step that leaves the user's keys alone is no step of the mailbox. *)
LEMMA MailStutter ==
  ASSUME UNCHANGED <<now, stream, lastId, group, pel, confirmed>>
  PROVE  UNCHANGED Mail!boxVars
  BY DEF Mail!boxVars

(* XADD posts; nothing else of CreateNotification shows in the mailbox. *)
LEMMA CreationMail ==
  ASSUME IInv, Creation
  PROVE  [Mail!Next]_(Mail!boxVars)
<1> USE DEF IInv
<1>1. PICK n \in Nid : CreateNotification(n) \/ CreateFailure(n)
  BY DEF Creation
<1>2. CASE XAdd(n)
  <2>1. group # NoGroup
    BY <1>2 DEF XAdd, StreamInv
  <2> DEFINE S == stream \union {[id |-> lastId + 1, nid |-> n, at |-> now]}
  <2>2. Newest(S, MaxLen) = Mail!NewestOf(S)
    BY DEF Newest, Mail!NewestOf, Cardinality, Mail!Cardinality
  <2>3. stream' = Mail!NewestOf(S) /\ lastId' = lastId + 1
    BY <1>2, <2>2 DEF XAdd
  <2>4. UNCHANGED <<now, group, pel, confirmed>>
    BY <1>2, CreationFrame DEF XAdd
  <2>5. Mail!Post(n)
    BY <2>1, <2>3, <2>4 DEF Mail!Post
  <2> QED  BY <2>5 DEF Mail!Next
<1>3. CASE CreateGroup(n)
  <2>1. group' = group \/ (group = NoGroup /\ group' = lastId)
    BY <1>3 DEF CreateGroup, GroupAfterCreate
  <2>2. UNCHANGED <<now, stream, lastId, pel, confirmed>> /\ lastId # NoGroup
    BY <1>3 DEF CreateGroup, TypeOK
  <2> QED  BY <2>1, <2>2 DEF Mail!boxVars
<1>4. CASE SetPayload(n) \/ ScheduleTTL(n) \/ CreateFailure(n)
  BY <1>4, CreationFrame, MailStutter
  DEF SetPayload, ScheduleTTL, CreateFailure, ScheduleFails, CreateAborts, PipelineRetry, keys
<1> QED  BY <1>1, <1>2, <1>3, <1>4 DEF CreateNotification

(* A read shows the oldest messages up to some entry of the stream. *)
LEMMA ReadMail ==
  ASSUME IInv, ReadNewMessages
  PROVE  Mail!Next
<1> USE DEF IInv
<1>1. PICK m \in NewBatch : group' = m.id
  BY DEF ReadNewMessages
<1>2. m \in stream /\ m.id > group /\ m.id \in Nat
  BY <1>1 DEF NewBatch, Undelivered, TypeOK, Entry
<1> DEFINE Shown == {g \in stream : g.id > group /\ g.id <= m.id}
<1>3. NewBatch \subseteq Shown
  BY <1>1 DEF ReadNewMessages, NewBatch, Undelivered
<1>4. Shown \subseteq NewBatch
  BY <1>1, NewBatchIsOldest DEF Undelivered
<1>5. NewBatch = Shown
  BY <1>3, <1>4
<1>6. pel' = pel \union {f.id : f \in Shown}
  BY <1>5 DEF ReadNewMessages
<1>7. group # NoGroup /\ group' # NoGroup
  BY <1>1, <1>2 DEF ReadNewMessages
<1>8. UNCHANGED <<now, stream, lastId, confirmed>>
  BY DEF ReadNewMessages
<1>9. Mail!ShowUpTo(m)
  BY <1>1, <1>2, <1>6, <1>7, <1>8 DEF Mail!ShowUpTo
<1> QED  BY <1>2, <1>9 DEF Mail!Next

(* A session shows messages and confirms them. *)
LEMMA SessionMail ==
  ASSUME IInv, Session
  PROVE  [Mail!Next]_(Mail!boxVars)
<1>1. CASE EnsureConsumerGroup
  <2>1. group = NoGroup /\ group' = lastId /\ lastId # NoGroup
    BY <1>1 DEF EnsureConsumerGroup, IInv, TypeOK
  <2>2. UNCHANGED <<now, stream, lastId, pel, confirmed>>
    BY <1>1 DEF EnsureConsumerGroup
  <2> QED  BY <2>1, <2>2 DEF Mail!boxVars
<1>2. CASE ReadNewMessages
  BY <1>2, ReadMail
<1>3. ASSUME NEW m \in acking, AckXAck(m)  PROVE [Mail!Next]_(Mail!boxVars)
  <2>1. UNCHANGED <<now, stream, lastId, group>>
    BY <1>3 DEF AckXAck
  <2>2. pel' = pel \ {m.id} /\ confirmed' = confirmed \union (pel \intersect {m.id})
    BY <1>3 DEF AckXAck
  <2>3. CASE m.id \in pel
    <3>1. confirmed' = confirmed \union {m.id}
      BY <2>2, <2>3
    <3>2. Mail!Confirm(m.id)
      BY <2>1, <2>2, <3>1 DEF Mail!Confirm
    <3> QED  BY <2>3, <3>2 DEF Mail!Next
  <2>4. CASE m.id \notin pel
    BY <2>1, <2>2, <2>4, MailStutter
  <2> QED  BY <2>3, <2>4
<1>4. CASE UNCHANGED <<group, pel, confirmed>>
  BY <1>4, SessionFrame, MailStutter
<1> QED
  BY <1>1, <1>2, <1>3, <1>4
  DEF Session, AckInFlight, AckMessage, AckMarkRead, AckAborts, SetUserRetentionDays, keys

(* The janitor gives up and removes old messages only. *)
LEMMA CleaningMail ==
  ASSUME IInv, Cleaning
  PROVE  [Mail!Next]_(Mail!boxVars)
<1> USE DEF IInv
<1>1. PICK p \in JanitorPod : CleanupExpiredNotifications(p) \/ JanitorFails(p)
  BY DEF Cleaning
<1>2. UNCHANGED <<now, lastId, group, confirmed>>
  BY CleaningFrame
<1>3. CASE JanitorXAck(p)
  <2>1. PICK z \in janitor[p].todo : pel' = pel \ {z.id}
    BY <1>3 DEF JanitorXAck
  <2>2. z \in janitor[p].batch
    BY <2>1 DEF BatchInv
  <2>3. \A e \in stream : e.id = z.id => Mail!Old(e)
    BY <2>2, SweptIsOld DEF Mail!Old, TypeOK, Entry, Tolerance
  <2>4. Mail!GiveUp
    BY <1>2, <1>3, <2>1, <2>3 DEF JanitorXAck, Mail!GiveUp
  <2> QED  BY <2>4 DEF Mail!Next
<1>4. CASE JanitorXDel(p)
  <2>1. \A e \in stream \ stream' : Mail!Old(e)
    <3> SUFFICES ASSUME NEW e \in stream \ stream'  PROVE Mail!Old(e)
      OBVIOUS
    <3>1. PICK z \in janitor[p].cur : z.id = e.id
      BY <1>4 DEF JanitorXDel
    <3> QED  BY <3>1, SweptIsOld DEF BatchInv, Mail!Old
  <2>2. Mail!Expire
    BY <1>2, <1>4, <2>1 DEF JanitorXDel, Mail!Expire
  <2> QED  BY <2>2 DEF Mail!Next
<1>5. CASE JanitorFetch(p) \/ JanitorDel(p) \/ JanitorZRem(p) \/ JanitorFails(p)
  BY <1>2, <1>5, MailStutter DEF JanitorFetch, JanitorDel, JanitorZRem, JanitorFails, keys
<1> QED  BY <1>1, <1>3, <1>4, <1>5 DEF CleanupExpiredNotifications

(* The trimmer removes old messages only. *)
LEMMA TrimmingMail ==
  ASSUME IInv, Trimming
  PROVE  [Mail!Next]_(Mail!boxVars)
<1>1. PICK p \in TrimmerPod : RetentionTrimmer(p)
  BY DEF Trimming
<1>2. UNCHANGED <<now, lastId, group, pel, confirmed>>
  BY TrimmingFrame
<1>3. CASE TrimmerXTrim(p)
  <2>1. \A e \in stream \ stream' : Mail!Old(e)
    BY <1>3, TrimmedIsOld DEF Mail!Old
  <2>2. stream' \subseteq stream
    BY <1>3 DEF TrimmerXTrim
  <2>3. Mail!Expire
    BY <1>2, <2>1, <2>2 DEF Mail!Expire
  <2> QED  BY <2>3 DEF Mail!Next
<1>4. CASE stream' = stream
  BY <1>2, <1>4, MailStutter
<1> QED
  BY <1>1, <1>3, <1>4 DEF RetentionTrimmer, TrimmerList, TrimmerGetDays, TrimmerFails, keys

(* The maintenance gives up only what has left the stream. *)
LEMMA MaintainingMail ==
  ASSUME Maintaining
  PROVE  [Mail!Next]_(Mail!boxVars)
<1>1. UNCHANGED <<now, stream, lastId, group, confirmed>>
  BY MaintainingFrame
<1>2. PICK p \in MaintainerPod : MaintainerList(p) \/ Reclaim(p)
  BY DEF Maintaining, GroupMaintenance
<1>3. CASE Reclaim(p)
  <2>1. pel' \subseteq pel /\ pel \ pel' \subseteq Ghosts
    BY <1>3 DEF Reclaim
  <2>2. \A i \in pel \ pel' : \A e \in stream : e.id # i
    BY <2>1 DEF Ghosts
  <2>3. Mail!GiveUp
    BY <1>1, <2>1, <2>2 DEF Mail!GiveUp
  <2> QED  BY <2>3 DEF Mail!Next
<1>4. CASE MaintainerList(p)
  BY <1>1, <1>4, MailStutter DEF MaintainerList, keys
<1> QED  BY <1>2, <1>3, <1>4

(* Every step of the repository is a step of the mailbox or none. *)
LEMMA MailStep ==
  ASSUME IInv, [Next]_vars
  PROVE  [Mail!Next]_(Mail!boxVars)
<1>1. CASE Tick
  <2>1. Mail!Pass
    BY <1>1, TickFrame DEF Mail!Pass, keys
  <2> QED  BY <2>1 DEF Mail!Next
<1>2. CASE UNCHANGED vars
  BY <1>2, MailStutter DEF vars, keys
<1> QED
  BY <1>1, <1>2, NextKinds, CreationMail, SessionMail, CleaningMail, TrimmingMail,
     MaintainingMail

(* Whatever interleaves, and wherever a call stops, the keys of a user are *)
(* a mailbox: messages come once and in order, and only age, MAXLEN or the *)
(* user's confirmation ends them.                                          *)
THEOREM RepositoryIsMailbox == Spec => MailboxRefined
<1>1. IInv /\ [Next]_vars => [Mail!Next]_(Mail!boxVars)
  BY MailStep
<1> QED  BY <1>1, InitMail, Invariance, PTL DEF Spec, MailboxRefined, Mail!Spec

-----------------------------------------------------------------------------
(* The refinement of CreateContract. *)

OutcomeOf == [n \in Nid |-> IF create[n] \in {"done", "unscheduled"} THEN "returned"
                            ELSE IF create[n] = "failed" THEN "failed" ELSE "open"]

InStreamOf == {m.nid : m \in sent}

(* A call that has come to its ZADD, or is through, has its XADD behind it. *)
AddedInv == \A n \in Nid : create[n] \in {"added", "done", "unscheduled"} => n \in InStreamOf

(* The XADD of a notification adds it to what was put into a stream. *)
LEMMA XAddPosts ==
  ASSUME NEW n \in Nid, XAdd(n)
  PROVE  InStreamOf' = InStreamOf \union {n}
<1> DEFINE m == [id |-> lastId + 1, nid |-> n]
<1>1. sent' = sent \union {m}
  BY DEF XAdd
<1>2. m.nid = n
  OBVIOUS
<1> HIDE DEF m
<1> QED  BY <1>1, <1>2, Zenon DEF InStreamOf

LEMMA AddedNext ==
  ASSUME TypeOK, AddedInv, [Next]_vars
  PROVE  AddedInv'
<1> USE DEF TypeOK, AddedInv
<1>1. ASSUME NEW n \in Nid, XAdd(n)
      PROVE  AddedInv'
  <2>1. create' = [create EXCEPT ![n] = "added"]
    BY <1>1 DEF XAdd
  <2>2. InStreamOf' = InStreamOf \union {n}
    BY <1>1, XAddPosts
  <2> QED  BY <2>1, <2>2
<1>2. ASSUME NEW n \in Nid, SetPayload(n) \/ CreateGroup(n) \/ ScheduleTTL(n) \/ CreateFailure(n)
      PROVE  AddedInv'
  <2>1. sent' = sent
    BY <1>2 DEF SetPayload, CreateGroup, ScheduleTTL, CreateFailure, ScheduleFails,
       CreateAborts, PipelineRetry
  <2>2. InStreamOf' = InStreamOf
    BY <2>1 DEF InStreamOf
  <2>3. \/ create' = [create EXCEPT ![n] = "set"] \/ create' = [create EXCEPT ![n] = "grouped"]
        \/ create' = [create EXCEPT ![n] = "new"] \/ create' = [create EXCEPT ![n] = "failed"]
        \/ create[n] = "added" /\ \E s \in {"done", "unscheduled"} : create' = [create EXCEPT ![n] = s]
    BY <1>2 DEF SetPayload, CreateGroup, ScheduleTTL, CreateFailure, ScheduleFails,
       CreateAborts, PipelineRetry
  <2> QED  BY <2>2, <2>3
<1>3. CASE UNCHANGED calls
  BY <1>3 DEF calls, InStreamOf
<1> QED
  BY <1>1, <1>2, <1>3, NextKinds, SessionFrame, CleaningFrame, TrimmingFrame, MaintainingFrame,
     TickFrame DEF vars, Creation, CreateNotification

LEMMA ContractStep ==
  ASSUME TypeOK, AddedInv, [Next]_vars
  PROVE  [Contract!Next]_(Contract!contractVars)
<1> USE DEF TypeOK
<1> DEFINE Stutter == UNCHANGED Contract!contractVars
<1>1. ASSUME OutcomeOf' = OutcomeOf, InStreamOf' = InStreamOf  PROVE Stutter
  BY <1>1 DEF Contract!contractVars, OutcomeOf, InStreamOf
<1>2. ASSUME NEW n \in Nid, XAdd(n)
      PROVE  Contract!Next
  <2>1. create[n] = "grouped" /\ create' = [create EXCEPT ![n] = "added"]
    BY <1>2 DEF XAdd
  <2>2. OutcomeOf' = OutcomeOf /\ OutcomeOf[n] = "open"
    BY <2>1 DEF OutcomeOf
  <2>3. InStreamOf' = InStreamOf \union {n}
    BY <1>2, XAddPosts
  <2>4. Contract!Post(n)
    BY <2>2, <2>3 DEF Contract!Post, OutcomeOf, InStreamOf
  <2> QED  BY <2>4 DEF Contract!Next
<1>3. ASSUME NEW n \in Nid, SetPayload(n) \/ CreateGroup(n) \/ PipelineRetry(n)
      PROVE  Stutter
  <2>1. /\ sent' = sent /\ create[n] \in {"new", "set", "grouped", "added"}
        /\ \E s \in {"new", "set", "grouped"} : create' = [create EXCEPT ![n] = s]
    BY <1>3 DEF SetPayload, CreateGroup, PipelineRetry
  <2> QED  BY <1>1, <2>1 DEF OutcomeOf, InStreamOf
<1>4. ASSUME NEW n \in Nid, ScheduleTTL(n) \/ ScheduleFails(n)
      PROVE  Contract!Next
  <2>1. /\ sent' = sent /\ create[n] = "added"
        /\ \E s \in {"done", "unscheduled"} : create' = [create EXCEPT ![n] = s]
    BY <1>4 DEF ScheduleTTL, ScheduleFails
  <2>2. OutcomeOf[n] = "open" /\ OutcomeOf' = [OutcomeOf EXCEPT ![n] = "returned"]
    BY <2>1 DEF OutcomeOf
  <2>3. InStreamOf' = InStreamOf \union {n}
    BY <2>1 DEF AddedInv, InStreamOf
  <2>4. Contract!Return(n)
    BY <2>2, <2>3 DEF Contract!Return, Contract!Becomes, OutcomeOf, InStreamOf
  <2> QED  BY <2>4 DEF Contract!Next
<1>5. ASSUME NEW n \in Nid, CreateAborts(n)
      PROVE  Contract!Next
  <2>1. /\ sent' = sent /\ create[n] \in {"new", "set", "grouped", "added"}
        /\ create' = [create EXCEPT ![n] = "failed"]
    BY <1>5 DEF CreateAborts
  <2>2. OutcomeOf[n] = "open" /\ OutcomeOf' = [OutcomeOf EXCEPT ![n] = "failed"]
    BY <2>1 DEF OutcomeOf
  <2>3. InStreamOf' = InStreamOf
    BY <2>1 DEF InStreamOf
  <2>4. Contract!FailCall(n)
    BY <2>2, <2>3 DEF Contract!FailCall, Contract!Becomes, OutcomeOf, InStreamOf
  <2> QED  BY <2>4 DEF Contract!Next
<1>6. CASE UNCHANGED calls
  BY <1>1, <1>6 DEF calls, OutcomeOf, InStreamOf
<1> QED
  BY <1>2, <1>3, <1>4, <1>5, <1>6, NextKinds, SessionFrame, CleaningFrame, TrimmingFrame,
     MaintainingFrame, TickFrame DEF vars, Creation, CreateNotification, CreateFailure

(* Whatever fails and is sent again, CreateNotification returns to its     *)
(* caller only with the notification in the stream.                        *)
THEOREM CreationsKeepContract == Spec => ContractRefined
<1>1. Init => AddedInv /\ Contract!Init
  BY DEF Init, AddedInv, Contract!Init
<1>2. TypeOK /\ AddedInv /\ [Next]_vars => AddedInv'
  BY AddedNext
<1>3. TypeOK /\ AddedInv /\ [Next]_vars => [Contract!Next]_(Contract!contractVars)
  BY ContractStep
<1> QED  BY <1>1, <1>2, <1>3, TypeCorrect, PTL DEF Spec, ContractRefined, Contract!Spec
=============================================================================
