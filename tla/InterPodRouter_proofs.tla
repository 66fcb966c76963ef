------------------------- MODULE InterPodRouter_proofs -------------------------
(***************************************************************************)
(* Proofs about the user keys and the inter-pod router, for all users,     *)
(* keys, batches, and numbers of messages and failures.                    *)
(***************************************************************************)
EXTENDS InterPodRouter, SequenceTheorems, TLAPS

USE DEF NoGroup

(* The user key begins with the number and a dash, unless it is negative. *)
LEMMA KeyShape ==
  ASSUME NEW u \in User, u.id >= 0
  PROVE  /\ UserKey(u) \in Seq(Symbol)
         /\ Len(UserKey(u)) = Len(u.login) + 2
         /\ UserKey(u)[1] = Numeral(u.id) /\ UserKey(u)[2] = Dash
         /\ \A i \in 1 .. Len(u.login) : UserKey(u)[i + 2] = u.login[i]
<1>1. Decimal(u.id) = <<Numeral(u.id)>> /\ u.login \in Seq(Symbol)
  BY DEF Decimal, User
<1>2. Numeral(u.id) \in Symbol /\ Dash \in Symbol
  <2>1. u.id \in Nat
    BY DEF User
  <2> QED  BY <2>1 DEF Symbol, Numeral, Dash, Char
<1>3. UserKey(u) = (<<Numeral(u.id)>> \o <<Dash>>) \o u.login
  BY <1>1 DEF UserKey
<1>4. /\ <<Numeral(u.id)>> \o <<Dash>> \in Seq(Symbol)
      /\ Len(<<Numeral(u.id)>> \o <<Dash>>) = 2
      /\ (<<Numeral(u.id)>> \o <<Dash>>)[1] = Numeral(u.id)
      /\ (<<Numeral(u.id)>> \o <<Dash>>)[2] = Dash
  BY <1>2
<1> DEFINE head == <<Numeral(u.id)>> \o <<Dash>>
<1> HIDE DEF head
<1>5. /\ head \in Seq(Symbol) /\ Len(head) = 2
      /\ head[1] = Numeral(u.id) /\ head[2] = Dash /\ UserKey(u) = head \o u.login
  BY <1>3, <1>4 DEF head
<1>6. /\ Len(UserKey(u)) = 2 + Len(u.login) /\ UserKey(u) \in Seq(Symbol)
      /\ \A i \in 1 .. 2 + Len(u.login) :
           UserKey(u)[i] = IF i <= 2 THEN head[i] ELSE u.login[i - 2]
  <2>1. head \in Seq(Symbol) /\ u.login \in Seq(Symbol)
    BY <1>1, <1>5
  <2>2. /\ head \o u.login \in Seq(Symbol)
        /\ Len(head \o u.login) = Len(head) + Len(u.login)
        /\ \A i \in 1 .. Len(head) + Len(u.login) : (head \o u.login)[i] =
             IF i <= Len(head) THEN head[i] ELSE u.login[i - Len(head)]
    BY <2>1, ConcatProperties
  <2> QED  BY <1>5, <2>2
<1>7. Len(u.login) \in Nat
  BY <1>1
<1> QED  BY <1>5, <1>6, <1>7

(* A numeral is not a dash. *)
LEMMA NumeralIsNoDash ==
  ASSUME NEW s \in Symbol, "number" \in DOMAIN s
  PROVE  s # Dash /\ s.number \in Nat /\ s = Numeral(s.number)
<1>1. CASE s \in [number : Nat]
  <2>1. DOMAIN s = {"number"} /\ DOMAIN Dash = {"char"}
    BY <1>1 DEF Dash, Char
  <2> QED  BY <1>1, <2>1 DEF Numeral
<1>2. CASE s \in [char : Letter \union {"-"}]
  BY <1>2
<1> QED  BY <1>1, <1>2 DEF Symbol

(* What a key parses to is a user of that key, with a number not negative. *)
LEMMA ParsedHasKey ==
  ASSUME NEW key \in Seq(Symbol), NEW u \in ParseUserKey(key)
  PROVE  u \in User /\ u.id >= 0 /\ UserKey(u) = key
<1>1. /\ 2 \in DOMAIN key /\ key[2] = Dash /\ "number" \in DOMAIN key[1]
      /\ u = [id |-> key[1].number, login |-> LoginAfter(key, 2)]
  BY DEF ParseUserKey, FirstDash
<1>2. Len(key) \in Nat /\ Len(key) >= 2 /\ key[1] \in Symbol
  BY <1>1
<1>3. key[1].number \in Nat /\ key[1] = Numeral(key[1].number)
  BY <1>1, <1>2, NumeralIsNoDash
<1>4. /\ LoginAfter(key, 2) \in Seq(Symbol) /\ Len(LoginAfter(key, 2)) = Len(key) - 2
      /\ \A i \in 1 .. Len(key) - 2 : LoginAfter(key, 2)[i] = key[i + 2]
  <2> DEFINE rest == SubSeq(key, 3, Len(key))
  <2>1. \A i \in 3 .. Len(key) : key[i] \in Symbol
    OBVIOUS
  <2>2. /\ rest \in Seq(Symbol)
        /\ Len(rest) = IF 3 <= Len(key) THEN Len(key) - 3 + 1 ELSE 0
        /\ \A i \in 1 .. Len(key) - 3 + 1 : rest[i] = key[3 + i - 1]
    BY <1>2, <2>1, SubSeqProperties
  <2>3. LoginAfter(key, 2) = rest
    BY DEF LoginAfter
  <2> HIDE DEF rest
  <2>4. ASSUME NEW i \in 1 .. Len(key) - 2  PROVE rest[i] = key[i + 2]
    <3>1. i \in 1 .. Len(key) - 3 + 1 /\ 3 + i - 1 = i + 2
      BY <1>2
    <3> QED  BY <2>2, <3>1
  <2>5. Len(rest) = Len(key) - 2
    <3>1. Len(rest) = IF 3 <= Len(key) THEN Len(key) - 3 + 1 ELSE 0
      BY <2>2
    <3>2. \A n \in Nat : n >= 2 => (IF 3 <= n THEN n - 3 + 1 ELSE 0) = n - 2
      OBVIOUS
    <3> QED  BY <1>2, <3>1, <3>2
  <2> QED  BY <2>2, <2>3, <2>4, <2>5
<1>5. u \in User /\ u.id >= 0 /\ u.id = key[1].number /\ u.login = LoginAfter(key, 2)
  BY <1>1, <1>3, <1>4 DEF User
<1>6. UserKey(u) \in Seq(Symbol) /\ Len(UserKey(u)) = Len(key)
  BY <1>2, <1>4, <1>5, KeyShape
<1>7. ASSUME NEW i \in 1 .. Len(key)  PROVE UserKey(u)[i] = key[i]
  <2>1. CASE i = 1
    BY <1>3, <1>5, <2>1, KeyShape
  <2>2. CASE i = 2
    BY <1>1, <1>5, <2>2, KeyShape
  <2>3. CASE i > 2
    <3>1. i - 2 \in 1 .. Len(key) - 2
      BY <1>2, <2>3
    <3>2. UserKey(u)[(i - 2) + 2] = u.login[i - 2]
      BY <1>4, <1>5, <3>1, KeyShape
    <3>3. u.login[i - 2] = key[(i - 2) + 2]
      BY <1>4, <1>5, <3>1
    <3> QED  BY <3>2, <3>3
  <2> QED  BY <2>1, <2>2, <2>3
<1> QED  BY <1>5, <1>6, <1>7, SeqEqual

(* A key parses back to its user, whatever dashes the login has, unless    *)
(* the number of the user is negative.                                     *)
THEOREM KeyParsesBack ==
  ASSUME NEW u \in User, u.id >= 0
  PROVE  ParseUserKey(UserKey(u)) = {u}
<1> DEFINE key == UserKey(u)
<1>1. /\ key \in Seq(Symbol) /\ Len(key) = Len(u.login) + 2 /\ u.login \in Seq(Symbol)
      /\ key[1] = Numeral(u.id) /\ key[2] = Dash
      /\ \A i \in 1 .. Len(u.login) : key[i + 2] = u.login[i]
  BY KeyShape DEF User
<1> HIDE DEF key
<1>2. "number" \in DOMAIN key[1] /\ key[1].number = u.id /\ key[1] \in Symbol
  BY <1>1 DEF Numeral
<1>3. key[1] # Dash
  BY <1>2, NumeralIsNoDash
<1>4. 2 \in FirstDash(key)
  BY <1>1, <1>3 DEF FirstDash
<1>5. LoginAfter(key, 2) = u.login
  <2>1. /\ LoginAfter(key, 2) \in Seq(Symbol) /\ Len(LoginAfter(key, 2)) = Len(u.login)
        /\ \A i \in 1 .. Len(u.login) : LoginAfter(key, 2)[i] = key[i + 2]
    BY <1>1 DEF LoginAfter
  <2> QED  BY <1>1, <2>1, SeqEqual
<1>6. [id |-> key[1].number, login |-> LoginAfter(key, 2)] = u
  BY <1>2, <1>5 DEF User
<1>7. ParseUserKey(key) = {u}
  BY <1>2, <1>4, <1>6 DEF ParseUserKey
<1> QED  BY <1>7 DEF key

(* Two users have different keys when their numbers are not negative, so   *)
(* that streams, locks and connections of one are never the other's.       *)
THEOREM KeysDistinct ==
  ASSUME NEW u \in User, NEW v \in User, u.id >= 0, v.id >= 0, UserKey(u) = UserKey(v)
  PROVE  u = v
<1>1. {u} = {v}
  BY KeyParsesBack
<1> QED  BY <1>1
-----------------------------------------------------------------------------
Written == [pos : Nat, user : Target]

(* The batch in hand is the end of what the group has delivered. *)
TodoInv ==
  /\ todo # <<>> => Len(todo) <= group
  /\ \A k \in 1 .. Len(todo) : todo[k] = group - Len(todo) + k

(* The last position that has been dealt with. *)
Through == group - Len(todo) + (IF step = "ack" THEN 1 ELSE 0)

(* What was written was dealt with, and bears the key of its user. *)
WrittenInv ==
  /\ \A i \in 1 .. Len(written) : written[i].pos <= Through /\ written[i].pos >= 1
  /\ group = NoGroup => written = <<>>
  /\ step = "ack" => \E i \in 1 .. Len(written) : written[i].pos = Head(todo)

RouterInv ==
  RouterTypeOK /\ TodoInv /\ WrittenInv /\ WrittenInOrder /\ RoutedToAddressee /\ AckedIffWritten

(* The empty router. *)
LEMMA InitRouter == RouterInit => RouterInv
  BY RouterAssumption
  DEF RouterInit, RouterInv, RouterTypeOK, TodoInv, WrittenInv, Through, WrittenInOrder,
      RoutedToAddressee, AckedIffWritten

(* What a lemma about a part of the state needs of the invariant. *)
LEMMA RouterFacts ==
  ASSUME RouterInv
  PROVE  /\ bus \in Seq(Key) /\ Len(bus) \in Nat
         /\ group \in Int /\ group >= -1 /\ group <= Len(bus)
         /\ todo \in Seq(Nat) /\ Len(todo) \in Nat
         /\ written \in Seq(Written) /\ Len(written) \in Nat
         /\ step \in {"deliver", "write", "ack"} <=> todo # <<>>
         /\ DOMAIN written = 1 .. Len(written) /\ DOMAIN todo = 1 .. Len(todo)
         /\ todo # <<>> => Len(todo) >= 1 /\ Len(todo) <= group
         /\ todo = <<>> => Len(todo) = 0
         /\ \A i \in 1 .. Len(written) : written[i].pos \in Nat
<1>1. /\ bus \in Seq(Key) /\ todo \in Seq(Nat) /\ written \in Seq(Written)
      /\ group \in Nat \union {NoGroup} /\ group <= Len(bus)
      /\ step \in {"deliver", "write", "ack"} <=> todo # <<>>
  BY DEF RouterInv, RouterTypeOK, Written
<1>2. todo # <<>> => Len(todo) <= group
  BY DEF RouterInv, TodoInv
<1>3. ASSUME NEW i \in 1 .. Len(written)
      PROVE  written[i].pos \in Nat
  <2>1. written[i] \in Written
    BY <1>1
  <2> QED  BY <2>1 DEF Written
<1> QED  BY <1>1, <1>2, <1>3

(* The message in hand is the next one of the stream. *)
LEMMA HeadPosition ==
  ASSUME RouterInv, todo # <<>>
  PROVE  /\ Head(todo) = group - Len(todo) + 1 /\ Head(todo) \in 1 .. Len(bus)
         /\ Head(todo) = todo[1]
<1> USE RouterFacts
<1>1. Head(todo) = todo[1]
  OBVIOUS
<1>2. todo[1] = group - Len(todo) + 1
  BY DEF RouterInv, TodoInv
<1> QED  BY <1>1, <1>2

(* The positions written, and those in hand. *)
Done == {written[i].pos : i \in DOMAIN written}
Hand == {todo[i] : i \in DOMAIN todo}

(* The router goes on to the next message, or to the next batch. *)
LEMMA NextMessageFacts ==
  ASSUME RouterInv, NextMessage, todo # <<>>, group' = group
  PROVE  /\ step' \in {"read", "deliver"} /\ todo' \in Seq(Nat)
         /\ step' = "deliver" <=> todo' # <<>>
         /\ Len(todo') = Len(todo) - 1
         /\ TodoInv'
         /\ Hand \subseteq Hand' \union {Head(todo)}
<1> USE RouterFacts
<1>1. /\ Tail(todo) \in Seq(Nat) /\ Len(Tail(todo)) = Len(todo) - 1
      /\ \A k \in 1 .. Len(Tail(todo)) : Tail(todo)[k] = todo[k + 1]
  BY HeadTailProperties
<1>2. ASSUME NEW k \in 1 .. Len(todo')
      PROVE  todo'[k] = group' - Len(todo') + k
  <2>1. todo'[k] = todo[k + 1] /\ k + 1 \in 1 .. Len(todo) /\ k \in Int
    BY <1>1, <1>2 DEF NextMessage
  <2>2. todo[k + 1] = group - Len(todo) + (k + 1)
    BY <2>1 DEF RouterInv, TodoInv
  <2>3. Len(todo') = Len(todo) - 1
    BY <1>1 DEF NextMessage
  <2> QED  BY <2>1, <2>2, <2>3
<1>3. Hand \subseteq Hand' \union {Head(todo)}
  <2> SUFFICES ASSUME NEW i \in 1 .. Len(todo), todo[i] # Head(todo)
               PROVE  todo[i] \in Hand'
    BY DEF Hand
  <2>1. i # 1
    BY HeadPosition
  <2>2. i - 1 \in 1 .. Len(todo') /\ todo'[i - 1] = todo[(i - 1) + 1]
    BY <1>1, <2>1 DEF NextMessage
  <2>3. DOMAIN todo' = 1 .. Len(todo') /\ (i - 1) + 1 = i
    BY <1>1 DEF NextMessage
  <2> QED  BY <2>2, <2>3 DEF Hand
<1>4. todo' # <<>> => Len(todo') <= group'
  BY <1>1 DEF NextMessage
<1>5. TodoInv'
  BY <1>2, <1>4 DEF TodoInv
<1> QED  BY <1>1, <1>3, <1>5 DEF NextMessage

(* Nothing is written: what was written keeps its order and its place, and *)
(* does not go beyond what the router is through with.                     *)
LEMMA NothingWritten ==
  ASSUME RouterInv, written' = written, bus' = bus, Through' >= Through, Through' \in Int,
         group # NoGroup => group' # NoGroup,
         step' = "ack" => step = "ack" /\ todo' = todo
  PROVE  WrittenInv' /\ WrittenInOrder' /\ RoutedToAddressee'
<1> USE RouterFacts
<1>1. Through \in Int
  BY DEF Through
<1>2. \A i \in 1 .. Len(written) : written[i].pos <= Through' /\ written[i].pos >= 1
  BY <1>1 DEF RouterInv, WrittenInv
<1>3. WrittenInv'
  <2>1. group' = NoGroup => written' = <<>>
    BY DEF RouterInv, WrittenInv
  <2>2. step' = "ack" => \E i \in 1 .. Len(written') : written'[i].pos = Head(todo')
    BY DEF RouterInv, WrittenInv
  <2> QED  BY <1>2, <2>1, <2>2 DEF WrittenInv
<1> QED  BY <1>3 DEF RouterInv, WrittenInOrder, RoutedToAddressee

(* A step that leaves the batch alone and does not end in an XACK. *)
LEMMA SameBatch ==
  ASSUME RouterInv, UNCHANGED <<bus, group, pel, todo, written, acked>>, faults' \in {faults, faults + 1},
         RouterTypeOK', step \notin {"ack"}, step' \notin {"ack"}
  PROVE  RouterInv'
<1> USE RouterFacts
<1>1. TodoInv'
  BY DEF RouterInv, TodoInv
<1>2. Through' = Through /\ Through \in Int
  BY DEF Through
<1>3. WrittenInv' /\ WrittenInOrder' /\ RoutedToAddressee'
  BY <1>2, NothingWritten
<1>4. AckedIffWritten'
  <2>1. faults \in Nat
    BY RouterAssumption DEF RouterInv, RouterTypeOK
  <2>2. faults' = 0 => faults = 0
    BY <2>1
  <2> QED  BY <2>2 DEF RouterInv, AckedIffWritten
<1> QED  BY <1>1, <1>3, <1>4 DEF RouterInv

(* A message that is not written is left behind. *)
LEMMA GiveUpStep ==
  ASSUME RouterInv, GiveUp, step \in {"deliver", "write"},
         UNCHANGED <<redis, session, clients, written, acked, faults>>
  PROVE  RouterInv'
<1> USE RouterFacts
<1>1. /\ step' \in {"read", "deliver"} /\ todo' \in Seq(Nat)
      /\ step' = "deliver" <=> todo' # <<>>
      /\ Len(todo') = Len(todo) - 1
      /\ TodoInv'
      /\ Hand \subseteq Hand' \union {Head(todo)}
  BY NextMessageFacts DEF GiveUp, redis
<1>2. RouterTypeOK'
  BY <1>1 DEF RouterInv, RouterTypeOK, redis, clients
<1>3. WrittenInv' /\ WrittenInOrder' /\ RoutedToAddressee'
  <2>1. Through' >= Through /\ Through' \in Int
    BY <1>1 DEF Through, redis
  <2> QED  BY <1>1, <2>1, NothingWritten DEF redis
<1>4. AckedIffWritten'
  <2>1. \A i \in 1 .. Len(written) : written[i].pos <= group - Len(todo)
    BY DEF RouterInv, WrittenInv, Through
  <2>2. Head(todo) = group - Len(todo) + 1
    BY HeadPosition
  <2>3. Head(todo) \notin Done
    BY <2>1, <2>2 DEF Done
  <2>4. acked \subseteq Done /\ (faults = 0 => (pel \ Hand) \intersect Done = {})
    BY DEF RouterInv, AckedIffWritten, Done, Hand
  <2>5. Done' = Done
    BY DEF Done
  <2>6. acked' \subseteq Done' /\ (faults' = 0 => (pel' \ Hand') \intersect Done' = {})
    BY <1>1, <2>3, <2>4, <2>5 DEF redis
  <2> QED  BY <2>6 DEF AckedIffWritten, Done, Hand
<1> QED  BY <1>1, <1>2, <1>3, <1>4 DEF RouterInv

(* XACK takes the message from the pending ones, or its error is ignored. *)
LEMMA AckStep ==
  ASSUME RouterInv, Ack \/ AckFails
  PROVE  RouterInv'
<1> USE RouterFacts
<1>1. step = "ack" /\ todo # <<>> /\ NextMessage /\ UNCHANGED <<bus, group, session, clients, written>>
  BY DEF Ack, AckFails, redis
<1>2. /\ step' \in {"read", "deliver"} /\ todo' \in Seq(Nat)
      /\ step' = "deliver" <=> todo' # <<>>
      /\ Len(todo') = Len(todo) - 1
      /\ TodoInv'
      /\ Hand \subseteq Hand' \union {Head(todo)}
  BY <1>1, NextMessageFacts
<1>3. /\ pel' \subseteq pel /\ acked' \subseteq acked \union {Head(todo)}
      /\ faults' = 0 => pel' = pel \ {Head(todo)} /\ faults = 0
      /\ faults' \in 0 .. MaxFaults
  <2>1. faults \in 0 .. MaxFaults /\ MaxFaults \in Nat
    BY RouterAssumption DEF RouterInv, RouterTypeOK
  <2>2. CASE Ack
    BY <2>1, <2>2 DEF Ack
  <2>3. CASE AckFails
    BY <2>1, <2>3 DEF AckFails, Fail, redis
  <2> QED  BY <2>2, <2>3
<1>4. RouterTypeOK'
  BY <1>1, <1>2, <1>3, HeadPosition DEF RouterInv, RouterTypeOK, clients
<1>5. WrittenInv' /\ WrittenInOrder' /\ RoutedToAddressee'
  <2>1. Through' >= Through /\ Through' \in Int
    BY <1>1, <1>2 DEF Through
  <2> QED  BY <1>1, <1>2, <2>1, NothingWritten
<1>6. AckedIffWritten'
  <2>1. Head(todo) \in Done
    BY <1>1 DEF RouterInv, WrittenInv, Done
  <2>2. acked \subseteq Done /\ (faults = 0 => (pel \ Hand) \intersect Done = {})
    BY DEF RouterInv, AckedIffWritten, Done, Hand
  <2>3. Done' = Done
    BY <1>1 DEF Done
  <2>4. acked' \subseteq Done' /\ (faults' = 0 => (pel' \ Hand') \intersect Done' = {})
    BY <1>2, <1>3, <2>1, <2>2, <2>3
  <2> QED  BY <2>4 DEF AckedIffWritten, Done, Hand
<1> QED  BY <1>2, <1>4, <1>5, <1>6 DEF RouterInv

(* A message is written to a user whose key it carries, after all others. *)
LEMMA WriteStep ==
  ASSUME RouterInv, WriteMessage
  PROVE  RouterInv'
<1> USE RouterFacts
<1>1. PICK u \in Addressee \intersect Target :
        written' = Append(written, [pos |-> Head(todo), user |-> u])
  BY DEF WriteMessage
<1>2. /\ step = "write" /\ step' = "ack" /\ todo # <<>>
      /\ UNCHANGED <<bus, group, pel, todo, session, sessions, online, acked, faults>>
  BY DEF WriteMessage, redis, clients
<1> DEFINE rec == [pos |-> Head(todo), user |-> u]
<1>3. /\ Head(todo) = group - Len(todo) + 1 /\ Head(todo) \in 1 .. Len(bus)
      /\ Head(todo) = todo[1]
  BY <1>2, HeadPosition
<1>4. rec \in Written /\ rec.pos = Head(todo) /\ rec.user = u
  BY <1>1, <1>3 DEF Written
<1> HIDE DEF rec
<1>5. /\ written' \in Seq(Written) /\ Len(written') = Len(written) + 1
      /\ \A i \in 1 .. Len(written) : written'[i] = written[i]
      /\ written'[Len(written) + 1] = rec
  <2>1. written' = Append(written, rec)
    BY <1>1 DEF rec
  <2> QED  BY <1>4, <2>1, AppendProperties
<1>6. RouterTypeOK'
  BY <1>2, <1>5 DEF RouterInv, RouterTypeOK, Written
<1>7. TodoInv'
  BY <1>2 DEF RouterInv, TodoInv
<1>8. \A i \in 1 .. Len(written) : written[i].pos < Head(todo) /\ written[i].pos >= 1
  <2>1. \A i \in 1 .. Len(written) : written[i].pos <= group - Len(todo) /\ written[i].pos >= 1
    BY <1>2 DEF RouterInv, WrittenInv, Through
  <2> QED  BY <1>3, <2>1
<1>9. WrittenInv'
  <2>1. Through' = Head(todo)
    BY <1>2, <1>3 DEF Through
  <2>2. ASSUME NEW i \in 1 .. Len(written')
        PROVE  written'[i].pos <= Through' /\ written'[i].pos >= 1
    <3>1. CASE i = Len(written) + 1
      BY <1>3, <1>4, <1>5, <2>1, <3>1
    <3>2. CASE i # Len(written) + 1
      <4>1. i \in 1 .. Len(written) /\ written'[i] = written[i]
        BY <1>5, <2>2, <3>2
      <4> QED  BY <1>3, <1>8, <2>1, <4>1
    <3> QED  BY <3>1, <3>2
  <2>3. group' # NoGroup
    BY <1>2
  <2>4. \E i \in 1 .. Len(written') : written'[i].pos = Head(todo')
    BY <1>2, <1>4, <1>5
  <2> QED  BY <2>2, <2>3, <2>4 DEF WrittenInv
<1>10. WrittenInOrder'
  <2> SUFFICES ASSUME NEW i \in 1 .. Len(written'), NEW j \in 1 .. Len(written'), i < j
               PROVE  written'[i].pos < written'[j].pos
    BY <1>5 DEF WrittenInOrder
  <2>1. i \in 1 .. Len(written) /\ written'[i] = written[i]
    BY <1>5
  <2>2. CASE j = Len(written) + 1
    BY <1>4, <1>5, <1>8, <2>1, <2>2
  <2>3. CASE j # Len(written) + 1
    <3>1. Len(written') = Len(written) + 1
      BY <1>5
    <3>2. j \in 1 .. Len(written)
      <4>1. \A n \in Nat : \A x \in 1 .. n + 1 : x # n + 1 => x \in 1 .. n
        OBVIOUS
      <4>2. j \in 1 .. Len(written) + 1
        BY <3>1
      <4>3. Len(written) \in Nat
        BY RouterFacts
      <4> QED  BY <2>3, <4>1, <4>2, <4>3
    <3>3. written'[j] = written[j]
      BY <1>5, <3>2
    <3> QED  BY <2>1, <3>2, <3>3 DEF RouterInv, WrittenInOrder
  <2> QED  BY <2>2, <2>3
<1>11. RoutedToAddressee'
  <2>1. bus[Head(todo)] \in Seq(Symbol)
    BY <1>3, RouterAssumption
  <2>2. bus[Head(todo)] = UserKey(u)
    BY <1>1, <2>1, ParsedHasKey DEF Addressee
  <2> SUFFICES ASSUME NEW i \in 1 .. Len(written')
               PROVE  bus[written'[i].pos] = UserKey(written'[i].user)
    BY <1>2, <1>5 DEF RoutedToAddressee
  <2>3. CASE i = Len(written) + 1
    BY <1>4, <1>5, <2>2, <2>3
  <2>4. CASE i # Len(written) + 1
    <3>1. i \in 1 .. Len(written) /\ written'[i] = written[i]
      BY <1>5, <2>4
    <3> QED  BY <3>1 DEF RouterInv, RoutedToAddressee
  <2> QED  BY <2>3, <2>4
<1>12. AckedIffWritten'
  <2>1. acked \subseteq Done /\ (faults = 0 => (pel \ Hand) \intersect Done = {})
    BY DEF RouterInv, AckedIffWritten, Done, Hand
  <2>2. Hand' = Hand /\ Head(todo) \in Hand
    BY <1>2, <1>3 DEF Hand
  <2>3. Done \subseteq Done' /\ Done' \subseteq Done \union {Head(todo)}
    <3>1. DOMAIN written' = 1 .. Len(written) + 1
      BY <1>5
    <3>2. ASSUME NEW i \in 1 .. Len(written) + 1
          PROVE  written'[i].pos \in Done \union {Head(todo)}
      <4>1. i \in 1 .. Len(written) \/ i = Len(written) + 1
        OBVIOUS
      <4> QED  BY <1>4, <1>5, <4>1 DEF Done
    <3>3. \A i \in 1 .. Len(written) : written'[i].pos = written[i].pos /\ i \in DOMAIN written'
      BY <1>5, <3>1
    <3>4. Done \subseteq Done'
      BY <3>3 DEF Done
    <3>5. Done' \subseteq Done \union {Head(todo)}
      BY <3>1, <3>2 DEF Done
    <3> QED  BY <3>4, <3>5
  <2>4. acked' \subseteq Done' /\ (faults' = 0 => (pel' \ Hand') \intersect Done' = {})
    BY <1>2, <2>1, <2>2, <2>3
  <2> QED  BY <2>4 DEF AckedIffWritten, Done, Hand
<1> QED  BY <1>6, <1>7, <1>9, <1>10, <1>11, <1>12 DEF RouterInv

(* A read delivers the next batch; its reply may be lost. *)
LEMMA FetchStep ==
  ASSUME RouterInv, Read \/ ReadReplyLost
  PROVE  RouterInv'
<1> USE RouterFacts
<1>1. /\ step = "read" /\ group # NoGroup /\ group < Len(bus) /\ todo = <<>>
      /\ group' = BatchEnd /\ pel' = pel \union (group + 1 .. BatchEnd)
      /\ UNCHANGED <<bus, session, sessions, online, written, acked>>
  BY DEF Read, ReadReplyLost, Fetch, clients, routing
<1>2. /\ group \in Nat /\ BatchEnd \in Nat /\ group < BatchEnd /\ BatchEnd <= Len(bus)
  BY <1>1, RouterAssumption DEF BatchEnd
<1>3. acked \subseteq Done /\ (faults = 0 => pel \intersect Done = {})
  <2>1. Hand = {}
    BY <1>1 DEF Hand
  <2> QED  BY <2>1 DEF RouterInv, AckedIffWritten, Done, Hand
<1>4. \A x \in Done : x <= group
  <2>1. \A i \in 1 .. Len(written) : written[i].pos <= group
    BY <1>1 DEF RouterInv, WrittenInv, Through
  <2> QED  BY <2>1 DEF Done
<1>5. Done' = Done
  BY <1>1 DEF Done
<1>6. pel' \subseteq 1 .. Len(bus)
  BY <1>1, <1>2 DEF RouterInv, RouterTypeOK
<1>7. CASE Read
  <2>1. /\ step' = "deliver" /\ todo' = [k \in 1 .. BatchEnd - group |-> group + k] /\ faults' = faults
    BY <1>7 DEF Read
  <2>2. todo' \in Seq(Nat) /\ Len(todo') = BatchEnd - group /\ DOMAIN todo' = 1 .. BatchEnd - group
    BY <1>2, <2>1
  <2>3. todo' # <<>>
    BY <1>2, <2>2
  <2>4. RouterTypeOK'
    BY <1>1, <1>2, <1>6, <2>1, <2>2, <2>3 DEF RouterInv, RouterTypeOK
  <2>5. TodoInv'
    <3>1. ASSUME NEW k \in 1 .. Len(todo')  PROVE todo'[k] = group' - Len(todo') + k
      <4>1. todo'[k] = group + k
        BY <2>1, <2>2
      <4> QED  BY <1>1, <1>2, <2>2, <4>1
    <3>2. Len(todo') <= group'
      BY <1>1, <1>2, <2>2
    <3> QED  BY <3>1, <3>2 DEF TodoInv
  <2>6. WrittenInv' /\ WrittenInOrder' /\ RoutedToAddressee'
    <3>1. Through' >= Through /\ Through' \in Int
      BY <1>1, <1>2, <2>1, <2>2 DEF Through
    <3> QED  BY <1>1, <1>2, <2>1, <3>1, NothingWritten
  <2>7. AckedIffWritten'
    <3>1. group + 1 .. BatchEnd \subseteq Hand'
      <4> SUFFICES ASSUME NEW x \in group + 1 .. BatchEnd  PROVE x \in Hand'
        OBVIOUS
      <4>1. x - group \in 1 .. BatchEnd - group /\ group + (x - group) = x
        BY <1>2
      <4> QED  BY <2>1, <2>2, <4>1 DEF Hand
    <3>2. acked' \subseteq Done' /\ (faults' = 0 => (pel' \ Hand') \intersect Done' = {})
      BY <1>1, <1>3, <1>5, <2>1, <3>1
    <3> QED  BY <3>2 DEF AckedIffWritten, Done, Hand
  <2> QED  BY <2>4, <2>5, <2>6, <2>7 DEF RouterInv
<1>8. CASE ReadReplyLost
  <2>1. /\ step' = step /\ todo' = todo /\ faults' = faults + 1 /\ faults' <= MaxFaults /\ faults' # 0
        /\ faults' \in 0 .. MaxFaults
    BY <1>8, RouterAssumption DEF ReadReplyLost, Fail, routing, RouterInv, RouterTypeOK
  <2>2. RouterTypeOK'
    BY <1>1, <1>2, <1>6, <2>1 DEF RouterInv, RouterTypeOK
  <2>3. TodoInv'
    BY <1>1, <2>1 DEF TodoInv
  <2>4. WrittenInv' /\ WrittenInOrder' /\ RoutedToAddressee'
    <3>1. Through' >= Through /\ Through' \in Int
      BY <1>1, <1>2, <2>1 DEF Through
    <3> QED  BY <1>1, <1>2, <2>1, <3>1, NothingWritten
  <2>5. acked' \subseteq Done'
    BY <1>1, <1>3, <1>5
  <2>6. AckedIffWritten'
    BY <2>1, <2>5 DEF AckedIffWritten, Done
  <2> QED  BY <2>2, <2>3, <2>4, <2>6 DEF RouterInv
<1> QED  BY <1>7, <1>8

(* A new group begins at the end; one that exists keeps its place. *)
LEMMA CreateGroupStep ==
  ASSUME RouterInv, CreateGroup
  PROVE  RouterInv'
<1> USE RouterFacts
<1>1. /\ step = "create" /\ step' = "read" /\ todo = <<>> /\ group' = GroupAfterCreate
      /\ UNCHANGED <<bus, pel, todo, session, sessions, online, written, acked, faults>>
  BY DEF CreateGroup, clients
<1>2. group' \in Nat /\ group' <= Len(bus) /\ group' >= group
  BY <1>1 DEF GroupAfterCreate
<1>3. RouterTypeOK'
  BY <1>1, <1>2 DEF RouterInv, RouterTypeOK
<1>4. TodoInv'
  BY <1>1 DEF TodoInv
<1>5. Through' >= Through /\ Through' \in Int
  BY <1>1, <1>2 DEF Through
<1>6. WrittenInv' /\ WrittenInOrder' /\ RoutedToAddressee'
  BY <1>1, <1>2, <1>5, NothingWritten
<1>7. AckedIffWritten'
  BY <1>1 DEF RouterInv, AckedIffWritten
<1> QED  BY <1>3, <1>4, <1>6, <1>7 DEF RouterInv

(* The pod dies: the batch in hand is gone, and stays pending. *)
LEMMA CrashStep ==
  ASSUME RouterInv, Crash
  PROVE  RouterInv'
<1> USE RouterFacts
<1>1. /\ step' = "off" /\ todo' = <<>> /\ online' = {} /\ faults' = faults + 1 /\ faults' <= MaxFaults
      /\ UNCHANGED <<bus, group, pel, session, sessions, written, acked>>
  BY RouterAssumption DEF Crash, Fail, redis, RouterInv, RouterTypeOK
<1>2. faults' \in 0 .. MaxFaults /\ faults' # 0
  BY <1>1, RouterAssumption DEF RouterInv, RouterTypeOK
<1>3. RouterTypeOK'
  BY <1>1, <1>2 DEF RouterInv, RouterTypeOK
<1>4. TodoInv'
  BY <1>1 DEF TodoInv
<1>5. Through' >= Through /\ Through' \in Int
  <2>1. Len(todo') = 0
    BY <1>1
  <2> QED  BY <1>1, <2>1 DEF Through
<1>6. WrittenInv' /\ WrittenInOrder' /\ RoutedToAddressee'
  BY <1>1, <1>5, NothingWritten
<1>7. AckedIffWritten'
  BY <1>1, <1>2 DEF RouterInv, AckedIffWritten
<1> QED  BY <1>3, <1>4, <1>6, <1>7 DEF RouterInv

(* Posting a message leaves what was written in its place. *)
LEMMA PostStep ==
  ASSUME RouterInv, NEW k \in Key, Post(k)
  PROVE  RouterInv'
<1> USE RouterFacts
<1>1. /\ bus' = Append(bus, k)
      /\ UNCHANGED <<group, pel, step, todo, session, sessions, online, written, acked, faults>>
  BY DEF Post, routing, clients
<1>2. /\ bus' \in Seq(Key) /\ Len(bus') = Len(bus) + 1
      /\ \A i \in 1 .. Len(bus) : bus'[i] = bus[i]
  BY <1>1, AppendProperties
<1>3. RouterTypeOK'
  <2>1. /\ group' <= Len(bus') /\ pel' \subseteq 1 .. Len(bus') /\ acked' \subseteq 1 .. Len(bus')
    BY <1>1, <1>2 DEF RouterInv, RouterTypeOK
  <2> QED  BY <1>1, <1>2, <2>1 DEF RouterInv, RouterTypeOK
<1>4. TodoInv' /\ WrittenInv' /\ WrittenInOrder' /\ AckedIffWritten'
  <2>1. Through' = Through
    BY <1>1 DEF Through
  <2>2. TodoInv'
    BY <1>1 DEF RouterInv, TodoInv
  <2>3. WrittenInv'
    BY <1>1, <2>1 DEF RouterInv, WrittenInv
  <2>4. WrittenInOrder'
    BY <1>1 DEF RouterInv, WrittenInOrder
  <2>5. AckedIffWritten'
    BY <1>1 DEF RouterInv, AckedIffWritten
  <2> QED  BY <2>2, <2>3, <2>4, <2>5
<1>5. RoutedToAddressee'
  <2> SUFFICES ASSUME NEW i \in 1 .. Len(written)
               PROVE  bus'[written[i].pos] = UserKey(written[i].user)
    BY <1>1 DEF RoutedToAddressee
  <2>1. Through \in Int /\ Through <= Len(bus)
    BY DEF Through
  <2>2. written[i].pos \in 1 .. Len(bus)
    BY <2>1 DEF RouterInv, WrittenInv
  <2> QED  BY <1>2, <2>2 DEF RouterInv, RoutedToAddressee
<1> QED  BY <1>3, <1>4, <1>5 DEF RouterInv

(* Only the connections may change. *)
LEMMA SameRouting ==
  ASSUME RouterInv, RouterTypeOK', UNCHANGED <<bus, group, pel, step, todo, written, acked, faults>>
  PROVE  RouterInv'
<1>1. Through' = Through
  BY DEF Through
<1>2. TodoInv'
  BY DEF RouterInv, TodoInv
<1>3. WrittenInv'
  BY <1>1 DEF RouterInv, WrittenInv
<1>4. WrittenInOrder' /\ RoutedToAddressee'
  BY DEF RouterInv, WrittenInOrder, RoutedToAddressee
<1>5. AckedIffWritten'
  BY DEF RouterInv, AckedIffWritten
<1> QED  BY <1>2, <1>3, <1>4, <1>5 DEF RouterInv

(* The actions that leave the stream, the group and the batch alone. *)
LEMMA QuietStep ==
  ASSUME RouterInv,
         \/ Start \/ CreateGroupFails \/ FindClient
         \/ \E u \in Target : Connect(u) \/ Leave(u)
  PROVE  RouterInv'
<1> USE RouterFacts
<1>1. CASE Start
  <2>1. RouterTypeOK'
    BY <1>1 DEF Start, RouterInv, RouterTypeOK, redis, clients
  <2> QED  BY <1>1, <2>1, SameBatch DEF Start, redis
<1>2. CASE CreateGroupFails
  <2>1. faults' \in 0 .. MaxFaults
    BY <1>2, RouterAssumption DEF CreateGroupFails, Fail, RouterInv, RouterTypeOK
  <2>2. RouterTypeOK'
    BY <1>2, <2>1 DEF CreateGroupFails, RouterInv, RouterTypeOK, redis, clients
  <2> QED  BY <1>2, <2>2, SameBatch DEF CreateGroupFails, Fail, redis
<1>3. CASE FindClient
  <2>1. session' \in Nat
    <3>1. PICK u \in online : session' = sessions[u]
      BY <1>3 DEF FindClient
    <3> QED  BY <3>1 DEF RouterInv, RouterTypeOK
  <2>2. RouterTypeOK'
    BY <1>3, <2>1 DEF FindClient, RouterInv, RouterTypeOK, redis, clients
  <2> QED  BY <1>3, <2>2, SameBatch DEF FindClient, redis
<1>4. CASE \E u \in Target : Connect(u) \/ Leave(u)
  <2>1. PICK u \in Target : Connect(u) \/ Leave(u)
    BY <1>4
  <2>2. UNCHANGED <<bus, group, pel, step, todo, session, written, acked, faults>>
    BY <2>1 DEF Connect, Leave, redis, routing
  <2>3. sessions' \in [Target -> Nat] /\ online' \subseteq Target
    <3>1. sessions \in [Target -> Nat] /\ online \subseteq Target
      BY DEF RouterInv, RouterTypeOK
    <3>2. CASE Connect(u)
      BY <3>1, <3>2 DEF Connect
    <3>3. CASE Leave(u)
      BY <3>1, <3>3 DEF Leave
    <3> QED  BY <2>1, <3>2, <3>3
  <2>4. RouterTypeOK'
    BY <2>2, <2>3 DEF RouterInv, RouterTypeOK
  <2> QED  BY <2>2, <2>4, SameRouting
<1> QED  BY <1>1, <1>2, <1>3, <1>4

(* The invariant is inductive. *)
LEMMA RouterStep ==
  ASSUME RouterInv, [RouterNext]_rvars
  PROVE  RouterInv'
<1>1. CASE Start \/ CreateGroupFails \/ FindClient \/ \E u \in Target : Connect(u) \/ Leave(u)
  BY <1>1, QuietStep
<1>2. CASE NoClient
  BY <1>2, GiveUpStep DEF NoClient
<1>3. CASE WriteFails
  BY <1>3, GiveUpStep DEF WriteFails
<1>4. CASE CreateGroup
  BY <1>4, CreateGroupStep
<1>5. CASE Read \/ ReadReplyLost
  BY <1>5, FetchStep
<1>6. CASE WriteMessage
  BY <1>6, WriteStep
<1>7. CASE Ack \/ AckFails
  BY <1>7, AckStep
<1>8. CASE Crash
  BY <1>8, CrashStep
<1>9. CASE \E k \in Key : Post(k)
  BY <1>9, PostStep
<1>10. CASE UNCHANGED rvars
  <2>1. RouterTypeOK'
    BY <1>10 DEF rvars, redis, routing, clients, RouterInv, RouterTypeOK
  <2> QED  BY <1>10, <2>1, SameRouting DEF rvars, redis, routing, clients
<1> QED  BY <1>1, <1>2, <1>3, <1>4, <1>5, <1>6, <1>7, <1>8, <1>9, <1>10
         DEF RouterNext, Router, RouterFailure

(* Every state of the router satisfies the invariant. *)
LEMMA RouterInvariance == RouterSpec => []RouterInv
  BY InitRouter, RouterStep, PTL DEF RouterSpec

(* The router's variables are of their types. *)
THEOREM RouterTypes == RouterSpec => []RouterTypeOK
<1>1. RouterInv => RouterTypeOK
  BY DEF RouterInv
<1> QED  BY <1>1, RouterInvariance, PTL

(* Messages are written in the order of the stream and none twice, whatever *)
(* replies are lost and however often the pod dies.                         *)
THEOREM MessagesInOrder == RouterSpec => []WrittenInOrder
<1>1. RouterInv => WrittenInOrder
  BY DEF RouterInv
<1> QED  BY <1>1, RouterInvariance, PTL

(* A message reaches only the user whose key it carries. *)
THEOREM MessagesReachAddressee == RouterSpec => []RoutedToAddressee
<1>1. RouterInv => RoutedToAddressee
  BY DEF RouterInv
<1> QED  BY <1>1, RouterInvariance, PTL

(* What is acknowledged was written, and while nothing fails what stays *)
(* pending was not.                                                      *)
THEOREM AcknowledgedIsWritten == RouterSpec => []AckedIffWritten
<1>1. RouterInv => AckedIffWritten
  BY DEF RouterInv
<1> QED  BY <1>1, RouterInvariance, PTL
=============================================================================
