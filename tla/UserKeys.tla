------------------------------- MODULE UserKeys -------------------------------
(***************************************************************************)
(* The user key "id-login" (domain.UserKey) and the way back from it,      *)
(* which the inter-pod router (cmd/server/main.go), the workers and the    *)
(* administration each take by the same code (parseUserKey).               *)
(*                                                                         *)
(* A key is a sequence of symbols: a decimal numeral is one symbol, a      *)
(* character of a login another.                                           *)
(***************************************************************************)
EXTENDS Integers, Sequences

CONSTANT Letter  \* the other characters of logins

Numeral(n) == [number |-> n]
Char(c)    == [char |-> c]
Dash       == Char("-")

Symbol == [number : Nat] \union [char : Letter \union {"-"}]

User == [id : Int, login : Seq(Symbol)]

(* %d *)
Decimal(id) == IF id < 0 THEN <<Dash, Numeral(-id)>> ELSE <<Numeral(id)>>

(* fmt.Sprintf("%d-%s", userID, login) *)
UserKey(user) == Decimal(user.id) \o <<Dash>> \o user.login

(* The place of the first dash, where strings.SplitN(key, "-", 2) cuts. *)
FirstDash(key) == {i \in DOMAIN key : key[i] = Dash /\ \A j \in 1 .. i-1 : key[j] # Dash}

(* Mutant: strings.Split, and the second of all parts. *)
LoginUpToNextDash(key, i) ==
  LET rest == SubSeq(key, i + 1, Len(key))
  IN  SubSeq(rest, 1, CHOOSE k \in 0 .. Len(rest) :
                        /\ \A j \in 1 .. k : rest[j] # Dash
                        /\ k = Len(rest) \/ rest[k + 1] = Dash)

LoginAfter(key, i) == SubSeq(key, i + 1, Len(key))

(* The user of a key: none if there is no dash, or if what precedes it is  *)
(* no number (strconv.ParseInt); in a negative number the dash comes first. *)
ParseUserKey(key) ==
  {[id |-> key[1].number, login |-> LoginAfter(key, i)] :
     i \in {j \in FirstDash(key) : j = 2 /\ "number" \in DOMAIN key[1]}}
=============================================================================
