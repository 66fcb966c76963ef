-------------------------- MODULE MCInterPodRouter --------------------------
(* Small instances of InterPodRouter: two users whose keys begin alike,    *)
(* their keys, and one that does not parse.                                *)
EXTENDS InterPodRouter

Login == <<Char("b")>>

Plain    == [id |-> 1, login |-> Login]
Dashed   == [id |-> 1, login |-> Login \o <<Dash>> \o Login]
Negative == [id |-> -1, login |-> Login]

MCTarget == {Plain, Dashed}
MCKey == {UserKey(Plain), UserKey(Dashed), UserKey(Negative)}
=============================================================================
