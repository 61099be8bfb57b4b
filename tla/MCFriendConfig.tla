--------------------------- MODULE MCFriendConfig ---------------------------
(***************************************************************************)
(* Instances of FriendConfig for TLC: one side has two relays, the first   *)
(* of which has two addresses, the other side has one relay.               *)
(***************************************************************************)
EXTENDS FriendConfig

MovingRelays == [n \in SIDES |-> IF n = "a" THEN {<<"r", 1>>, <<"r", 2>>, <<"s", 1>>}
                                 ELSE {<<"r", 1>>}]
OneRelay == [n \in SIDES |-> {<<"r", 1>>}]
=============================================================================
