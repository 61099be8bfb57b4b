--------------------------- MODULE MCFriendChannel ----------------------------
(***************************************************************************)
(* A small instance of FriendChannel for TLC.                              *)
(***************************************************************************)
EXTENDS FriendChannel

OneEach == [n \in {Low, High} |-> IF n = Low THEN {"l1"} ELSE {"h1"}]
===============================================================================
