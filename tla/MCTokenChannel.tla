---------------------------- MODULE MCTokenChannel ----------------------------
(***************************************************************************)
(* Small instances of TokenChannel: the side with the lower key has two    *)
(* operations, so that a batch of one leaves some behind, the other one.   *)
(***************************************************************************)
EXTENDS TokenChannel

TwoAndOne == [n \in Node |-> IF n = Low THEN 2 ELSE 1]
===============================================================================
