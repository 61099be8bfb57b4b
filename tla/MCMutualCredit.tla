---------------------------- MODULE MCMutualCredit ----------------------------
(***************************************************************************)
(* Small instance of MutualCreditPair: freezes of 1 and 3 credits against  *)
(* balances of at most 2 and limits of 0, 2 and 5 (the largest u128), so   *)
(* that requests are accepted, refused and overflow.                       *)
(***************************************************************************)
EXTENDS MutualCreditPair, TLC

RequestIdSymmetry == Permutations(Uid)
===============================================================================
