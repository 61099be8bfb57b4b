---------------------------- MODULE FifoChannel ----------------------------
(***************************************************************************)
(* What a secure channel promises its two users: the messages one of them  *)
(* gives, numbered 1, 2, ..., are handed to the other in order, without a  *)
(* gap and without repetition, until one of the sides ends.                *)
(***************************************************************************)
EXTENDS Naturals, Sequences

VARIABLES given, taken, state   \* state[s]: "open" or "ended"

vars == <<given, taken, state>>
Side == {1, 2}
Other(s) == 3 - s

Init ==
  /\ given = [s \in Side |-> 0]
  /\ taken = [s \in Side |-> <<>>]
  /\ state \in [Side -> {"open", "ended"}]

Give(s) ==
  /\ state[s] = "open"
  /\ given' = [given EXCEPT ![s] = @ + 1]
  /\ UNCHANGED <<taken, state>>

Take(s) ==
  /\ state[s] = "open"
  /\ Len(taken[s]) < given[Other(s)]
  /\ taken' = [taken EXCEPT ![s] = Append(@, Len(@) + 1)]
  /\ UNCHANGED <<given, state>>

End(s) ==
  /\ state' = [state EXCEPT ![s] = "ended"]
  /\ UNCHANGED <<given, taken>>

Next == \E s \in Side : Give(s) \/ Take(s) \/ End(s)

Spec == Init /\ [][Next]_vars
=============================================================================
