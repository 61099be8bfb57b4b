------------------------------ MODULE Verifier ------------------------------
(***************************************************************************)
(* The verifier of an index server (index_server/src/verifier/): it lets a *)
(* message of a node pass when its time hash is recent (hash_clock.rs) and *)
(* its counter is new (ratchet.rs).  Messages reach a server more than     *)
(* once, late and in any order: every server forwards what it accepts to   *)
(* every other one.                                                        *)
(*                                                                         *)
(* A tick hash is modelled by the number of the tick that made it, and the *)
(* time proof of a message by the last tick of this server that the chain  *)
(* leads to.  That tick was made before the message was signed, whichever  *)
(* path the message takes.                                                 *)
(***************************************************************************)
EXTENDS Integers, Sequences

CONSTANTS
  NODES, SESSIONS,
  TICKS_TO_LIVE,        \* ticks_to_live of SimpleVerifier::new
  MAX_COUNTER, MAX_TICK,\* bounds: messages of a session, ticks
  MAX_HEARD             \* bound: messages of a node that are accepted

ASSUME TicksAssumption == TICKS_TO_LIVE \in Nat \ {0}

VARIABLES
  now,       \* number of the last tick of hash_clock, 0 before the first
  ratchet,   \* per node: [session, counter, ttl]; ttl = 0 when there is none
  stamp,     \* per message: the tick its time hash proves, 0 while not sent
  heard      \* per node: the messages accepted so far, in order (no code reads it)

vars == <<now, ratchet, stamp, heard>>

Counters == 0 .. MAX_COUNTER

InitAt(at) ==
  /\ now = at
  /\ \E s \in SESSIONS : ratchet = [n \in NODES |-> [session |-> s, counter |-> 0, ttl |-> 0]]
  /\ stamp = [n \in NODES |-> [s \in SESSIONS |-> [c \in Counters |-> 0]]]
  /\ heard = [n \in NODES |-> <<>>]

Init == InitAt(0)

\* A node signs the next message of a session, with a time hash it got from a
\* server, not necessarily the last.
Send(n, s, c, k) ==
  /\ now <= MAX_TICK
  /\ stamp[n][s][c] = 0 /\ k <= now
  /\ \A d \in Counters : d < c => stamp[n][s][d] \in 1 .. k
  /\ stamp' = [stamp EXCEPT ![n][s][c] = k]
  /\ UNCHANGED <<now, ratchet, heard>>

\* HashClock keeps the hashes of the last TICKS_TO_LIVE ticks.
Recent(k) == k > 0 /\ k > now - TICKS_TO_LIVE /\ k <= now

Newer(n, s, c) ==
  \/ ratchet[n].ttl = 0
  \/ ratchet[n].session # s
  \/ ratchet[n].counter < c

\* SimpleVerifier::verify: what is not recent does not move the ratchet.  A
\* message of another session than the last always does.
verify(n, s, c) ==
  /\ Len(heard[n]) < MAX_HEARD
  /\ Recent(stamp[n][s][c]) /\ Newer(n, s, c)
  /\ ratchet' = [ratchet EXCEPT ![n] = [session |-> s, counter |-> c, ttl |-> TICKS_TO_LIVE]]
  /\ heard' = [heard EXCEPT ![n] = Append(@, [session |-> s, counter |-> c])]
  /\ UNCHANGED <<now, stamp>>

\* Mutant: a ratchet is forgotten one tick early.
Aged_Early(r) == [session |-> r.session, counter |-> r.counter,
                  ttl |-> IF r.ttl > 1 THEN r.ttl - 2 ELSE 0]

Aged(r) == [session |-> r.session, counter |-> r.counter,
            ttl |-> IF r.ttl > 0 THEN r.ttl - 1 ELSE 0]

\* SimpleVerifier::tick: the clock and the ratchets move together.
tick ==
  /\ now < MAX_TICK
  /\ now' = now + 1
  /\ ratchet' = [n \in NODES |-> Aged(ratchet[n])]
  /\ UNCHANGED <<stamp, heard>>

Next ==
  \/ tick
  \/ \E n \in NODES, s \in SESSIONS, c \in Counters :
       verify(n, s, c) \/ \E k \in 1 .. MAX_TICK : Send(n, s, c, k)

Spec == Init /\ [][Next]_vars

-----------------------------------------------------------------------------
(* Properties                                                              *)

\* Nothing of another session was accepted of n from the i-th message it had
\* accepted up to the j-th.
OneSession(n, i, j) == \A k \in i .. j : heard[n][k].session = heard[n][i].session

\* As long as no message of another session comes between them, the messages
\* of a session are accepted in the order they were signed and each at most
\* once, although the ratchet that remembers them is dropped after
\* ticks_to_live: none of them can still have a recent time hash then, so
\* there is no off-by-one between HashClock and RatchetPool
\* (simple_verifier.rs, new: "Make sure that we don't have an off-by-one
\* here"; server_loop.rs, handle_forward_mutations_update).  A message of
\* another session resets the ratchet (ratchet.rs, inner_update): after it,
\* messages of the earlier session are accepted a second time, as the test of
\* ratchet.rs expects ("Going back to session_id == 0u128").
AcceptedInOrder ==
  \A n \in NODES : \A i, j \in DOMAIN heard[n] :
    i < j /\ OneSession(n, i, j) => heard[n][i].counter < heard[n][j].counter
=============================================================================
