----------------------------- MODULE ListenPool -----------------------------
(***************************************************************************)
(* The listen pool (channeler/src/listen_pool.rs, listen_pool_state.rs)    *)
(* and the relay listeners it starts (relay/src/client/client_listener.rs) *)
(* on behalf of the friends that connect to this node.                     *)
(*                                                                         *)
(* A pool is a record.  relays[a].listener is the listener whose access    *)
(* control sender the relay holds (RelayStatus::Connected), or 0 when the  *)
(* relay waits `ticks` ticks.  A listener that no relay points to has lost *)
(* its sender and ends by itself.  A listener is "starting" until it is    *)
(* connected to its relay, and "closed" from its end until the pool reads  *)
(* RelayClosed, which names only the address.                              *)
(***************************************************************************)
EXTENDS Naturals, Sequences, SequencesExt, ConnectPool

CONSTANT MAX_LISTENERS     \* bound: listeners that exist at the same time

NoListener == [state |-> "none", address |-> "", acl |-> {}, ops |-> <<>>]

LpNew == [relays |-> <<>>, local_addresses |-> {},
          listeners |-> [i \in 1..MAX_LISTENERS |-> NoListener], configs |-> <<>>]

Free(lp) == {i \in 1..MAX_LISTENERS : lp.listeners[i].state = "none"}
Friends(lp) == UNION {lp.relays[a].friends : a \in DOMAIN lp.relays}
WithConfig(lp, c) == [lp EXCEPT !.configs = Append(@, c)]

\* spawn_listen: a new listener starts with the friends of its relay.
spawn_listen(lp, address, friends) ==
  LET i == Min(Free(lp))
  IN  [lp EXCEPT
        !.relays = (address :> [friends |-> friends, listener |-> i, ticks |-> 0]) @@ @,
        !.listeners[i] = [state |-> "starting", address |-> address,
                          acl |-> friends, ops |-> <<>>]]

SpawnAll(lp, addresses, friends) ==
  FoldLeft(LAMBDA l, a : spawn_listen(l, a, friends), lp, SetToSeq(addresses))

\* An access control operation for the listener of a relay, if it is kept.
SendOp(lp, address, op) ==
  IF address \notin DOMAIN lp.relays THEN lp
  ELSE LET i == lp.relays[address].listener
       IN  IF i = 0 \/ lp.listeners[i].state # "listening" THEN lp
           ELSE [lp EXCEPT !.listeners[i].ops = Append(@, op)]

SendOps(lp, addresses, op) ==
  FoldLeft(LAMBDA l, a : SendOp(l, a, op), lp, SetToSeq(addresses))

Keep(lp, addresses) == [lp EXCEPT !.relays = [a \in addresses |-> lp.relays[a]]]

\* SetLocalAddresses: forget relays nobody needs, listen at the new ones.
set_local_addresses(lp0, addresses) ==
  LET kept == {a \in DOMAIN lp0.relays :
                 lp0.relays[a].friends # {} \/ a \in addresses}
      lp   == [Keep(lp0, kept) EXCEPT !.local_addresses = addresses]
  IN  [new |-> addresses \ kept, lp |-> SpawnAll(lp, addresses \ kept, Friends(lp))]

\* UpdateFriend: the friend belongs to its own addresses and to the local ones.
update_friend(lp0, f, addresses) ==
  LET want  == addresses \cup lp0.local_addresses
      has   == DOMAIN lp0.relays
      add   == {a \in want \cap has : f \notin lp0.relays[a].friends}
      drop  == {a \in has \ want : f \in lp0.relays[a].friends}
      rel   == [a \in has |-> [lp0.relays[a] EXCEPT
                  !.friends = IF a \in want THEN @ \cup {f} ELSE @ \ {f}]]
      lp    == Keep([lp0 EXCEPT !.relays = rel],
                    {a \in has : a \in want \/ rel[a].friends # {}})
      sent  == SendOps(SendOps(lp, add, <<"Add", f>>), drop, <<"Remove", f>>)
  IN  [new |-> want \ has, ops |-> (add \cup drop) \cap DOMAIN lp.relays,
       lp |-> SpawnAll(sent, want \ has, {f})]

\* Mutant: the listeners are not told that the friend is removed.
remove_friend_Silent(lp0, f) ==
  LET has == DOMAIN lp0.relays
      rel == [a \in has |-> [lp0.relays[a] EXCEPT !.friends = @ \ {f}]]
  IN  [ops |-> {}, lp |-> Keep([lp0 EXCEPT !.relays = rel],
                   {a \in has : rel[a].friends # {} \/ a \in lp0.local_addresses})]

remove_friend(lp0, f) ==
  LET has  == DOMAIN lp0.relays
      drop == {a \in has : f \in lp0.relays[a].friends}
      rel  == [a \in has |-> [lp0.relays[a] EXCEPT !.friends = @ \ {f}]]
      lp   == Keep([lp0 EXCEPT !.relays = rel],
                   {a \in has : rel[a].friends # {} \/ a \in lp0.local_addresses})
  IN  [ops |-> drop \cap DOMAIN lp.relays, lp |-> SendOps(lp, drop, <<"Remove", f>>)]

\* The forwarding task holds one operation and the listener's channel one
\* more; a third, or the first one for a listener that is still starting,
\* blocks the pool, and one for a listener that has ended fails at once.  The
\* configuration is handled when none would block.
OPS_IN_TRANSIT == 2
NoneBlocks(lp, addresses) ==
  \A a \in addresses \cap DOMAIN lp.relays : lp.relays[a].listener # 0 =>
    LET l == lp.listeners[lp.relays[a].listener]
    IN  l.state # "starting" /\ (l.state = "listening" => Len(l.ops) < OPS_IN_TRANSIT)

\* handle_config of the first configuration: the possible results, none when
\* the pool is blocked or the bound on listeners is reached.
handle_config(lp0) ==
  LET c  == Head(lp0.configs)
      lp == [lp0 EXCEPT !.configs = Tail(@)]
      room(addresses) == Cardinality(addresses) <= Cardinality(Free(lp))
  IN  CASE c.op = "SetLocalAddresses" ->
             LET new == {a \in c.addresses : a \notin DOMAIN lp.relays}
             IN  IF room(new) THEN {set_local_addresses(lp, c.addresses).lp} ELSE {}
        [] c.op = "UpdateFriend" ->
             LET new == (c.addresses \cup lp.local_addresses) \ DOMAIN lp.relays
             IN  IF ~room(new) THEN {}
                 ELSE LET r == update_friend(lp, c.friend, c.addresses)
                      IN  IF NoneBlocks(lp, r.ops) THEN {r.lp} ELSE {}
        [] c.op = "RemoveFriend" ->
             LET r == remove_friend(lp, c.friend)
             IN  IF NoneBlocks(lp, r.ops) THEN {r.lp} ELSE {}

\* RelayClosed of listener i, known to the pool by its address only.
handle_relay_closed(lp0, i) ==
  LET a  == lp0.listeners[i].address
      lp == [lp0 EXCEPT !.listeners[i] = NoListener]
  IN  IF a \notin DOMAIN lp.relays THEN lp
      ELSE [lp EXCEPT !.relays[a].listener = 0, !.relays[a].ticks = BACKOFF_TICKS]

\* The relays that listen again after this tick.
Due(lp) == {a \in DOMAIN lp.relays : lp.relays[a].listener = 0 /\ lp.relays[a].ticks <= 1}

\* Mutant: a relay whose wait is over is not listened at again.
LpTick_CountsOnly(lp0) ==
  [lp0 EXCEPT !.relays = [a \in DOMAIN lp0.relays |->
     [lp0.relays[a] EXCEPT !.ticks = IF @ > 0 THEN @ - 1 ELSE 0]]]

LpTick(lp0) ==
  LET lp == [lp0 EXCEPT !.relays = [a \in DOMAIN lp0.relays |->
               [lp0.relays[a] EXCEPT !.ticks = IF @ > 0 THEN @ - 1 ELSE 0]]]
  IN  FoldLeft(LAMBDA l, a : spawn_listen(l, a, l.relays[a].friends),
               lp, SetToSeq(Due(lp0)))

HasSender(lp, i) == \E a \in DOMAIN lp.relays : lp.relays[a].listener = i

\* init_listener_conn: the relay is reached and told Listen, or not.
init_listener_conn(lp, i) ==
  { [lp EXCEPT !.listeners[i].state = s] :
      s \in IF lp.listeners[i].state = "starting" THEN {"listening", "closed"} ELSE {} }

\* inner_client_listener applies an operation, or ends: the relay closed the
\* connection, or the access control sender is gone.
apply_op(l) ==
  [l EXCEPT !.ops = Tail(@),
            !.acl = IF Head(l.ops)[1] = "Add" THEN @ \cup {Head(l.ops)[2]}
                    ELSE @ \ {Head(l.ops)[2]}]
=============================================================================
