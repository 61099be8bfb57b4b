----------------------------- MODULE Channeler -----------------------------
(***************************************************************************)
(* The channeler (channeler/src/inner_loop.rs): it keeps one connection    *)
(* per friend and tells the funder who is online.  Of two friends the one  *)
(* with the smaller key listens: OUT_FRIENDS are sought with a connect     *)
(* pool each (ConnectPool), IN_FRIENDS come in through the listen pool     *)
(* (ListenPool).                                                           *)
(*                                                                         *)
(* friends[f] is the connection kept for f, 0 while f is Listening or      *)
(* Connecting.  A connection is "arriving" while its Connection event is   *)
(* not handled, "open" while its receiver task runs and "closing" when the *)
(* task has ended and its ReceiverClosed event is not handled; the event   *)
(* names the friend and not the connection.  Channels of capacity 0 hand   *)
(* an item over before send() returns, so the loop is busy until a pool    *)
(* has taken the configuration it was sent.                                *)
(***************************************************************************)
EXTENDS Naturals, Sequences, FiniteSets, SequencesExt, ConnectPool, ListenPool

CONSTANTS
  OUT_FRIENDS,        \* friends we connect to
  IN_FRIENDS,         \* friends that connect to us
  FRIEND_RELAYS,      \* relays the friends listen at
  LOCAL_RELAYS,       \* relays this node listens at
  MAX_CONNS,          \* bound: connections that exist at the same time
  MAX_POOLS,          \* bound: connect pools that exist at the same time
  MAX_REPORTS         \* bound: reports of attempts a pool has still to read

FRIENDS == OUT_FRIENDS \cup IN_FRIENDS
Conns == 1..MAX_CONNS
Pools == 1..MAX_POOLS

VARIABLES
  friends,    \* in_friends and out_friends
  pool_of,    \* the connect pool an out friend holds, 0 if none
  pools,      \* every connect pool whose loop has not returned
  conns,      \* every connection the channeler has got
  lp,         \* the listen pool
  relays_of,  \* the relays each out friend was last configured with
  unsettled,  \* was the out friend updated in a way that may end its pool?
  online,     \* did the last report of the friend say Online?
  loop        \* "running", or the error the loop returned

vars == <<friends, pool_of, pools, conns, lp, relays_of, unsettled, online, loop>>

NoConn == [friend |-> "", state |-> "none"]

Init ==
  /\ friends = <<>>
  /\ pool_of = [f \in OUT_FRIENDS |-> 0]
  /\ pools = [k \in Pools |-> CpNew]
  /\ conns = [c \in Conns |-> NoConn]
  /\ lp = LpNew
  /\ relays_of = [f \in OUT_FRIENDS |-> {}]
  /\ unsettled = [f \in OUT_FRIENDS |-> FALSE]
  /\ online = [f \in FRIENDS |-> FALSE]
  /\ loop = "running"

Ready == /\ loop = "running"
         /\ lp.configs = <<>>
         /\ \A k \in Pools : pools[k].configs = <<>>

\* Nothing is left of an earlier life of a friend.
Forgotten(f) == /\ \A c \in Conns : conns[c].friend # f
                /\ \A k \in Pools : pools[k].friend # f

Reports(p) == Len(p.done) + p.canceled + (IF p.running THEN 1 ELSE 0)
FreePools == {k \in Pools : pools[k].loop = "none"}
FreeConns == {c \in Conns : conns[c].state = "none"}

\* connect_out_friend: a task that asks the pool for a connection.
connect_out_friend(p) ==
  IF p.loop = "running" THEN [p EXCEPT !.requests = @ + 1] ELSE p

\* A Connected that is dropped drops its closer: the receiver task ends.
DropConn(cs, c) == IF c = 0 THEN cs ELSE [cs EXCEPT ![c].state = "closing"]

\* A friend that is new starts as Listening or Connecting.
try_create_friend(f) == IF f \in DOMAIN friends THEN friends ELSE (f :> 0) @@ friends

(***************************************************************************)
(* handle_from_funder                                                      *)
(***************************************************************************)
SetRelays(addresses) ==
  /\ Ready
  /\ lp' = WithConfig(lp, [op |-> "SetLocalAddresses", addresses |-> addresses])
  /\ UNCHANGED <<friends, pool_of, pools, conns, relays_of, unsettled, online, loop>>

\* The friend comes back while a pool or a connection of its earlier life is
\* still ending, or a relay is taken from its list.
Unsettles(f, addresses) ==
  IF f \notin DOMAIN friends THEN ~Forgotten(f)
  ELSE unsettled[f] \/ ~(relays_of[f] \subseteq addresses)

\* try_create_friend gives a new out friend a pool and the first request.
UpdateOutFriend(f, addresses) ==
  /\ Ready
  /\ IF f \in DOMAIN friends THEN Reports(pools[pool_of[f]]) < MAX_REPORTS
     ELSE FreePools # {}
  /\ unsettled' = [unsettled EXCEPT ![f] = Unsettles(f, addresses)]
  /\ LET new == f \notin DOMAIN friends
         k   == IF new THEN Min(FreePools) ELSE pool_of[f]
         p   == IF new THEN connect_out_friend(create_connect_pool(f)) ELSE pools[k]
     IN  /\ friends' = try_create_friend(f)
         /\ pool_of' = [pool_of EXCEPT ![f] = k]
         /\ IF p.loop = "running"
            THEN /\ pools' = [pools EXCEPT ![k] = [p EXCEPT !.configs = <<addresses>>]]
                 /\ relays_of' = [relays_of EXCEPT ![f] = addresses]
                 /\ loop' = loop
            ELSE /\ loop' = "ConnectorConfigError"
                 /\ UNCHANGED <<pools, relays_of>>
  /\ UNCHANGED <<conns, lp, online>>

UpdateInFriend(f, addresses) ==
  /\ Ready
  /\ friends' = try_create_friend(f)
  /\ lp' = WithConfig(lp, [op |-> "UpdateFriend", friend |-> f, addresses |-> addresses])
  /\ UNCHANGED <<pool_of, pools, conns, relays_of, unsettled, online, loop>>

RemoveFriend(f) ==
  /\ Ready
  /\ f \in DOMAIN friends
  /\ friends' = [g \in DOMAIN friends \ {f} |-> friends[g]]
  /\ conns' = DropConn(conns, friends[f])
  /\ IF f \in IN_FRIENDS
     THEN /\ lp' = WithConfig(lp, [op |-> "RemoveFriend", friend |-> f])
          /\ UNCHANGED <<pool_of, relays_of>>
     ELSE /\ pool_of' = [pool_of EXCEPT ![f] = 0]
          /\ relays_of' = [relays_of EXCEPT ![f] = {}]
          /\ lp' = lp
  /\ UNCHANGED <<pools, unsettled, online, loop>>

(***************************************************************************)
(* handle_connection, handle_friend_event                                  *)
(***************************************************************************)
handle_connection(c) ==
  LET f == conns[c].friend IN
  /\ Ready
  /\ conns[c].state = "arriving"
  /\ IF f \in DOMAIN friends /\ friends[f] = 0
     THEN /\ friends' = [friends EXCEPT ![f] = c]
          /\ conns' = [conns EXCEPT ![c].state = "open"]
          /\ online' = [online EXCEPT ![f] = TRUE]
     ELSE /\ conns' = [conns EXCEPT ![c] = NoConn]
          /\ UNCHANGED <<friends, online>>
  /\ UNCHANGED <<pool_of, pools, lp, relays_of, unsettled, loop>>

\* Mutant: Offline is reported only for a friend that is still known.
ReceiverClosed_KnownOnly(c) ==
  LET f == conns[c].friend IN
  /\ Ready
  /\ conns[c].state = "closing"
  /\ IF f \in DOMAIN friends
     THEN /\ friends' = [friends EXCEPT ![f] = 0]
          /\ online' = [online EXCEPT ![f] = FALSE]
     ELSE UNCHANGED <<friends, online>>
  /\ conns' = [conns EXCEPT ![c] = NoConn]
  /\ UNCHANGED <<pool_of, pools, lp, relays_of, unsettled, loop>>

\* ReceiverClosed: whatever connection the friend has is given up.
ReceiverClosed(c) ==
  LET f == conns[c].friend IN
  /\ Ready
  /\ conns[c].state = "closing"
  /\ online' = [online EXCEPT ![f] = FALSE]
  /\ IF f \in DOMAIN friends
     THEN /\ friends' = [friends EXCEPT ![f] = 0]
          /\ conns' = [DropConn(conns, friends[f]) EXCEPT ![c] = NoConn]
          /\ pools' = IF f \in IN_FRIENDS THEN pools
                      ELSE [pools EXCEPT ![pool_of[f]] = connect_out_friend(@)]
     ELSE /\ conns' = [conns EXCEPT ![c] = NoConn]
          /\ UNCHANGED <<friends, pools>>
  /\ UNCHANGED <<pool_of, lp, relays_of, unsettled, loop>>

\* The remote side, the relay or the keepalive closes an open connection.
ConnectionLost(c) ==
  /\ conns[c].state = "open"
  /\ conns' = [conns EXCEPT ![c].state = "closing"]
  /\ UNCHANGED <<friends, pool_of, pools, lp, relays_of, unsettled, online, loop>>

(***************************************************************************)
(* The tasks of the pools                                                  *)
(***************************************************************************)
Held(k) == \E f \in OUT_FRIENDS : pool_of[f] = k

\* An event of connect_pool_loop that changes nothing but the pool.
PoolStep(k, q) ==
  /\ pools[k].loop = "running"
  /\ pools' = [pools EXCEPT ![k] = q]
  /\ UNCHANGED <<friends, pool_of, conns, lp, relays_of, unsettled, online, loop>>

PoolRequest(k) == pools[k].requests > 0 /\ PoolStep(k, handle_connect_request(pools[k]))
PoolConfig(k) == /\ pools[k].configs # <<>>
                 /\ \E q \in handle_config_request(pools[k]) : PoolStep(k, q)
PoolReport(k) == /\ pools[k].done # <<>> /\ ~Answers(pools[k])
                 /\ PoolStep(k, handle_connect_attempt_done(pools[k]))
PoolAttempt(k) == \E q \in conn_attempt(pools[k]) : PoolStep(k, q)
PoolTick(k) == pools[k].status = "Waiting" /\ PoolStep(k, CpTick(pools[k]))

\* The connection is handed to the connect task, which sends it as an event.
\* A pool that was dropped may still be through before it sees it.
PoolAnswers(k) ==
  LET p == pools[k] IN
  /\ p.loop = "running" /\ p.done # <<>> /\ Answers(p)
  /\ FreeConns # {}
  /\ pools' = [pools EXCEPT ![k] = handle_connect_attempt_done(p)]
  /\ conns' = [conns EXCEPT ![Min(FreeConns)] = [friend |-> p.friend, state |-> "arriving"]]
  /\ UNCHANGED <<friends, pool_of, lp, relays_of, unsettled, online, loop>>

\* ConfigRequestClosed: the out friend that held the pool is gone.
PoolEnds(k) ==
  /\ pools[k].loop # "none" /\ ~Held(k)
  /\ pools' = [pools EXCEPT ![k] = CpNew]
  /\ UNCHANGED <<friends, pool_of, conns, lp, relays_of, unsettled, online, loop>>

\* An event of the listen pool or of one of its listeners.
LpStep(q) ==
  /\ lp' = q
  /\ UNCHANGED <<friends, pool_of, pools, conns, relays_of, unsettled, online, loop>>

LpConfig == lp.configs # <<>> /\ \E q \in handle_config(lp) : LpStep(q)
RelayClosed(i) == lp.listeners[i].state = "closed" /\ LpStep(handle_relay_closed(lp, i))
TimerTick == /\ \E a \in DOMAIN lp.relays : lp.relays[a].listener = 0
             /\ Cardinality(Due(lp)) <= Cardinality(Free(lp))
             /\ LpStep(LpTick(lp))
ListenerStarts(i) == \E q \in init_listener_conn(lp, i) : LpStep(q)
AccessControlOp(i) == /\ lp.listeners[i].state = "listening" /\ lp.listeners[i].ops # <<>>
                      /\ LpStep([lp EXCEPT !.listeners[i] = apply_op(@)])
\* The relay closed the connection, or the access control sender is gone.
ListenerEnds(i) == /\ lp.listeners[i].state = "listening"
                   /\ LpStep([lp EXCEPT !.listeners[i].state = "closed"])

\* A friend the listener's access control allows gets through.
accept_connection(i, f) ==
  /\ lp.listeners[i].state = "listening" /\ f \in lp.listeners[i].acl
  /\ FreeConns # {}
  /\ conns' = [conns EXCEPT ![Min(FreeConns)] = [friend |-> f, state |-> "arriving"]]
  /\ UNCHANGED <<friends, pool_of, pools, lp, relays_of, unsettled, online, loop>>

Next ==
  \/ \E as \in SUBSET LOCAL_RELAYS : SetRelays(as)
  \/ \E as \in SUBSET FRIEND_RELAYS, f \in OUT_FRIENDS : UpdateOutFriend(f, as)
  \/ \E as \in SUBSET LOCAL_RELAYS, f \in IN_FRIENDS : UpdateInFriend(f, as)
  \/ \E f \in FRIENDS : RemoveFriend(f)
  \/ \E c \in Conns : handle_connection(c) \/ ReceiverClosed(c) \/ ConnectionLost(c)
  \/ \E k \in Pools : \/ PoolRequest(k) \/ PoolConfig(k) \/ PoolReport(k) \/ PoolAttempt(k)
                      \/ PoolTick(k) \/ PoolAnswers(k) \/ PoolEnds(k)
  \/ LpConfig \/ TimerTick
  \/ \E i \in 1..MAX_LISTENERS : \/ RelayClosed(i) \/ ListenerStarts(i) \/ AccessControlOp(i)
                                \/ ListenerEnds(i)
                                \/ \E f \in IN_FRIENDS : accept_connection(i, f)

Spec == Init /\ [][Next]_vars

(***************************************************************************)
(* Fairness.  Every loop selects fairly among its streams (select_streams) *)
(* and every spawned task runs, so no event waits for ever: SF for the     *)
(* events of the channeler, which is busy now and then.  The timer ticks.  *)
(* Relays are reachable often enough that an attempt that is made again    *)
(* and again, and a listener that is started again and again, succeeds.    *)
(***************************************************************************)
Connects(k) == /\ pools[k].running
               /\ PoolStep(k, [pools[k] EXCEPT !.running = FALSE, !.done = Append(@, TRUE)])
Listens(i) == /\ lp.listeners[i].state = "starting" /\ HasSender(lp, i)
              /\ LpStep([lp EXCEPT !.listeners[i].state = "listening"])

Fairness ==
  /\ \A c \in Conns : SF_vars(handle_connection(c)) /\ SF_vars(ReceiverClosed(c))
  /\ \A k \in Pools : /\ WF_vars(PoolRequest(k)) /\ WF_vars(PoolConfig(k))
                       /\ WF_vars(PoolReport(k)) /\ WF_vars(PoolAttempt(k))
                       /\ WF_vars(PoolTick(k)) /\ WF_vars(PoolAnswers(k))
                       /\ WF_vars(PoolEnds(k)) /\ SF_vars(Connects(k))
  /\ WF_vars(LpConfig) /\ WF_vars(TimerTick)
  /\ \A i \in 1..MAX_LISTENERS :
       /\ WF_vars(RelayClosed(i)) /\ WF_vars(ListenerStarts(i)) /\ WF_vars(AccessControlOp(i))
       /\ WF_vars(~HasSender(lp, i) /\ ListenerEnds(i)) /\ SF_vars(Listens(i))

FairSpec == Spec /\ Fairness

(***************************************************************************)
(* Properties                                                              *)
(***************************************************************************)
ConnsOf(f, states) == {c \in Conns : conns[c].friend = f /\ conns[c].state \in states}

PoolLost(f) == pool_of[f] # 0 /\ pools[pool_of[f]].loop \notin {"none", "running"}

\* A friend with an open connection was reported Online, and a friend last
\* reported Online has a connection whose end is still to be reported, even
\* when ReceiverClosed of an older connection closes a newer one
\* (handle_connection, handle_friend_event).
LivenessIsReported ==
  \A f \in FRIENDS : /\ ConnsOf(f, {"open"}) # {} => online[f]
                     /\ online[f] => ConnsOf(f, {"open", "closing"}) # {}

\* A relay that counts as connected has a listener of its own, or one whose
\* end is about to be read, and what this listener allows, once it has seen
\* the operations on their way, is the set of friends of the relay
\* (ListenPoolState, spawn_listen, handle_relay_closed).
AccessControlFollows ==
  \A a \in DOMAIN lp.relays :
    LET i == lp.relays[a].listener
        l == lp.listeners[i]
    IN  i # 0 => /\ l.state # "none" /\ l.address = a
                 /\ l.state # "closed" =>
                      FoldLeft(LAMBDA m, op : apply_op([m EXCEPT !.ops = <<op>>]),
                               l, l.ops).acl = lp.relays[a].friends

\* An out friend with a known relay that is not removed is connected again
\* and again, whatever connection is lost (connect_pool_loop and the events of
\* the channeler together), unless a pool is lost: handle_connect_request
\* returns MultipleConnectRequests, handle_connect_attempt_done meets
\* unreachable!().  A pool ends so only for a friend that came back before its
\* earlier life had ended or that lost a relay, and nothing replaces it.
OutFriendsConnect ==
  \A f \in OUT_FRIENDS :
    <>[](f \in DOMAIN friends /\ relays_of[f] # {})
      => \/ []<>(f \in DOMAIN friends /\ friends[f] # 0)
         \/ <>[](\E g \in OUT_FRIENDS : PoolLost(g) /\ unsettled[g])

\* A relay the listen pool keeps is listened at again and again, although
\* RelayClosed of an earlier listener may end a later one (handle_relay_closed,
\* handle_timer_tick).
ListenersReturn ==
  \A a \in LOCAL_RELAYS :
    <>[](a \in DOMAIN lp.relays)
      => []<>(\E i \in 1..MAX_LISTENERS : /\ lp.listeners[i].state = "listening"
                                         /\ lp.listeners[i].address = a)
=============================================================================
