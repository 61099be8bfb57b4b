--------------------------- MODULE CompactServer ---------------------------
(***************************************************************************)
(* The compact server (stcompact/src/server_loop.rs): it creates, removes, *)
(* enables and disables the nodes of a user, opens the enabled ones, goes  *)
(* on trying to reach the remote ones and passes requests on to them.      *)
(***************************************************************************)
EXTENDS FileStore, Sequences, SequencesExt, FiniteSets

CONSTANTS
  LOCALS, REMOTES,     \* names of nodes that are created as local, as remote
  TICKS_TO_CONNECT,
  IDS,                 \* bound: node identifiers 1 .. IDS
  REQS,                \* bound: requests of the user to a node
  QUEUE,               \* room for events: a task with one more waits
  MAX_DOWN             \* bound: ends of the process

VARIABLES
  srv,        \* the server: "off", "down", "running", "broken", "panicked"
  store,
  pre_open,   \* pre_open_nodes: name -> ticks, Connecting or Reported
  open,       \* open_nodes: id -> [name, alive, pending]
  next_id,
  events,     \* what the tasks have sent to the loop
  acks,       \* per request: "new", "sent", "acked"
  downs

vars == <<srv, store, pre_open, open, next_id, events, acks, downs>>

NAMES == LOCALS \cup REMOTES

\* An attempt is under way; its result is in the queue.
Connecting == 100
Reported == 101

InitAt(at) ==
  /\ srv = at
  /\ store = NewStore
  /\ pre_open = <<>> /\ open = <<>> /\ next_id = 1 /\ events = <<>>
  /\ acks = [r \in REQS |-> "new"] /\ downs = 0
Init == InitAt("down")

With(f, x, v) == [y \in DOMAIN f \cup {x} |-> IF y = x THEN v ELSE f[y]]
Without(f, X) == [y \in DOMAIN f \ X |-> f[y]]
OpenAs(name) == {id \in DOMAIN open : open[id].name = name}
NewNode(name) == [name |-> name, alive |-> TRUE, pending |-> {}]

\* The redirecting task of a node that is dropped tells of its end.
Closings(X) == [k \in 1 .. Cardinality(X) |-> [kind |-> "closed", id |-> SetToSeq(X)[k]]]

Acked(X) == [r \in REQS |-> IF r \in X THEN "acked" ELSE acks[r]]

open_node_local(name) ==
  /\ next_id <= IDS
  /\ open' = With(open, next_id, NewNode(name)) /\ next_id' = next_id + 1
  /\ UNCHANGED pre_open

\* Local nodes are opened at once; for remote ones an attempt is scheduled.
Opens(name) ==
  IF store.nodes[name].kind = "local" THEN open_node_local(name)
  ELSE pre_open' = With(pre_open, name, 0) /\ UNCHANGED <<open, next_id>>

-----------------------------------------------------------------------------
(* The process                                                             *)

\* open_file_store, open_enabled_nodes.
Start ==
  LET enabled == {n \in DOMAIN store.nodes : store.nodes[n].enabled}
      locals  == SetToSeq({n \in enabled : store.nodes[n].kind = "local"})
  IN
  /\ srv = "down"
  /\ IF ~Readable(store)
     THEN srv' = "broken" /\ UNCHANGED <<store, pre_open, open, next_id>>
     ELSE /\ srv' = "running"
          /\ Len(locals) <= IDS
          /\ store' = [store EXCEPT !.live = enabled]
          /\ pre_open' = [n \in {m \in enabled : store.nodes[m].kind = "remote"} |-> 0]
          /\ open' = [k \in DOMAIN locals |-> NewNode(locals[k])]
          /\ next_id' = Len(locals) + 1
  /\ UNCHANGED <<events, acks, downs>>

\* The user leaves, the timer ends, an error is fatal, the process is killed.
Ends(s) ==
  /\ downs < MAX_DOWN /\ downs' = downs + 1
  /\ srv' = "down" /\ store' = s
  /\ pre_open' = <<>> /\ open' = <<>> /\ next_id' = 1 /\ events' = <<>>
  /\ acks' = [r \in REQS |-> "new"]
Stop == srv = "running" /\ Ends(Closed(store))

\* It is killed while the files of a node are written.
Tears(name) == Ends(Torn(store, name))

-----------------------------------------------------------------------------
(* handle_user_to_server                                                   *)

handle_create_node_local(name) == create_local_node(store, name)
handle_create_node_remote(name) == create_remote_node(store, name)

handle_create_node(name) ==
  /\ srv = "running" /\ ~is_node_exists(store, name)
  /\ \/ /\ store' = IF name \in LOCALS THEN handle_create_node_local(name)
                    ELSE handle_create_node_remote(name)
        /\ UNCHANGED <<srv, pre_open, open, next_id, events, acks, downs>>
     \/ Tears(name)

handle_remove_node(name) ==
  /\ srv = "running" /\ is_node_exists(store, name) /\ ~is_node_enabled(store, name)
  /\ store' = remove_node(store, name)
  /\ UNCHANGED <<srv, pre_open, open, next_id, events, acks, downs>>

handle_enable_node(name) ==
  /\ srv = "running" /\ is_node_exists(store, name) /\ ~is_node_enabled(store, name)
  /\ \/ /\ LET s == config_node(store, name, TRUE) IN
           IF CanLoad(s, name)
           THEN store' = load_node(s, name) /\ Opens(name)
           ELSE store' = s /\ UNCHANGED <<pre_open, open, next_id>>
        /\ UNCHANGED <<srv, events, acks, downs>>
     \/ Tears(name)

\* "If there is a scheduled task to connect to the node, remove it"
DropScheduled(name) == Without(pre_open, {name})

\* Requests that are pending are forgotten.
handle_disable_node(name) ==
  /\ srv = "running" /\ is_node_enabled(store, name)
  /\ \/ /\ store' = config_node(unload_node(store, name), name, FALSE)
        /\ pre_open' = DropScheduled(name)
        /\ open' = Without(open, OpenAs(name))
        /\ events' = events \o Closings({id \in OpenAs(name) : open[id].alive})
        /\ UNCHANGED <<srv, next_id, acks, downs>>
     \/ Tears(name)

Reschedules(name) == store.nodes[name].kind = "remote"

\* What is pending is acked.  The node is loaded again; a local one is unloaded.
close_node_and_notify_user(id, more) ==
  IF id \notin DOMAIN open
  THEN acks' = Acked(more) /\ UNCHANGED <<store, pre_open, open>>
  ELSE LET name == open[id].name IN
       /\ open' = Without(open, {id})
       /\ acks' = Acked(open[id].pending \cup more)
       /\ IF Reschedules(name)
          THEN pre_open' = With(pre_open, name, 0) /\ store' = load_node(unload_node(store, name), name)
          ELSE store' = unload_node(store, name) /\ UNCHANGED pre_open

\* UserToServer::Node, the identifier being one the user was given.
ToNode(id, r) ==
  /\ srv = "running" /\ acks[r] = "new" /\ id < next_id
  /\ IF id \in DOMAIN open /\ open[id].alive
     THEN /\ open' = [open EXCEPT ![id].pending = @ \cup {r}]
          /\ acks' = [acks EXCEPT ![r] = "sent"]
          /\ UNCHANGED <<store, pre_open>>
     ELSE close_node_and_notify_user(id, {r})
  /\ UNCHANGED <<srv, next_id, events, downs>>

-----------------------------------------------------------------------------
(* The tasks                                                               *)

\* open_node_remote succeeds or fails.  If it is dropped before, it says nothing.
AttemptEnds(name, ok) ==
  /\ srv = "running" /\ Len(events) < QUEUE
  /\ name \in DOMAIN pre_open /\ pre_open[name] = Connecting
  /\ pre_open' = [pre_open EXCEPT ![name] = Reported]
  /\ events' = Append(events, [kind |-> "connected", name |-> name, ok |-> ok])
  /\ UNCHANGED <<srv, store, open, next_id, acks, downs>>

\* The compact node acks a request it was sent.
CompactAcks(id, r) ==
  /\ srv = "running" /\ Len(events) < QUEUE
  /\ id \in DOMAIN open /\ open[id].alive /\ r \in open[id].pending
  /\ \A k \in DOMAIN events : events[k] # [kind |-> "ack", id |-> id, req |-> r]
  /\ events' = Append(events, [kind |-> "ack", id |-> id, req |-> r])
  /\ UNCHANGED <<srv, store, pre_open, open, next_id, acks, downs>>

CompactEnds(id) ==
  /\ srv = "running" /\ Len(events) < QUEUE
  /\ id \in DOMAIN open /\ open[id].alive
  /\ open' = [open EXCEPT ![id].alive = FALSE]
  /\ events' = Append(events, [kind |-> "closed", id |-> id])
  /\ UNCHANGED <<srv, store, pre_open, next_id, acks, downs>>

-----------------------------------------------------------------------------
(* The loop                                                                *)

Scheduled(name) == name \in DOMAIN pre_open

\* Mutant: the node is opened and goes on being looked for.
FoundNode_Kept(name) == With(pre_open, name, 0)

FoundNode(name) == Without(pre_open, {name})

handle_node_connected(name, ok) ==
  IF ~Scheduled(name) THEN UNCHANGED <<pre_open, open, next_id>>
  ELSE IF ok
  THEN /\ pre_open' = FoundNode(name)
       /\ next_id <= IDS /\ next_id' = next_id + 1
       /\ open' = With(open, next_id, NewNode(name))
  ELSE /\ pre_open' = With(pre_open, name, TICKS_TO_CONNECT)
       /\ UNCHANGED <<open, next_id>>

\* assert!(res): a request that is acked was pending.
Ack(id, r) ==
  /\ IF id \in DOMAIN open
     THEN /\ open' = [open EXCEPT ![id].pending = @ \ {r}]
          /\ srv' = IF r \in open[id].pending THEN srv ELSE "panicked"
     ELSE UNCHANGED <<open, srv>>
  /\ acks' = Acked({r})

HandleEvent ==
  /\ srv = "running" /\ events # <<>>
  /\ events' = Tail(events) /\ UNCHANGED downs
  /\ LET e == Head(events) IN
     CASE e.kind = "connected" ->
            handle_node_connected(e.name, e.ok) /\ UNCHANGED <<srv, store, acks>>
       [] e.kind = "closed" ->
            close_node_and_notify_user(e.id, {}) /\ UNCHANGED <<srv, next_id>>
       [] e.kind = "ack" -> Ack(e.id, e.req) /\ UNCHANGED <<store, pre_open, next_id>>

\* Mutant: the last tick does not start an attempt.
Ticked_CountsOnly(t) == IF t >= Connecting \/ t = 0 THEN t ELSE t - 1

Ticked(t) == IF t >= Connecting THEN t ELSE IF t <= 1 THEN Connecting ELSE t - 1

handle_timer_tick ==
  /\ srv = "running" /\ \E n \in DOMAIN pre_open : pre_open[n] < Connecting
  /\ pre_open' = [n \in DOMAIN pre_open |-> Ticked(pre_open[n])]
  /\ UNCHANGED <<srv, store, open, next_id, events, acks, downs>>

handle_user_to_server ==
  \/ \E n \in NAMES : \/ handle_create_node(n) \/ handle_remove_node(n)
                      \/ handle_enable_node(n) \/ handle_disable_node(n)
  \/ \E id \in 1 .. IDS, r \in REQS : ToNode(id, r)

Next ==
  \/ Start \/ Stop \/ HandleEvent \/ handle_timer_tick \/ handle_user_to_server
  \/ \E n \in NAMES, ok \in BOOLEAN : AttemptEnds(n, ok)
  \/ \E id \in 1 .. IDS : CompactEnds(id) \/ \E r \in REQS : CompactAcks(id, r)

Spec == Init /\ [][Next]_vars
\* The three streams are served in turn (select_streams); a remote node that is
\* tried again and again answers in the end; a node of this process is started
\* again when it is down.
Fairness ==
  /\ WF_vars(Start) /\ SF_vars(HandleEvent) /\ SF_vars(handle_timer_tick)
  /\ \A n \in REMOTES : WF_vars(\E ok \in BOOLEAN : AttemptEnds(n, ok)) /\ SF_vars(AttemptEnds(n, TRUE))
FairSpec == Spec /\ Fairness

-----------------------------------------------------------------------------
(* Properties                                                              *)

\* A node is open at most once and is not both open and looked for, also when
\* it is disabled and enabled again while the result of an attempt is in the
\* queue: two compact nodes on one database would overwrite each other
\* (server_loop.rs, handle_node_connected, handle_disable_node).
OpenOnce ==
  srv = "running" =>
    \A n \in NAMES :
      /\ Cardinality(OpenAs(n)) <= 1
      /\ n \in DOMAIN pre_open => OpenAs(n) = {}

\* A remote node that is enabled is opened, if the server goes on and it is not
\* disabled meanwhile (server_loop.rs, handle_timer_tick).
EnabledIsOpened ==
  \A n \in REMOTES :
    (srv = "running" /\ is_node_enabled(store, n))
      ~> (srv # "running" \/ ~is_node_enabled(store, n) \/ OpenAs(n) # {} \/ next_id > IDS)
=============================================================================
