----------------------------- MODULE IndexFeed -----------------------------
(***************************************************************************)
(* Nodes feed the graphs of an index server (index_client/src/             *)
(* index_client.rs and seq_map.rs, index_server/src/server_loop.rs         *)
(* handle_forward_mutations_update, graph/graph_service.rs).  Every        *)
(* message of a node holds the mutations there are and the state of the    *)
(* next friend in turn; it ages all edges of the node in every graph.      *)
(***************************************************************************)
EXTENDS CapacityGraph, SeqMap, TLC

CONSTANTS
  FED,          \* the nodes
  ROUNDS,       \* what each node has: per node a sequence of <<friend, currency>>
  CAPS,         \* capacities, without 0
  PROMPT,       \* nodes that tell only the state of the next friend
  EXPIRING      \* nodes that may fall silent and be removed

VARIABLES
  feed,      \* seq_friends of each node
  graphs,    \* capacity_graphs: per currency that has one
  told,      \* per node: of the pairs it told the server and did not take back
             \* [cap, kept]: the capacity it told last, and that no node was
             \* removed from the graphs since (no code reads it)
  server     \* "running" or "ended"

vars == <<feed, graphs, told, server>>

Pairs(n) == {ROUNDS[n][i] : i \in DOMAIN ROUNDS[n]}

InitAt(at) ==
  /\ feed = [n \in FED |-> SmNew(ROUNDS[n], [p \in Pairs(n) |-> Min(CAPS)])]
  /\ graphs = <<>>
  /\ told = [n \in FED |-> <<>>]
  /\ server = at
Init == InitAt("running")

\* process_request on all graphs; the graph of a currency is made when it is
\* first needed.
With(gs, c, g) == [x \in DOMAIN gs \cup {c} |-> IF x = c THEN g ELSE gs[x]]
GraphOf(gs, c) == IF c \in DOMAIN gs THEN gs[c] ELSE NewGraph
UpdateEdge(gs, n, p, cap) == With(gs, p[2], update_edge(GraphOf(gs, p[2]), n, p[1], cap))
RemoveEdge(gs, n, p) == With(gs, p[2], remove_edge(gs[p[2]], n, p[1]))
Tick(gs, n) == [c \in DOMAIN gs |-> GraphTick(gs[c], n)]

\* retain() keeps the graphs for which remove_node returns TRUE: the empty ones.
RemoveNode(gs, n) ==
  [c \in {x \in DOMAIN gs : IsEmptyGraph(remove_node(gs[x], n))} |-> remove_node(gs[c], n)]

\* The next friend's state, appended to every message.
NextUpdate(n, m, gs) ==
  IF m.queue = <<>> THEN gs ELSE UpdateEdge(gs, n, Head(m.queue), m.map[Head(m.queue)])
Rotated(m) == IF m.queue = <<>> THEN m ELSE SmNext(m)
Told(n, m, more) ==
  LET new == more \cup IF m.queue = <<>> THEN {} ELSE {Head(m.queue)}
  IN  told' = [told EXCEPT ![n] = [p \in (DOMAIN @ \cup new) \cap DOMAIN m.map |->
                 IF p \in new THEN [cap |-> m.map[p], kept |-> TRUE] ELSE @[p]]]

\* A keepalive, or a message of send_full_state.
KeepAliveUpdate(n) ==
  /\ server = "running"
  /\ graphs' = NextUpdate(n, feed[n], Tick(graphs, n))
  /\ feed' = [feed EXCEPT ![n] = Rotated(@)]
  /\ Told(n, feed[n], {})
  /\ UNCHANGED server

\* A friend's capacity changes.
Update(n, p, cap) ==
  LET m == SmUpdate(feed[n], p, cap)
  IN  /\ server = "running"
      /\ p \in DOMAIN feed[n].map => feed[n].map[p] # cap
      /\ graphs' = NextUpdate(n, m, UpdateEdge(Tick(graphs, n), n, p, cap))
      /\ feed' = [feed EXCEPT ![n] = Rotated(m)]
      /\ Told(n, m, {p})
      /\ UNCHANGED server

\* A friend's currency is removed.  The server loop ends with the error of the
\* graph client if there is no graph of that currency, for then nobody answers.
Remove(n, p) ==
  LET m  == SmRemove(feed[n], p)
      gs == Tick(graphs, n)
  IN  /\ server = "running" /\ p \in DOMAIN feed[n].map
      /\ IF p[2] \in DOMAIN gs
         THEN graphs' = NextUpdate(n, m, RemoveEdge(gs, n, p)) /\ UNCHANGED server
         ELSE graphs' = gs /\ server' = "ended"
      /\ feed' = [feed EXCEPT ![n] = Rotated(m)]
      /\ Told(n, m, {})

\* handle_timer_tick: the verifier has not heard of the node for too long.
Expire(n) ==
  /\ server = "running" /\ n \in EXPIRING
  /\ graphs' = RemoveNode(graphs, n)
  /\ told' = [x \in FED |-> IF x = n THEN <<>>
                            ELSE [p \in DOMAIN told[x] |-> [told[x][p] EXCEPT !.kept = FALSE]]]
  /\ UNCHANGED <<feed, server>>

Changes(n) ==
  \/ \E p \in Pairs(n), cap \in CAPS : Update(n, p, cap)
  \/ \E p \in Pairs(n) : Remove(n, p)

Next == \E n \in FED : KeepAliveUpdate(n) \/ (n \notin PROMPT /\ Changes(n)) \/ Expire(n)

Spec == Init /\ [][Next]_vars

-----------------------------------------------------------------------------
(* Properties                                                              *)

\* The node comes round to each of its pairs in time: it has no more pairs than
\* an edge may see messages (19 in the code), or they are all of one currency.
\* A message tells of one pair of any currency and ages the edges in every
\* graph, but max_edge_age counts the edges of one graph.
ComesRound(n) ==
  \/ Cardinality(Pairs(n)) <= max_edge_age(1)
  \/ \A p, q \in Pairs(n) : p[2] = q[2]

\* What such a node told and did not take back stays in the graph, with the
\* capacity it told last, through any updates, removals and rotations: the next
\* message about a pair comes before its edge is too old
\* (simple_capacity_graph.rs, max_edge_age: "after about `N` messages a complete
\* cycle will be completed").  What was told before another node was removed is
\* excepted, RemoveNode drops it.
LiveEdgesStay ==
  server = "running" => \A n \in FED : ComesRound(n) =>
    \A p \in DOMAIN told[n] : told[n][p].kept =>
      /\ p[2] \in DOMAIN graphs /\ HasEdge(graphs[p[2]], n, p[1])
      /\ graphs[p[2]][n][p[1]].cap = told[n][p].cap

\* Removing a node removes the edges that start from it and no others
\* (graph_service.rs, GraphRequest::RemoveNode: "Remove a node and all edges
\* starting from this node.").
KeepsOtherEdges ==
  \A n \in FED : Expire(n) => \A c \in DOMAIN graphs : \A x \in DOMAIN graphs[c] \ {n} :
    c \in DOMAIN graphs' /\ x \in DOMAIN graphs'[c]
OnlyItsEdgesGo == [][KeepsOtherEdges]_vars

\* The reference: nodes that can be reached by hops that carry the capacity.
RECURSIVE Reach(_, _, _, _)
Reach(g, cap, ex, set) ==
  LET more == set \cup UNION {{b \in FED : get_send_capacity(g, a, b) >= cap /\ <<a, b>> # ex} : a \in set}
  IN  IF more = set THEN set ELSE Reach(g, cap, ex, more)

\* A search finds a route exactly when there is one; the route visits no node
\* twice, does not use the excluded edge and can carry the capacity that was
\* asked for and the one that is reported, in the graphs as they are after any
\* history of updates, removals and expired edges (simple_capacity_graph.rs,
\* get_multi_route and its unwrap(); bfs.rs).  Rates are not modelled: a route
\* whose rates add up to more than fits is not offered either.
RoutesAreSound ==
  \A c \in DOMAIN graphs : LET g == graphs[c] IN
  \A a, b \in FED, cap \in CAPS, ex \in {e \in FED \X FED : e[1] # e[2]} \cup {<<>>} : a # b =>
    LET r == bfs(g, a, b, cap, ex)
    IN  /\ (r # <<>>) = (b \in Reach(g, cap, ex, {a}))
        /\ r # <<>> =>
             /\ r[1] = a /\ r[Len(r)] = b
             /\ \A i, j \in 1 .. Len(r) : r[i] = r[j] => i = j
             /\ \A i \in 1 .. Len(r) - 1 : <<r[i], r[i + 1]>> # ex
             /\ get_route_capacity(g, r) >= cap
=============================================================================
