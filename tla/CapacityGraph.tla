--------------------------- MODULE CapacityGraph ---------------------------
(***************************************************************************)
(* The graph an index server keeps per currency (index_server/src/graph/   *)
(* simple_capacity_graph.rs, bfs.rs).  A graph is a function from nodes to *)
(* their edges; the edges of a node are a function from neighbours to      *)
(* [cap, age].  Rates are left out, they do not steer the search.          *)
(***************************************************************************)
EXTENDS Integers, Sequences, FiniteSets, FiniteSetsExt

CONSTANTS
  BASE_MAX_EDGE_AGE,   \* 16
  AGE_PER_EDGE         \* the factor 3 of max_edge_age

NewGraph == <<>>

update_edge(g, a, b, cap) ==
  LET edges == IF a \in DOMAIN g THEN g[a] ELSE <<>>
      more  == [x \in DOMAIN edges \cup {b} |-> IF x = b THEN [cap |-> cap, age |-> 0] ELSE edges[x]]
  IN  [x \in DOMAIN g \cup {a} |-> IF x = a THEN more ELSE g[x]]

Less(f, x) == [y \in DOMAIN f \ {x} |-> f[y]]

remove_edge(g, a, b) ==
  IF a \notin DOMAIN g THEN g
  ELSE IF DOMAIN g[a] = {b} THEN Less(g, a)
  ELSE [g EXCEPT ![a] = Less(@, b)]

\* remove_node also tells whether the graph is empty now.
remove_node(g, a) == Less(g, a)
IsEmptyGraph(g) == DOMAIN g = {}

\* Mutant: an edge lives for a fixed number of ticks.
max_edge_age_Fixed(num) == BASE_MAX_EDGE_AGE

max_edge_age(num) == BASE_MAX_EDGE_AGE + AGE_PER_EDGE * num

\* A tick of node a: it grows older by one with every message of a.
GraphTick(g, a) ==
  IF a \notin DOMAIN g THEN g
  ELSE LET limit == max_edge_age(Cardinality(DOMAIN g[a]))
           young == {b \in DOMAIN g[a] : g[a][b].age + 1 < limit}
       IN  [g EXCEPT ![a] = [b \in young |-> [cap |-> @[b].cap, age |-> @[b].age + 1]]]

HasEdge(g, a, b) == a \in DOMAIN g /\ b \in DOMAIN g[a]

\* What a can send to b is what b says it can receive.
get_send_capacity(g, a, b) ==
  IF HasEdge(g, a, b) /\ HasEdge(g, b, a) THEN g[b][a].cap ELSE 0

\* Mutant: what a can send to b is what a says of b.
neighbors_OwnWord(g, a, cap, ex) ==
  {b \in IF a \in DOMAIN g THEN DOMAIN g[a] ELSE {} :
     HasEdge(g, b, a) /\ g[a][b].cap >= cap /\ <<a, b>> # ex}

\* The neighbours the search goes to from a.
neighbors(g, a, cap, ex) ==
  {b \in IF a \in DOMAIN g THEN DOMAIN g[a] ELSE {} :
     get_send_capacity(g, a, b) >= cap /\ <<a, b>> # ex}

\* The state of bfs_loop: `queue`, and `back`, which gives the node each
\* visited node was found from.  The neighbours of a node come in any order;
\* all orders give routes of one length.
RECURSIVE Found(_, _, _, _, _)
Found(g, cap, ex, back, queue) ==
  IF queue = <<>> THEN back
  ELSE LET node == Head(queue)
           new  == neighbors(g, node, cap, ex) \ DOMAIN back
           more == [x \in DOMAIN back \cup new |-> IF x \in new THEN node ELSE back[x]]
           line == CHOOSE s \in [1 .. Cardinality(new) -> new] : \A x \in new : \E i \in DOMAIN s : s[i] = x
       IN  Found(g, cap, ex, more, Tail(queue) \o line)

RECURSIVE bfs_backtrack(_, _)
bfs_backtrack(back, node) ==
  IF back[node] = node THEN <<node>> ELSE Append(bfs_backtrack(back, back[node]), node)

\* bfs, and the empty route for None.  A search that ends where it began does
\* not find its start again.
bfs(g, a, b, cap, ex) ==
  LET back == Found(g, cap, ex, [x \in {a} |-> a], <<a>>)
  IN  IF a = b \/ b \notin DOMAIN back THEN <<>> ELSE bfs_backtrack(back, b)

\* get_route_capacity: the least capacity of a hop.
get_route_capacity(g, route) ==
  Min({get_send_capacity(g, route[i], route[i + 1]) : i \in 1 .. Len(route) - 1})
=============================================================================
