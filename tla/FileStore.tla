----------------------------- MODULE FileStore -----------------------------
(***************************************************************************)
(* The store of the compact server (stcompact/src/store/file_store.rs): a  *)
(* directory for every node with its identity, configuration and           *)
(* databases.  A store is a record: `nodes` maps the names of the nodes to *)
(* [kind, enabled], `live` are the nodes whose services are running, and   *)
(* `torn` the directories in which a crash has left a file missing or      *)
(* empty.                                                                  *)
(***************************************************************************)
EXTENDS Naturals

NewStore == [nodes |-> <<>>, live |-> {}, torn |-> {}]

\* read_all_nodes, verify_store: all the directories or none.
Readable(s) == s.torn = {}

is_node_exists(s, name) == name \in DOMAIN s.nodes
is_node_enabled(s, name) == name \in DOMAIN s.nodes /\ s.nodes[name].enabled

Stored(s, name, kind) ==
  [s EXCEPT !.nodes = [n \in DOMAIN s.nodes \cup {name} |->
                         IF n = name THEN [kind |-> kind, enabled |-> FALSE] ELSE s.nodes[n]]]
create_local_node(s, name) == Stored(s, name, "local")
create_remote_node(s, name) == Stored(s, name, "remote")

config_node(s, name, is_enabled) == [s EXCEPT !.nodes[name].enabled = is_enabled]

CanLoad(s, name) == name \in DOMAIN s.nodes /\ name \notin s.live
load_node(s, name) == [s EXCEPT !.live = @ \cup {name}]

\* NodeNotLoaded is not fatal.
unload_node(s, name) == [s EXCEPT !.live = @ \ {name}]

\* A node that is loaded, and one that does not exist, is not removed.
remove_node(s, name) ==
  IF name \in s.live THEN s
  ELSE [s EXCEPT !.nodes = [n \in DOMAIN s.nodes \ {name} |-> s.nodes[n]]]

\* The process ends: with it end the services.
Closed(s) == [s EXCEPT !.live = {}]

\* It ends while files of a node are written one after the other.
Torn(s, name) == [Closed(s) EXCEPT !.torn = @ \cup {name}]
=============================================================================
