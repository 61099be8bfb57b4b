---------------------------- MODULE IndexServer ----------------------------
(***************************************************************************)
(* Two index servers that trust each other and a client of one of them     *)
(* (index_server/src/server_loop.rs, backoff_connector.rs).  The order of  *)
(* the public keys makes one server, "I", initiate the connection and the  *)
(* other, "L", listen for it.  Either end may lose the connection, notice  *)
(* that late, or restart.                                                  *)
(***************************************************************************)
EXTENDS Naturals, Sequences, FiniteSets

CONSTANT CONNS     \* bound: connections that exist at the same time

Side == {"I", "L"}

VARIABLES
  state,     \* RemoteServerState of the other server, per side
  conn,      \* the connection of a Connected state, 0 for none
  attempt,   \* task of spawn_server: "none", "connecting", "sleeping", "done"
  ready,     \* the connection the attempt has made
  incoming,  \* connections that arrived at L
  ends,      \* per connection: the ends that are held
  broken,    \* connections that the network has cut
  client,    \* "out", "offered" or "in"
  handler    \* client_handler: "none", "running" or "closed"

linkVars == <<state, conn, attempt, ready, incoming, ends, broken>>
clientVars == <<client, handler>>
vars == <<state, conn, attempt, ready, incoming, ends, broken, client, handler>>

\* at = "off" is a network in which nothing happens.
InitAt(at) ==
  /\ state = [s \in Side |-> IF at = "off" THEN "off" ELSE IF s = "I" THEN "Initiating" ELSE "Listening"]
  /\ conn = [s \in Side |-> 0]
  /\ attempt = (IF at = "off" THEN "none" ELSE "connecting")
  /\ ready = 0 /\ incoming = <<>>
  /\ ends = [k \in CONNS |-> {}] /\ broken = {}
  /\ client = (IF at = "off" THEN "off" ELSE "out") /\ handler = "none"
Init == InitAt("on")

\* An end is dropped.  A connection nobody holds is gone.
Drop(es, s, k) == [es EXCEPT ![k] = @ \ {s}]
Gone(es) == {k \in CONNS : es[k] = {}}

\* spawn_server
spawn_server(s) ==
  /\ state' = [state EXCEPT ![s] = IF s = "I" THEN "Initiating" ELSE "Listening"]
  /\ attempt' = IF s = "I" THEN "connecting" ELSE attempt

\* BackoffConnector: a failed attempt sleeps and tries again.
ConnectorFails ==
  /\ attempt = "connecting" /\ attempt' = "sleeping"
  /\ UNCHANGED <<state, conn, ready, incoming, ends, broken, clientVars>>

SleepEnds ==
  /\ attempt = "sleeping" /\ attempt' = "connecting"
  /\ UNCHANGED <<state, conn, ready, incoming, ends, broken, clientVars>>

ConnectorSucceeds ==
  /\ attempt = "connecting"
  /\ \E k \in Gone(ends) :
       /\ \A j \in Gone(ends) : k <= j
       /\ ends' = [ends EXCEPT ![k] = Side] /\ broken' = broken \ {k}
       /\ ready' = k /\ incoming' = Append(incoming, k)
  /\ attempt' = "done"
  /\ UNCHANGED <<state, conn, clientVars>>

\* ServerConnection at I: the event of the attempt.
InitiatedConnection ==
  /\ attempt = "done"
  /\ IF state["I"] = "Connected"
     THEN ends' = Drop(ends, "I", ready) /\ UNCHANGED <<state, conn>>
     ELSE /\ state' = [state EXCEPT !["I"] = "Connected"]
          /\ conn' = [conn EXCEPT !["I"] = ready]
          /\ UNCHANGED ends
  /\ attempt' = "none" /\ ready' = 0
  /\ UNCHANGED <<incoming, broken, clientVars>>

\* ServerConnection at L: a second connection is refused.
ListenedConnection ==
  /\ incoming # <<>>
  /\ incoming' = Tail(incoming)
  /\ IF state["L"] = "Connected"
     THEN ends' = Drop(ends, "L", Head(incoming)) /\ UNCHANGED <<state, conn>>
     ELSE /\ state' = [state EXCEPT !["L"] = "Connected"]
          /\ conn' = [conn EXCEPT !["L"] = Head(incoming)]
          /\ UNCHANGED ends
  /\ UNCHANGED <<attempt, ready, broken, clientVars>>

\* FromServer(None): the reader of the connection has seen its end.
ServerClosed(s) ==
  /\ conn[s] # 0 /\ (conn[s] \in broken \/ ends[conn[s]] # Side)
  /\ ends' = Drop(ends, s, conn[s]) /\ conn' = [conn EXCEPT ![s] = 0]
  /\ spawn_server(s)
  /\ UNCHANGED <<ready, incoming, broken, clientVars>>

\* The network cuts a connection; a server restarts.
Cut(k) ==
  /\ ends[k] # {} /\ k \notin broken
  /\ broken' = broken \cup {k}
  /\ UNCHANGED <<state, conn, attempt, ready, incoming, ends, clientVars>>

Restart(s) ==
  /\ state[s] # "off"
  /\ ends' = [k \in CONNS |-> ends[k] \ {s}] /\ conn' = [conn EXCEPT ![s] = 0]
  /\ spawn_server(s)
  /\ IF s = "I" THEN ready' = 0 /\ UNCHANGED incoming ELSE incoming' = <<>> /\ UNCHANGED ready
  /\ UNCHANGED <<broken, clientVars>>

(***************************************************************************)
(* A client                                                                *)
(***************************************************************************)
ClientDials ==
  /\ client = "out" /\ client' = "offered"
  /\ UNCHANGED <<linkVars, handler>>

\* ClientConnection: refused while `clients` holds the key.
ClientConnection ==
  /\ client = "offered"
  /\ IF handler = "none" THEN client' = "in" /\ handler' = "running"
     ELSE client' = "out" /\ UNCHANGED handler
  /\ UNCHANGED linkVars

ClientDrops ==
  /\ client = "in" /\ client' = "out"
  /\ UNCHANGED <<linkVars, handler>>

HandlerEnds ==
  /\ handler = "running" /\ client # "in" /\ handler' = "closed"
  /\ UNCHANGED <<linkVars, client>>

\* Mutant: the key of a client that left stays in `clients`.
ClientClosed_Keeps ==
  /\ handler = "closed" /\ handler' = "stale"
  /\ UNCHANGED <<linkVars, client>>

ClientClosed ==
  /\ handler = "closed" /\ handler' = "none"
  /\ UNCHANGED <<linkVars, client>>

LinkStep ==
  \/ SleepEnds \/ ConnectorSucceeds \/ InitiatedConnection
  \/ \E s \in Side : ServerClosed(s)
ClientStep == ClientDials \/ ClientConnection
HandlerStep == HandlerEnds \/ ClientClosed
Fault ==
  \/ ConnectorFails \/ ClientDrops
  \/ \E k \in CONNS : Cut(k)
  \/ \E s \in Side : Restart(s)

Next == LinkStep \/ ListenedConnection \/ ClientStep \/ HandlerStep \/ Fault

Spec == Init /\ [][Next]_vars

\* The event loops handle what reached them, every reader notices the end of
\* its connection (keepalive), and the connector goes on.
Fairness ==
  /\ WF_vars(SleepEnds \/ ConnectorSucceeds \/ InitiatedConnection)
  /\ \A s \in Side : WF_vars(ServerClosed(s))
  /\ WF_vars(ListenedConnection) /\ WF_vars(ClientStep) /\ WF_vars(HandlerStep)

FairSpec == Spec /\ Fairness

-----------------------------------------------------------------------------
(* Properties                                                              *)

\* Once the network and the servers hold, both servers are connected by the
\* same connection and the client is in, for good, although L refuses what
\* comes while it still holds a connection that is dead at the other end
\* (server_loop.rs, ServerConnection, FromServer(None), ClientConnection).
EveryoneReturns ==
  <>[][~Fault]_vars => <>[](/\ state["I"] \in {"Connected", "off"} /\ conn["I"] = conn["L"]
                            /\ client \in {"in", "off"})
=============================================================================
