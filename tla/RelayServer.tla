---------------------------- MODULE RelayServer ----------------------------
(***************************************************************************)
(* The relay server (relay/src/server/conn_processor.rs, server_loop.rs):  *)
(* it reads the first message of every connection, one connection at a     *)
(* time, and joins the connections of those who connect with those of the  *)
(* listeners who accept them.                                              *)
(*                                                                         *)
(* lconns holds the listening connections for which a task still forwards  *)
(* what the listener writes: [key, open, rejects], under a name that is    *)
(* used again once the task has delivered ListenerClosed.                  *)
(***************************************************************************)
EXTENDS Naturals, Sequences, FiniteSets

CONSTANTS
  LISTENERS, CONNECTORS,   \* public keys
  NAMES,                   \* names of listening connections
  HALF_TUNNEL_TICKS, CONN_TIMEOUT_TICKS,
  MAX_INCOMING             \* bound: connections that wait to be looked at

VARIABLES
  loop,        \* "running" or "ended"
  incoming,    \* incoming_conns, not processed yet
  patience,    \* ticks process_conn still waits for the first one
  closed,      \* incoming_conns_closed
  listeners,   \* key -> [conn, half_tunnels, notices]
  lconns,
  tunnels      \* the pairs of keys whose connections were joined

vars == <<loop, incoming, patience, closed, listeners, lconns, tunnels>>

Listen(k)     == [type |-> "Listen", key |-> k]
Connect(c, k) == [type |-> "Connect", key |-> c, to |-> k]
Accept(k, c)  == [type |-> "Accept", key |-> k, to |-> c]
Silent        == [type |-> "Silent"]
Conns == { Listen(k) : k \in LISTENERS } \cup {Silent}
         \cup { Connect(c, k) : c \in CONNECTORS, k \in LISTENERS }
         \cup { Accept(k, c) : c \in CONNECTORS, k \in LISTENERS }

InitAt(at, done) ==
  /\ loop = at /\ closed = done
  /\ incoming = <<>> /\ patience = CONN_TIMEOUT_TICKS
  /\ listeners = [k \in {} |-> 0] /\ lconns = [n \in {} |-> 0]
  /\ tunnels = {}

Init == InitAt("running", FALSE)

Put(f, x, v) == [y \in DOMAIN f \cup {x} |-> IF y = x THEN v ELSE f[y]]
Without(f, x) == [y \in DOMAIN f \ {x} |-> f[y]]

\* The loop ends when nothing can arrive and nobody listens.  The arms that
\* `continue` do not look.
LoopEnds(done, ls) == IF done /\ DOMAIN ls = {} THEN "ended" ELSE "running"

(***************************************************************************)
(* Clients                                                                 *)
(***************************************************************************)
Arrives(conn) ==
  /\ ~closed /\ Len(incoming) < MAX_INCOMING
  /\ incoming' = Append(incoming, conn)
  /\ UNCHANGED <<loop, patience, closed, listeners, lconns, tunnels>>

IncomingConnsClosed ==
  /\ loop = "running" /\ ~closed /\ incoming = <<>>
  /\ closed' = TRUE
  /\ loop' = LoopEnds(TRUE, listeners)
  /\ UNCHANGED <<incoming, patience, listeners, lconns, tunnels>>

\* A listener reads who wants to connect, and rejects some.
ReadsNotice(k) ==
  LET n == listeners[k].conn
  IN
  /\ k \in DOMAIN listeners /\ listeners[k].notices # <<>> /\ lconns[n].open
  /\ listeners' = [listeners EXCEPT ![k].notices = Tail(@)]
  /\ \/ UNCHANGED lconns
     \/ lconns[n].rejects = <<>>
        /\ lconns' = [lconns EXCEPT ![n].rejects = <<Head(listeners[k].notices)>>]
  /\ UNCHANGED <<loop, incoming, patience, closed, tunnels>>

ListenerLeaves(n) ==
  /\ n \in DOMAIN lconns /\ lconns[n].open
  /\ lconns' = [lconns EXCEPT ![n].open = FALSE]
  /\ UNCHANGED <<loop, incoming, patience, closed, listeners, tunnels>>

(***************************************************************************)
(* conn_processor, relay_server_loop                                       *)
(***************************************************************************)
First(type) == loop = "running" /\ incoming # <<>> /\ Head(incoming).type = type
NextConn == incoming' = Tail(incoming) /\ patience' = CONN_TIMEOUT_TICKS

\* A second listening connection of a key is discarded while the entry of the
\* first one is there, even if the first one is closed already.
HandleListen ==
  LET k == Head(incoming).key
  IN
  /\ First("Listen")
  /\ IF k \in DOMAIN listeners THEN UNCHANGED <<listeners, lconns>>
     ELSE \E n \in NAMES \ DOMAIN lconns :
       /\ listeners' = Put(listeners, k, [conn |-> n, notices |-> <<>>, half_tunnels |-> [c \in {} |-> 0]])
       /\ lconns' = Put(lconns, n, [key |-> k, open |-> TRUE, rejects |-> <<>>])
  /\ NextConn
  /\ UNCHANGED <<loop, closed, tunnels>>

\* ListeningNotInProgress and NoPendingHalfTunnel drop the connection.
handle_accept ==
  LET k == Head(incoming).key
      c == Head(incoming).to
  IN
  /\ First("Accept")
  /\ IF k \in DOMAIN listeners /\ c \in DOMAIN listeners[k].half_tunnels
     THEN /\ listeners' = [listeners EXCEPT ![k].half_tunnels = Without(@, c)]
          /\ tunnels' = tunnels \cup {<<c, k>>}
     ELSE UNCHANGED <<listeners, tunnels>>
  /\ NextConn
  /\ UNCHANGED <<loop, closed, lconns>>

\* The channel to the listener takes one notice; try_send does not wait.
HandleConnect ==
  LET k == Head(incoming).to
      c == Head(incoming).key
  IN
  /\ First("Connect")
  /\ IF /\ k \in DOMAIN listeners
        /\ c \notin DOMAIN listeners[k].half_tunnels
        /\ listeners[k].notices = <<>> /\ lconns[listeners[k].conn].open
     THEN listeners' = [listeners EXCEPT ![k].notices = <<c>>,
                                         ![k].half_tunnels = Put(@, c, HALF_TUNNEL_TICKS)]
     ELSE UNCHANGED listeners
  /\ NextConn
  /\ UNCHANGED <<loop, closed, lconns, tunnels>>

\* future_timeout: process_conn gives up after CONN_TIMEOUT_TICKS.
Patience == patience - 1

\* Mutant: the countdown does not reach the half tunnels.
Aged_Never(half) == half

\* A half tunnel whose countdown ends is dropped.
Aged(half) == [c \in { c \in DOMAIN half : half[c] > 1 } |-> half[c] - 1]

TimerTick ==
  /\ loop = "running"
  /\ listeners' = [k \in DOMAIN listeners |->
                     [listeners[k] EXCEPT !.half_tunnels = Aged(@)]]
  /\ IF First("Silent")
     THEN IF Patience = 0 THEN NextConn ELSE patience' = Patience /\ UNCHANGED incoming
     ELSE UNCHANGED <<incoming, patience>>
  /\ UNCHANGED <<loop, closed, lconns, tunnels>>

\* The `tunnels` of a listener are never filled: nothing is left to remove.
TunnelClosed(c, k) ==
  /\ loop = "running" /\ <<c, k>> \in tunnels
  /\ tunnels' = tunnels \ {<<c, k>>}
  /\ loop' = IF k \in DOMAIN listeners THEN LoopEnds(closed, listeners) ELSE loop
  /\ UNCHANGED <<incoming, patience, closed, listeners, lconns>>

\* RejectConnection of a listener.
ListenerMessage(n) ==
  LET k == lconns[n].key
  IN
  /\ loop = "running" /\ n \in DOMAIN lconns /\ lconns[n].rejects # <<>>
  /\ lconns' = [lconns EXCEPT ![n].rejects = Tail(@)]
  /\ listeners' = IF k \notin DOMAIN listeners THEN listeners
                  ELSE [listeners EXCEPT ![k].half_tunnels =
                          Without(@, Head(lconns[n].rejects))]
  /\ UNCHANGED <<loop, incoming, patience, closed, tunnels>>

ListenerClosed(n) ==
  LET k == lconns[n].key
  IN
  /\ loop = "running" /\ n \in DOMAIN lconns /\ ~lconns[n].open /\ lconns[n].rejects = <<>>
  /\ lconns' = Without(lconns, n)
  /\ listeners' = Without(listeners, k)
  /\ loop' = IF k \in DOMAIN listeners THEN LoopEnds(closed, listeners') ELSE loop
  /\ UNCHANGED <<incoming, patience, closed, tunnels>>

Next ==
  \/ \E conn \in Conns : Arrives(conn)
  \/ \E k \in LISTENERS : ReadsNotice(k)
  \/ \E n \in NAMES : ListenerLeaves(n) \/ ListenerMessage(n) \/ ListenerClosed(n)
  \/ HandleListen \/ handle_accept \/ HandleConnect
  \/ TimerTick \/ IncomingConnsClosed
  \/ \E c \in CONNECTORS, k \in LISTENERS : TunnelClosed(c, k)

Spec == Init /\ [][Next]_vars

\* The loop takes the events it is offered; the interval ticks.
Fairness ==
  /\ WF_vars(HandleListen \/ handle_accept \/ HandleConnect)
  /\ WF_vars(TimerTick)

FairSpec == Spec /\ Fairness

-----------------------------------------------------------------------------
(* Properties                                                              *)

\* A connection that waits to be accepted does not wait for ever, whatever
\* the listener does (server_loop.rs, TimerTick).
HalfTunnelsEnd ==
  \A c \in CONNECTORS, k \in LISTENERS :
    []<>(k \notin DOMAIN listeners \/ c \notin DOMAIN listeners[k].half_tunnels
         \/ loop = "ended")

=============================================================================
