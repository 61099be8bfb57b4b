------------------------------- MODULE MCLink -------------------------------
(***************************************************************************)
(* What carries a connection between two nodes: the secure channel, the    *)
(* keepalive with its timers and the relay server.  They share no state; a *)
(* behaviour runs one of them, chosen in the initial state, while the two  *)
(* others have ended.                                                      *)
(***************************************************************************)
EXTENDS Naturals, Sequences, FiniteSets

CONSTANTS
  TICKS_TO_REKEY, MAX_USER, MAX_DH,
  TICK_QUEUE_LEN, KEEPALIVE_TICKS, WIRE_ROOM, DELAY, LAG,
  LISTENERS, CONNECTORS, NAMES, HALF_TUNNEL_TICKS, CONN_TIMEOUT_TICKS, MAX_INCOMING

VARIABLES
  version, expects, phase, dh, pending, sendKey, sendNonce, recvKey, recvNonce,
  oldKey, oldNonce, ticks, log, nread, given, taken,
  state, ticks_to_close, ticks_to_send_keepalive, waiting, wire, timer, behind,
  loop, incoming, patience, closed, listeners, lconns, tunnels

SC == INSTANCE SecureChannel
KA == INSTANCE KeepAlive
RS == INSTANCE RelayServer

scVars == <<version, expects, phase, dh, pending, sendKey, sendNonce, recvKey, recvNonce,
            oldKey, oldNonce, ticks, log, nread, given, taken>>
kaVars == <<state, ticks_to_close, ticks_to_send_keepalive, waiting, wire, timer, behind>>
rsVars == <<loop, incoming, patience, closed, listeners, lconns, tunnels>>
vars == <<scVars, kaVars, rsVars>>

MaxUser == <<2, 1>>

SecureChannelEnded ==
  /\ version = TRUE /\ expects = [s \in SC!Side |-> TRUE]
  /\ SC!InitAt("closed")
KeepAliveEnded == KA!InitAt("closed")
RelayServerEnded == RS!InitAt("ended", TRUE)

Init ==
  \/ SC!Init /\ KeepAliveEnded /\ RelayServerEnded
  \/ SecureChannelEnded /\ KA!Init /\ RelayServerEnded
  \/ SecureChannelEnded /\ KeepAliveEnded /\ RS!Init

Next ==
  \/ SC!Next /\ UNCHANGED <<kaVars, rsVars>>
  \/ KA!Next /\ UNCHANGED <<scVars, rsVars>>
  \/ RS!Next /\ UNCHANGED <<scVars, kaVars>>

FairSpec == Init /\ [][Next]_vars /\ SC!Fairness /\ KA!Fairness /\ RS!Fairness

\* The secure channel is a FIFO channel for its users and never breaks
\* (SecureChannel).
ImplementsFifoChannel == SC!ImplementsFifoChannel

\* A rekey that was started ends (SecureChannel).
RekeyEnds == SC!RekeyEnds

\* Two live, punctual ends do not time out (KeepAlive).
LivePeerIsKept == [][KA!TimesOutRightly]_kaVars

\* An end whose peer is dead ends (KeepAlive).
SilentPeerIsDropped == KA!SilentPeerIsDropped

\* A timer client misses no tick before it is disconnected (KeepAlive, Timer).
NoTickIsMissed == KA!NoTickIsMissed

\* No connection waits for ever to be accepted (RelayServer).
HalfTunnelsEnd == RS!HalfTunnelsEnd
=============================================================================
