CONSTANTS
  TICKS_TO_REKEY = 1
  MAX_USER <- MaxUser
  MAX_DH = 2
  TICK_QUEUE_LEN = 1
  KEEPALIVE_TICKS = 6
  WIRE_ROOM = 1
  DELAY = 1
  LAG = 1
  LISTENERS = {"a"}
  CONNECTORS = {"b"}
  NAMES = {1, 2}
  HALF_TUNNEL_TICKS = 2
  CONN_TIMEOUT_TICKS = 2
  MAX_INCOMING = 2
SPECIFICATION FairSpec
INVARIANTS NoTickIsMissed
PROPERTIES
  ImplementsFifoChannel RekeyEnds LivePeerIsKept SilentPeerIsDropped
  HalfTunnelsEnd
CHECK_DEADLOCK FALSE
