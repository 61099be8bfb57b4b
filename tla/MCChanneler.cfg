SPECIFICATION MCSpec
CONSTANTS
  OUT_FRIENDS = {"out"}
  IN_FRIENDS = {"in"}
  FRIEND_RELAYS = {"r1", "r2"}
  LOCAL_RELAYS = {"r1"}
  MAX_CONNS = 2
  MAX_POOLS = 1
  MAX_LISTENERS = 2
  BACKOFF_TICKS = 1
  MAX_REPORTS = 2
INVARIANTS
  LivenessIsReported

  AccessControlFollows
PROPERTIES
  OutFriendsConnect
  ListenersReturn
CHECK_DEADLOCK FALSE
