CONSTANTS
  SERVERS = {"x"} FRIENDS = {"f", "g"} LEAVING = {"g"} REQUESTS = {"r"}
  MAX_OPEN_REQUESTS = 1 KEEPALIVE = 1 BACKOFF = 1 MAX_VALUE <- LastValues
  BASE_MAX_EDGE_AGE = 1 AGE_PER_EDGE = 1
  FED = {1, 2, 3} ROUNDS <- Rounds CAPS = {1, 2} PROMPT = {} EXPIRING = {1}
  CONNS = {1, 2, 3}
  NODES = {"n"} SESSIONS = {"s", "t"} TICKS_TO_LIVE = 2 MAX_COUNTER = 1 MAX_TICK = 4
  MAX_HEARD = 4
  PARTS = {"feed"}
SPECIFICATION MCSpec
PROPERTIES OnlyItsEdgesGo
CHECK_DEADLOCK FALSE
