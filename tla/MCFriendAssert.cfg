CONSTANTS
  CURRENCIES = {"c"} RELAYS <- OneRelay MAX_NODE_RELAYS = 1 MAX_CHANGES = 3 MAX_FAULTS = 0
SPECIFICATION Spec
INVARIANT ActiveAreWanted
CHECK_DEADLOCK FALSE
