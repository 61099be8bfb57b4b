CONSTANTS
  CURRENCIES = {"c"} RELAYS <- MovingRelays MAX_NODE_RELAYS = 2 MAX_CHANGES = 3 MAX_FAULTS = 1
SPECIFICATION Spec
INVARIANTS CurrenciesAgree RecordIsListenedAt
PROPERTY CurrencyOpens
CHECK_DEADLOCK FALSE
