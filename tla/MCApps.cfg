CONSTANTS
  APPS = {1, 2} FORBIDDEN = {2} PEERS = {"f"} UIDS = {"u"} MAX_BATCH = 1 INBOX = 1 MAX_DEBT = 1
  PAYMENTS = {"p"} INVOICES = {"i"} TXS = 2 MAX_CRASHES = 2 UNREAD = 2
  LOCALS = {"l"} REMOTES = {"r"} TICKS_TO_CONNECT = 2 IDS = 3 REQS = {1} QUEUE = 2 MAX_DOWN = 1
  PARTS = {"app server", "buyer", "seller", "compact server"}
SPECIFICATION MCSpec
INVARIANTS AppsStayInStep OutcomeIsTrue OpenOnce
PROPERTIES PaymentIsDecided EnabledIsOpened
CHECK_DEADLOCK FALSE
