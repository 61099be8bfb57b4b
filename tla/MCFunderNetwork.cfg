SPECIFICATION MCSpec
CONSTANTS
    Node = {"b", "m", "s"}
    Uid = {"u1", "u2", "u3"}
    PaymentId = {"p1"}
    InvoiceId = {"i1"}
    PlainLock = {"p1", "i1"}
    NoPending = NoPending
    NoLock = NoLock
    None = None
    NoBatch = NoBatch
    MaxI128 = 100
    Friend <- Line
    HoldsFirst <- LineFirst
    Pay <- OnePayment
    Inv <- OneInvoice
    Tx <- Parts
    LocalFee <- Fees
    MaxDebt <- Trust
    Debts = {1}
    MaxBatch = 1
    MaxUserQueue = 2
    Removable <- AnyRemoved
    Disturbances = {"offline", "restart", "disable", "requests", "limit", "remove"}
    MaxDisturbances = 1
INVARIANTS
    OnlyKnownStops
    BooksAgree
    NobodyOverpays
PROPERTIES
    CommitCollectsTotal
    PaymentsEnd
CHECK_DEADLOCK FALSE
