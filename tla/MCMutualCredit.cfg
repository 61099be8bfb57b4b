CONSTANTS
    Uid = {u1, u2}
    PlainLock = {l1}
    NoPending = NoPending
    NoLock = NoLock
    MaxI128 = 2
    Alice = Alice
    Bob = Bob
    Amount = {0, 2}
    Fee = {1}
    Limit = {2, 5}
    MaxOperations = 2
SPECIFICATION Spec
INVARIANTS
    MirroredAtRest
    FrozenCreditsAreAccounted
    OnlyOverflowBreaksTheChannel
PROPERTIES
    ExposureGrowsWithinLimit
SYMMETRY RequestIdSymmetry
