CONSTANTS
    Low = Low
    High = High
    None = None
    Own <- OneEach
    MaxBreaks = 1
    MaxFaults = 1
    MaxResets = 2
SPECIFICATION FairSpec
INVARIANT
    ChainsAgree
PROPERTIES
    FateIsFinal
    ResetArrives
CHECK_DEADLOCK FALSE
