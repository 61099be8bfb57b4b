CONSTANTS
    Low = Low
    High = High
    MaxBatch = 1
    MaxOps <- TwoAndOne
    MaxBreaks = 2
SPECIFICATION FairSpec
INVARIANTS
    StaysConsistent
PROPERTIES
    ImplementsTokenLog
    AnswersArrive
CHECK_DEADLOCK FALSE
