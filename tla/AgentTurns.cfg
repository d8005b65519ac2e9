SPECIFICATION FairSpec
CONSTANTS
    MaxIterations = 3
    MaxToolCalls = 3
    MaxBatch = 2
INVARIANTS
    BudgetsAreKept
    ChoicesAreInformed
    StopsInTime
    UnknownIsLast
PROPERTIES
    TaskSettles
CHECK_DEADLOCK FALSE
