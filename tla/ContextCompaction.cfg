SPECIFICATION FairSpec
CONSTANTS
    t1 = t1
    t2 = t2
    k1 = k1
    k2 = k2
    Task = {t1, t2}
    CallId = {k1, k2}
    ResultTokens = {3}
    InputTokenLimit = 4
    KeepRecentInputTokens = 1
    MaxToolResultTokens = 2
    SummaryMaxTokens = 1
    MaxCompactionPasses = 2
    MaxRows = 7
INVARIANTS
    NothingElseIsLost
    InputsAreWhole
PROPERTIES
    CompactionAdvances
    BuildsEnd
CHECK_DEADLOCK FALSE
