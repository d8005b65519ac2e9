SPECIFICATION Spec
CONSTANTS
    t1 = t1
    t2 = t2
    k1 = k1
    k2 = k2
    Task = {t1, t2}
    CallId = {k1, k2}
    ResultTokens = {1, 3}
    InputTokenLimit = 5
    KeepRecentInputTokens = 2
    MaxToolResultTokens = 2
    SummaryMaxTokens = 1
    MaxCompactionPasses = 2
    MaxRows = 8
INVARIANTS
    ConversationStaysVisible
CHECK_DEADLOCK FALSE
