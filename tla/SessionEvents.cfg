SPECIFICATION FairSpec
CONSTANTS
    t1 = t1
    Task = {t1}
    None = None
    MaxPlanUpdates = 2
    MaxConnections = 2
INVARIANTS
    TasksAreShown
    ShownIsCommitted
PROPERTIES
    EndsAreShown
CHECK_DEADLOCK FALSE
