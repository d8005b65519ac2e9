SPECIFICATION Spec
CONSTANTS
    t1 = t1
    Task = {t1}
    None = None
    MaxPlanUpdates = 1
    MaxConnections = 1
PROPERTIES
    RunsStayClosed
CHECK_DEADLOCK FALSE
