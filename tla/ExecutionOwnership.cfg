SPECIFICATION Spec
CONSTANTS
    Lease = 5
    Interval = 2
    Delay = 1
    Outage = 6
    MaxTime = 16
INVARIANTS
    BeliefWithinGrant
PROPERTIES
    WorkerStopsInOutage
CHECK_DEADLOCK FALSE
