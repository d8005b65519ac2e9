SPECIFICATION FairSpec
CONSTANTS
    c1 = c1
    c2 = c2
    s1 = s1
    Session = {s1}
    Call = {c1, c2}
    SessionOf <- OneSession
    Streaming = {c1}
    MaxScans = 1
INVARIANTS
    EachCallCountedOnce
    AcceptedIsCompleted
    ScanSettlesOrphans
PROPERTIES
    TransactionsEnd
CHECK_DEADLOCK FALSE
