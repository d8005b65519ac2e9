SPECIFICATION Spec
CONSTANTS
    p1 = p1
    p2 = p2
    s1 = s1
    s2 = s2
    web = web
    Call = {p1}
    Session <- MCSession
    SessionOf <- OneCall
    NameOf <- OneName
    Stopper = {k1, k2}
    Port = {1}
    MaxStarts = 2
    MaxCrashes = 0
PROPERTIES
    StopIsIdempotent
CHECK_DEADLOCK FALSE
