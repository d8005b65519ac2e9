SPECIFICATION Spec
CONSTANTS
    p1 = p1
    p2 = p2
    s1 = s1
    s2 = s2
    web = web
    Call <- MCCall
    Session <- MCSession
    SessionOf <- TwoSessions
    NameOf <- SameName
    Stopper = {k1}
    Port = {1, 2}
    MaxStarts = 2
    MaxCrashes = 0
INVARIANTS
    AllocatedPortsAreFree
CHECK_DEADLOCK FALSE
