SPECIFICATION FairSpec
CONSTANTS
    p1 = p1
    p2 = p2
    s1 = s1
    s2 = s2
    web = web
    Call <- MCCall
    Session <- MCSession
    SessionOf <- TwoSessions
    NameOf <- SameName
    Stopper = {k1}
    Port = {1}
    MaxStarts = 2
    MaxCrashes = 1
INVARIANTS
    OneProcessPerCall
    StoppedIsGone
PROPERTIES
    RegistryConverges
