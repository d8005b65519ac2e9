SPECIFICATION DeletionSpec
CONSTANTS
    d1 = d1
    d2 = d2
    p1 = p1
    s1 = s1
    web = web
    None = None
    Call <- Call1
    Session = {s1}
    SessionOf <- OneCall
    NameOf <- OneName
    Deleter <- TwoDeleters
    Stopper <- TwoStoppers
    Port = {1, 2}
    MaxStarts = 1
    MaxCrashes = 0
    MaxLives = 2
PROPERTIES
    RemovesOnlyFencedWorkspaces
