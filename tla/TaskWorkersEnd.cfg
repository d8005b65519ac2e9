SPECIFICATION FairSpec
CONSTANTS
    Session = {s1}
    Task = {t1}
    Run = {r1, r2}
    Call = {c1, c2}
    Output = {m1}
    Owner = {o1}
    ClientRequest = {k1}
    ClientAnswer = {a1}
    SideEffecting = {c1}
    Malformed = {c2}
    Lease = 1
    AnswerTtl = 1
    Grace = 1
    MaxIterations = 2
    MaxTime = 1
    None = None
INVARIANTS
    AbortFollowsFence
PROPERTIES
    ExecutionsEnd
CHECK_DEADLOCK FALSE
