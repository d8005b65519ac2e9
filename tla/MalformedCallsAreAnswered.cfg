SPECIFICATION ProcessSpec
CONSTANTS
    Session = {s1}
    Task = {t1}
    Run = {r1}
    Call = {c1}
    Output = {m1}
    Owner = {o1}
    ClientRequest = {k1}
    ClientAnswer = {a1}
    SideEffecting = {}
    Malformed = {c1}
    Lease = 1
    AnswerTtl = 1
    Grace = 1
    MaxIterations = 2
    MaxTime = 0
    None = None
INVARIANTS
    MalformedCallsAreAnswered
CHECK_DEADLOCK FALSE
