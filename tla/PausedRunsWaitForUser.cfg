SPECIFICATION Spec
CONSTANTS
    Session = {s1}
    Task = {t1}
    Run = {r1, r2}
    Call = {c1}
    SideEffecting = {c1}
    Output = {o1}
    Owner = {w1}
    ClientRequest = {}
    ClientAnswer = {a1}
    Lease = 1
    AnswerTtl = 1
    MaxTime = 2
    None = None
INVARIANT PausedRunsWaitForUser
CHECK_DEADLOCK FALSE
