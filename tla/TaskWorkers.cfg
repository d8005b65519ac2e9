SPECIFICATION ProcessSpec
CONSTANTS
    Session = {s1}
    Task = {t1}
    Run = {r1, r2}
    Call = {c1, c2}
    Output = {m1, m2}
    Owner = {o1}
    ClientRequest = {k1}
    ClientAnswer = {a1, a2}
    SideEffecting = {c1}
    Malformed = {}
    Lease = 1
    AnswerTtl = 1
    Grace = 1
    MaxIterations = 2
    MaxTime = 2
    None = None
INVARIANTS
    InvokedAtMostOnce
    TaskNotStranded
    OneExecutionPerTask
    QuestionsOfNewestRun
    ScanClosesLapsed
SYMMETRY Symmetry
CHECK_DEADLOCK FALSE
