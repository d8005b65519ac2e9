SPECIFICATION Spec
CONSTANTS
    Session = {s1}
    Task = {t1, t2}
    Run = {r1, r2, r3}
    Call = {c1, c2}
    SideEffecting = {c1}
    Output = {o1}
    Owner = {w1, w2}
    ClientRequest = {k1}
    ClientAnswer = {a1, a2}
    Lease = 1
    AnswerTtl = 1
    MaxTime = 2
    None = None
SYMMETRY Symmetry
INVARIANTS
    OneExecutorWhileRunning
    WaitsWhileQuestionsOpen
    TerminalTaskIsClosed
    StartedSideEffectsAccounted
    RunsNumberedByVersion
    ArchivedSessionIsQuiet
    PlanOfActiveTask
PROPERTIES
    CallSettlesOnce
    KeepsLifecycle
CHECK_DEADLOCK FALSE
