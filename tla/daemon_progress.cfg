SPECIFICATION DFairSpec
CONSTANTS
    s1 = s1
    c1 = c1
    k1 = k1
    w1 = w1
    NoPid = NoPid
    Shims = {s1}
    Callers = {c1}
    Ops = {"start"}
    ExitCodes = {3}
    PidLen = 5
    Backlog = 1
    MayFail = TRUE
    MayCrash = FALSE
    MayPanic = TRUE
    Creators = {k1}
    Waiters = {w1}
    Ends = {"ctrl_c"}
    MayRestart = FALSE
PROPERTIES
    CreateAnswered
    WaitAnswered
    ShutdownEnds
CHECK_DEADLOCK FALSE
