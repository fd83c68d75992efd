SPECIFICATION DFairSpec
CONSTANTS
    s1 = s1
    c1 = c1
    k1 = k1
    w1 = w1
    NoPid = NoPid
    Shims = {s1}
    Callers = {c1}
    Ops = {"start"}
    ExitCodes = {3}
    PidLen = 5
    Backlog = 1
    MayFail = FALSE
    MayCrash = FALSE
    MayPanic = FALSE
    Creators = {k1}
    Waiters = {w1}
    Ends = {}
    MayRestart = FALSE
PROPERTIES
    WaitReturns
CHECK_DEADLOCK FALSE
