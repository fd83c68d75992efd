SPECIFICATION DSpec
CONSTANTS
    s1 = s1
    c1 = c1
    k1 = k1
    w1 = w1
    NoPid = NoPid
    Shims = {s1}
    Callers = {c1}
    Ops = {"start", "kill", "delete", "force", "pause"}
    ExitCodes = {3}
    PidLen = 5
    Backlog = 1
    MayFail = FALSE
    MayCrash = FALSE
    MayPanic = FALSE
    Creators = {k1}
    Waiters = {w1}
    Ends = {"crash"}
    MayRestart = TRUE
INVARIANTS
    DTypeOK
    MapTruthful
    ExitCodeTruthful
CHECK_DEADLOCK FALSE
