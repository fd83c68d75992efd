SPECIFICATION DSpec
CONSTANTS
    s1 = s1
    k1 = k1
    NoPid = NoPid
    Shims = {s1}
    Callers = {}
    Ops = {}
    ExitCodes = {3}
    PidLen = 5
    Backlog = 1
    MayFail = TRUE
    MayCrash = FALSE
    MayPanic = FALSE
    Creators = {k1}
    Waiters = {}
    Ends = {}
    MayRestart = FALSE
INVARIANTS
    CreateOkExists
CHECK_DEADLOCK FALSE
