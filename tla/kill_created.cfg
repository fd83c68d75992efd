SPECIFICATION FairSpec
CONSTANTS
    s1 = s1
    c1 = c1
    NoPid = NoPid
    Shims = {s1}
    Callers = {c1}
    Ops = {"kill"}
    ExitCodes = {3}
    PidLen = 5
    Backlog = 1
    MayFail = FALSE
    MayCrash = FALSE
    MayPanic = FALSE
PROPERTIES
    ExitIsReaped
CHECK_DEADLOCK FALSE
