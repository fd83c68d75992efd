SPECIFICATION FairSpec
CONSTANTS
    s1 = s1
    c1 = c1
    c2 = c2
    NoPid = NoPid
    Shims = {s1}
    Callers = {c1, c2}
    Ops = {"start", "kill"}
    ExitCodes = {3}
    PidLen = 5
    Backlog = 0
    MayFail = TRUE
    MayCrash = FALSE
    MayPanic = TRUE
PROPERTIES
    CreateReports
    StartReleases
    ExitReported
    CallsReturn
    StoppedEnds
CHECK_DEADLOCK FALSE
