SPECIFICATION EFairSpec
CONSTANTS
    s1 = s1
    c1 = c1
    x1 = x1
    NoPid = NoPid
    Shims = {s1}
    Callers = {c1}
    Execs = {x1}
    Ops = {"start", "kill", "delete", "force", "pause", "resume"}
    ExitCodes = {3}
    PidLen = 5
    Backlog = 1
    MayFail = FALSE
    MayCrash = FALSE
    MayPanic = FALSE
INVARIANTS
    CommandConfined
    ExecInv
PROPERTIES
    ExecReturns
    ExitReported
CHECK_DEADLOCK FALSE
