SPECIFICATION Spec
CONSTANTS
    s1 = s1
    c1 = c1
    c2 = c2
    NoPid = NoPid
    Shims = {s1}
    Callers = {c1, c2}
    Ops = {"start", "kill", "force", "pause"}
    ExitCodes = {3}
    PidLen = 5
    Backlog = 1
    MayFail = FALSE
    MayCrash = TRUE
    MayPanic = TRUE
SYMMETRY CallerSymmetry
INVARIANTS
    TypeOK
    Sandboxed
    StatusTruthful
    StatusInv
    FrozenAfterStart
CHECK_DEADLOCK FALSE
