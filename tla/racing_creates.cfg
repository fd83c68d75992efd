SPECIFICATION Spec
CONSTANTS
    s1 = s1
    s2 = s2
    c1 = c1
    NoPid = NoPid
    Shims = {s1, s2}
    Callers = {c1}
    Ops = {"start", "kill", "delete", "force"}
    ExitCodes = {3}
    PidLen = 5
    Backlog = 1
    MayFail = TRUE
    MayCrash = FALSE
    MayPanic = FALSE
SYMMETRY ShimSymmetry
INVARIANTS
    AtMostOneRunning
    PublishedPid
    SandboxInv
PROPERTY
    ImplementsLifecycle
    ImplementsWiring
CHECK_DEADLOCK FALSE
