SPECIFICATION Spec
CONSTANTS
    a = a
    b = b
    Ids = {a, b}
    Children = {a, b}
    HostName <- Hosts
    PeerName <- Peers
    Configs <- MountArrays
    MayRefuse = TRUE
    MayPanic = TRUE
    MayBreak = TRUE
INVARIANTS
    OkMeansNetworked
    LinksStayHome
    AlwaysAnswered
    HostMountsUntouched
    OldRootGone
    NetInv
    RootInv
PROPERTIES
    ImplementsWiring
CHECK_DEADLOCK FALSE
