SPECIFICATION NLSpec
CONSTANTS
    Ids <- SampleIds
    Indices = {2, 70000}
    Fds = {3, 11}
INVARIANTS
    MessageUnderstood
    Framed
CHECK_DEADLOCK FALSE
