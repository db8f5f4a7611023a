SPECIFICATION Spec
CONSTANTS
    Proc = {p1, p2}
    ClientId = {a, b, c}
    NoId = NoId
    Concurrent = TRUE
    Crashes = "none"
    MaxDeltas = 2
INVARIANTS

    OneIdentity
CHECK_DEADLOCK FALSE
