SPECIFICATION Spec
CONSTANTS
    Proc = {p1, p2}
    ClientId = {a, b, c}
    NoId = NoId
    Concurrent = FALSE
    Crashes = "spaced"
    MaxDeltas = 2
INVARIANTS
    TypeOK
    Remembered
    OneIdentity
CHECK_DEADLOCK FALSE
