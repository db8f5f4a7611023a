SPECIFICATION LogSpec
CONSTANTS
    NoTail = 99
    Proc = {p1, p2}
    Me = 1
    App = 2
    TailId <- ThreeNewTails
    BaseTail = 0
    None = None
    Strategy = "chain_then_client"
    Compaction = "quiescent"
    MaxClock = 0
    MaxChain = 2
    MaxCalls = 2
    MaxApp = 1
PROPERTIES
    ImplementsLog
ACTION_CONSTRAINT IssuedInOrder
CHECK_DEADLOCK FALSE
