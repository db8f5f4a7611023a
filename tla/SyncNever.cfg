SPECIFICATION Spec
CONSTANTS
    NoTail = 99
    Proc = {p1, p2}
    Me = 1
    App = 2
    TailId <- FourNewTails
    BaseTail = 0
    None = None
    Strategy = "chain_then_client"
    Compaction = "never"
    MaxClock = 1
    MaxChain = 2
    MaxCalls = 2
    MaxApp = 0
INVARIANTS
    TypeOK
    EveryUploadApplied
    ParentsFirst
ACTION_CONSTRAINT IssuedInOrder
CHECK_DEADLOCK FALSE
