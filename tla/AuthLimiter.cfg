SPECIFICATION FairSpec
CONSTANTS
    Clients = {c1, c2}
    Limit = 2
    Window = 3
INVARIANTS
    TypeOK
    BoundedTries
    LimitedOnlyIfTried
PROPERTIES
    LimitedByOwnFailure
    EventuallyFree
