SPECIFICATION Spec
CONSTANTS
    NoTail = 99
    TailId <- Four
    Listings <- SmallListings
    Frontiers <- UpToTwoTails
INVARIANTS
    AppliedChronologically
CHECK_DEADLOCK FALSE
