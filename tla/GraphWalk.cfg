SPECIFICATION Spec
CONSTANTS
    NoTail = 99
    TailId <- Four
    Listings <- SmallListings
    Frontiers <- UpToTwoTails
INVARIANTS
    ResolvesExactly
    AppliedParentsFirst
    ChronologicalIfDated
    AnswersRight
PROPERTIES
    WalkEnds
CHECK_DEADLOCK FALSE
