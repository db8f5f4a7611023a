SPECIFICATION Spec
CONSTANTS
    Assigned <- Assigned1
    Intervals <- Intervals1
    Days <- EndsOfMonths
    Statuses <- Statuses1
    MaxEdits = 1
INVARIANTS
    TypeOK
    UrgentFirst
    DueIsAhead
PROPERTIES
    MarkedIsNotDue
    MonthsKeepTheDay
CHECK_DEADLOCK FALSE
