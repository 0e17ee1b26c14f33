SPECIFICATION ExpirySpec
CONSTANTS
    Times <- MCTimes
    DayCounts = {1, 2, 3}
    NoDate = NoDate
INVARIANTS
    FilterAgrees
    GraceAfterStart
    WarningComesInTime
CHECK_DEADLOCK FALSE
