SPECIFICATION LiveSpec
CONSTANTS
    Units = {u1}
    Findings = {f1}
    None = None
    LastOrdinal = 3
    MaxReviewCycles = 2
    MaxAttempts <- ReviewTwice
    MaxFaults = 1
    MaxCalls = 1
INVARIANTS
    ReviewInv
    FirstReviewSound
    CancelledIsClean
    ApprovedIsWhatShips
PROPERTIES
    PlanIsPure
    CyclesInOrder
    Settles
CHECK_DEADLOCK FALSE
