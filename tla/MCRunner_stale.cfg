SPECIFICATION RunnerSafety
CONSTANTS
    Jobs = {j1}
    TaskJobs = {j1}
    Slots = {w1, w2}
    Owners = {w1, w2}
    OwnerOf <- OwnProcess
    Eligible <- EverySlotRunsAll
    NoClaim = NoClaim
    BaseStages = 2
    RoundStages = 1
    MaxAttempts <- OneAttempt
    MaxRounds = 0
    AttemptLimit = 1
    LeaseTerm = 1
    BackoffTerm = 0
    MaxEpoch = 2
    MaxCheckpoints = 1
    Removals = {}
INVARIANTS
    SucceededWorkKept
CHECK_DEADLOCK FALSE
