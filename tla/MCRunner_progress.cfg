SPECIFICATION RunnerSpec
CONSTANTS
    Jobs = {j1}
    TaskJobs = {j1}
    Slots = {w1, w2}
    Owners = {w1, w2}
    OwnerOf <- OwnProcess
    Eligible <- EverySlotRunsAll
    NoClaim = NoClaim
    BaseStages = 1
    RoundStages = 1
    MaxAttempts <- TwoAttempts
    MaxRounds = 0
    AttemptLimit = 2
    LeaseTerm = 1
    BackoffTerm = 1
    MaxEpoch = 2
    MaxCheckpoints = 2
    Removals = {}
PROPERTIES
    CancellationCompletes
    JobEnds
CHECK_DEADLOCK FALSE
