SPECIFICATION Spec
CONSTANTS
    worker = worker
    Jobs = {j1}
    TaskJobs = {j1}
    Slots = {s1, s2}
    Owners = {worker}
    OwnerOf <- OneWorker
    Eligible <- EverySlotRunsAll
    NoClaim = NoClaim
    BaseStages = 2
    RoundStages = 1
    MaxAttempts <- FirstTwice
    MaxRounds = 1
    AttemptLimit = 2
    LeaseTerm = 1
    BackoffTerm = 1
    MaxEpoch = 2
    MaxCheckpoints = 1
SYMMETRY Symmetry
INVARIANTS
    Inv
    FenceExclusive
    ProgressNotForked
PROPERTIES
    CancellationSticks
    ImplementsLifecycle
CHECK_DEADLOCK FALSE
