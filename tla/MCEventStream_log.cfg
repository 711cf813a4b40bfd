SPECIFICATION Spec
CONSTANTS
    Attempts = {a1, a2}
    Reporters = {r1, r2}
    Keys = {k1}
    NoKey = NoKey
    Nobody = Nobody
    PageSize = 2
    MaxSeq = 4
    MaxRounds = 1
INVARIANTS
    AttemptEventsDelivered
    FinalReplayComplete
    KeyedEventsOnce
PROPERTIES
    FollowerEnds
CHECK_DEADLOCK FALSE
