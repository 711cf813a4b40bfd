CONSTANTS
    s1 = s1
    s2 = s2
    r1 = r1
    r2 = r2
    Slots = {s1, s2}
    Reconcilers = {r1, r2}
    Deployments <- EitherBackend
    None = None
    TheLock = TheLock
    MaxGen = 2
    MaxObjects = 6
SPECIFICATION LiveSpec
INVARIANTS
    ObjectInv
    ReleasedIsGone
PROPERTIES
    ActiveIsSpared
    Provisioned
    EventuallyGone
CHECK_DEADLOCK FALSE
