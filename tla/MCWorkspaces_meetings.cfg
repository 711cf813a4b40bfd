CONSTANTS
    Requests = {"e1", "e2", "e3", "rm", "rf", "xp", "cn", "x1", "x2", "x3"}
    Jobs = {"a", "b"}
    Daemons = {"d1", "d2", "w1", "w2"}
    Kind <- KindOf
    JobOf <- TargetOf
    Workloads <- Meetings
    Connections <- ThreeConnections
    None = None
SPECIFICATION LiveSpec
INVARIANTS
    RequestInv
PROPERTIES
    PublishedCacheKept
    ResultKept
    RequestsEnd
CHECK_DEADLOCK FALSE
