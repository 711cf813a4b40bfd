SPECIFICATION Spec
CONSTANTS
    Ids = {a, b, c, d}
    MaxWorkUnits = 4
    MaxDependencies = 3
INVARIANTS
    PlanInv
PROPERTIES
    RefusedIsCyclic
CHECK_DEADLOCK FALSE
