CONSTANTS
  Grace = 1
  Capacity = 1
  MaxEvents = 3
  MaxFlaps = 2
  Sent = {"note", "request", "error", "item", "completed", "failed", "foreign"}
  Faults = {"cancel", "lease", "monitor", "server"}
SPECIFICATION LiveSpec
INVARIANTS
    WaitInv
    OwnTurnDecides
    ReviewLeavesNoTrace
PROPERTIES
    NothingHangs
CHECK_DEADLOCK FALSE
