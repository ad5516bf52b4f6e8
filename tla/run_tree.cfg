SPECIFICATION RunTreeSpec
CONSTANTS
  MaxRun = 3
  MaxStart = 1
  Supervisor = {"o1"}
  Call = {c1}
  Asked <- Calls
  SnapshotLimit = 2
  MaxPrune = 1
CHECK_DEADLOCK FALSE
INVARIANTS
  InheritanceHolds
  SessionsAreShownApart
