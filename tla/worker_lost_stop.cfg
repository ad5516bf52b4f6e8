SPECIFICATION FairWorkerSpec
CONSTANTS
  Run = {r1}
  Resumable = {r1}
  EarlyExit = FALSE
  MaxLine = 1
  MaxFault = 0
CHECK_DEADLOCK FALSE
PROPERTIES
  ForcedStopExits
