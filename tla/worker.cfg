SPECIFICATION FairWorkerSpec
CONSTANTS
  Run = {r1}
  Resumable = {r1}
  EarlyExit = TRUE
  MaxLine = 2
  MaxFault = 1
CHECK_DEADLOCK FALSE
INVARIANTS
  OneWorkerAtATime
  KilledAttemptLeavesNoEvents
  NoEventLost
  EndedRunHasNoWorker
  EndsAreToldTruly
PROPERTIES
  SupervisionEnds
