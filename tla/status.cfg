SPECIFICATION StatusFairSpec
CONSTANTS
  Run = {r1}
  Cli = {c1}
  Event = {"waiting_for_user", "session_ended"}
  Job = {j1, j2}
  MaxEntry = 2
  MaxSlot = 2
  MaxTrouble = 1
CHECK_DEADLOCK FALSE
INVARIANTS
  StatusIsRight
PROPERTIES
  SessionsAreFollowed
  EngineComesToRest
