SPECIFICATION DaemonsFairSpec
CONSTANTS
  Daemon = {d1, d2}
  Client = {c1, c2}
  c1 = c1
  c2 = c2
  VersionOf <- OldAndNew
  NoFile = NoFile
  MaxTrouble = 1
  MaxAsk = 3
CHECK_DEADLOCK FALSE
INVARIANTS
  OneDaemonServes
  ServingDaemonIsReachable
  RunningRunsAreOwned
PROPERTIES
  StaleFilesDoNotBlock
