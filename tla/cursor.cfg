SPECIFICATION CursorFairSpec
CONSTANTS
  Run = {r1}
  File = {f1}
  Heard <- MCHeard
  Raised <- MCRaised
  MaxMessage = 2
  MaxEdit = 1
  MaxTrouble = 1
CHECK_DEADLOCK FALSE
INVARIANTS
  EndsAreWhole
PROPERTIES
  RunsEndAsAsked
  ChangedFilesAreNamed
