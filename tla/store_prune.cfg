SPECIFICATION Spec
CONSTANTS
  Run = {r1, r2}
  Caller = {c1, c2}
  Outcome = {"failed"}
  Error = {"fatal"}
  Pruner = {c1, c2}
  MaxCrash = 0
  MaxThrow = 0
  Boot = Boot
  NoRun = NoRun
  Free = Free
  Stale = Stale
SYMMETRY RunSymmetry
INVARIANTS
  SentinelHasLine
  OneFatalNotification
