SPECIFICATION FairSpec
CONSTANTS
  Run = {r1}
  Caller = {c1, c2}
  Outcome = {"completed", "cancelled"}
  Error = {"fatal"}
  Pruner = {}
  MaxCrash = 1
  MaxThrow = 1
  Boot = Boot
  NoRun = NoRun
  Free = Free
  Stale = Stale
INVARIANTS
  ResultMatchesStatus
  AnnouncedOnceAndTruly
  JournalIsOrdered
PROPERTIES
  ImplementsLifecycle
  EveryEndAnnounced
