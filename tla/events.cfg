SPECIFICATION EventSpec
CONSTANTS
  Appender = {a1, a2}
  Summarizer = {s1, s2}
  Client = {k1}
  Limit = 2
  MaxEvent = 4
  MaxCrash = 2
  Free = Free
  Stale = Stale
  Torn = Torn
SYMMETRY EventSymmetry
CHECK_DEADLOCK FALSE
INVARIANTS
  SequencesAreConsecutive
  ReaderSkipsNothing
  NumbersNeverJump
