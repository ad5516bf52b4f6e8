SPECIFICATION RotationFairSpec
CONSTANTS
  Run = {r0, f1, f2, f3}
  Root = r0
  Account = {acct1, acct2, acct3}
  Priority <- PriorityABC
  None = None
  Home = Home
  Cooldown = 1
  MaxTime = 1
  MaxSign = 2
  Touched = {acct2}
  Follows <- FollowsTree
  MaxTrouble = 1
  MaxTroubled = 3
  r0 = r0
  f1 = f1
  f2 = f2
  f3 = f3
  acct1 = acct1
  acct2 = acct2
  acct3 = acct3
CHECK_DEADLOCK FALSE
INVARIANTS
  RotationConsistent
  SiblingsOnDistinctAccounts
  LimitsAreToldApart
  ResumeFindsTheConversation
PROPERTIES
  StoredFactsAreKept
  PickerLockIsReleased
