SPECIFICATION ProfilesFairSpec
CONSTANTS
  a1 = a1
  Path = {"pin", "other"}
  Pin = "pin"
  RelativeAt <- Directories
  Id = {p1, p2}
  Account = {a1}
  Offer <- Offers
  Call = {c1, c2}
  Starter = {s1}
  MaxAsk = 2
  MaxStart = 1
  MaxEdit = 1
  MaxTrouble = 1
CHECK_DEADLOCK FALSE
INVARIANTS
  ManifestsKeepUpserts
  RunsFitTheirBackend
PROPERTIES
  WritesAreGuarded
