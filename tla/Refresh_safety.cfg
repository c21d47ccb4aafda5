SPECIFICATION RefreshFairSpec
CONSTANTS
  e1 = e1
  e2 = e2
  p1 = p1
  p2 = p2
  Entities = {e1, e2}
  Platforms = {p1, p2}
  PlatformOf <- MCPlatformOf
  Images = {"i1", "i2"}
  FirstImage = "i1"
  Recognised = {e1}
  StaleAfter = 1
  GoneAfter = 2
  DedupWindow = 2
  MaxClock = 2
  MaxChanges = 1
  MaxFaults = 1
INVARIANTS GraphIsTrue
PROPERTIES OnlyTheGoneGo
