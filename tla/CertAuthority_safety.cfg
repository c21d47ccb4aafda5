SPECIFICATION Spec
CONSTANTS
  Platforms = {p1, p2}
  Callers = {c1, c2}
  NoPlatform = NoPlatform
  MaxCalls = 5
  MaxFaults = 1
INVARIANTS SerialsOnce NeededStaysActive RestIsWhole
PROPERTIES RevokedForGood
CHECK_DEADLOCK FALSE
