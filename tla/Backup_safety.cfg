SPECIFICATION Spec
CONSTANTS
  r1 = r1
  r2 = r2
  s1 = s1
  s2 = s2
  Runs = {r1, r2}
  Restores = {s1, s2}
  Old = Old
  Fixed = Fixed
  FirstSigs = {"bad", "none"}
  MaxSpoils = 1
SYMMETRY Alike
INVARIANTS NothingLost EntryIsOwn RestoredAsConfirmed NeverUpOnHalf
CHECK_DEADLOCK FALSE
