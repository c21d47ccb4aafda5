CONSTANTS
  f = f  g = g  s1 = s1  s2 = s2   m1 = m1
  Faults = {f, g}
  Keys = {"key"}
  KeyOf <- MCKeyOf
  DaemonScans = {s1, s2}
  CliScans = {}
  Obs <- MCObs
  Manuals = {m1}
  Window = 2
  Retention = 2
  MaxTime = 3
  MaxCrashes = 1
SPECIFICATION FairSpec
INVARIANTS Spaced NoOrphans
PROPERTIES ScansEnd
CHECK_DEADLOCK FALSE
