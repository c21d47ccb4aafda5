CONSTANTS
  Ids = {a}
  Delay = 2
  MaxTime = 4
  MaxCrashes = 1
  MaxCancels = 2
  CancelsBy = {"cancel", "cliCancel"}
SPECIFICATION FairSpec
INVARIANTS RevokedStands
PROPERTIES ImplementsContract CallersHearUndisturbed
CHECK_DEADLOCK FALSE
