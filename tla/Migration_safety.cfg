CONSTANTS
  Migs = {m}
  Delay = 1
  MaxTime = 2
  MaxCrashes = 1
  MaxCancels = 1
  MaxFaults = 2
SPECIFICATION FairSpec
INVARIANTS ExecuteIsApproved ExecutionsCounted
PROPERTIES Settles
CHECK_DEADLOCK FALSE
