SPECIFICATION Spec
CONSTANTS
  Callers = {a, b}
  Broken = {b}
  Observations = {o1, o2}
  Fixable = {o1}
  Attempts = 3
  MaxCalls = 4
  MaxFaults = 1
  MaxFixes = 2
INVARIANTS ReportIsTrue ForcedAsApproved
PROPERTY CallsReturn
CHECK_DEADLOCK FALSE
