CONSTANTS
  Actions = {a}
  Classes = {"read-only", "reversible", "persistent-modifying", "data-affecting", "architectural"}
  Delay = 2
  MaxTime = 4
  Ttl = 1
  MaxAge = 1
  FirstBackups <- SomeManifests
SPECIFICATION GateFairSpec
INVARIANTS ApprovedWithEvidence RevokedNeverApproved
PROPERTIES GateReturns
CHECK_DEADLOCK FALSE
