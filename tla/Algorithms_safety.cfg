SPECIFICATION Spec
CONSTANTS
  Readings <- MCReadings
  Inventories <- MCInventories
  Sweeps <- MCSweeps
  Databases <- MCDatabases
  Enrichments <- MCEnrichments
  Questions <- MCQuestions
  Setups <- MCSetups
  Connections <- MCConnections
INVARIANTS
  WorseIsNotMilder
  DriftIsRepaired
  HostsAreReached
  FailureIsContained
  NewestLogs
CHECK_DEADLOCK FALSE
