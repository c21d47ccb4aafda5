SPECIFICATION Spec
CONSTANTS
  Ranges = {"wide", "low"}
  HostsOf <- MCHostsOf
  FirstOf <- MCFirstOf
  Ports = {80, 443}
  Answering <- MCAnswering
  PortLists <- MCPortLists
  Networks = {"home", "away"}
  Home = "home"
  Concurrency = 2
  Lifetime = 1
  MaxTime = 1
  MaxRuns = 1
  MaxCommands = 2
  MaxEvents = 1
CHECK_DEADLOCK FALSE
INVARIANTS ProbesAreCapped FoundIsKept
PROPERTIES ScanIsApproved RunEnds
