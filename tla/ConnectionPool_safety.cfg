CONSTANTS
  i = i  j = j  k = k  a = a  b = b  c = c
  Ids = {i, j, k}
  Callers = {a, b, c}
  Asks <- MCAsks
  Sweeps = {s}
  None = none
  MaxConnections = 2
  IdleTimeout = 1
  MaxClock = 2
SPECIFICATION PoolFairSpec
INVARIANTS PooledIsOpen NoLeak
PROPERTIES CallsReturn
CHECK_DEADLOCK FALSE
