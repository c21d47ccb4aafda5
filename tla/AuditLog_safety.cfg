CONSTANTS
  Calls = {a, b, c}
  LongCalls = {c}
  Genesis = genesis
  Garbage = garbage
  MaxEnds = 1
  MaxPeeks = 1
SPECIFICATION LogFairSpec
INVARIANTS ChainIntact InCallOrder
PROPERTIES AppendReturns
CHECK_DEADLOCK FALSE
