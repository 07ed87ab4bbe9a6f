SPECIFICATION FairSpec
CONSTANTS
  k1 = k1
  k2 = k2
  None = None
  Keys = {k1, k2}
  Size <- McOneByte
  Entries = {e1, e2}
  Reqs = {r1, r2}
  Slots = 2
  Limit = 1
  Chunk = 1
  WriteSizes = {1}
  MaxFaults = 0
PROPERTIES CloseReturns WaitsOnlyForEviction
CHECK_DEADLOCK FALSE
