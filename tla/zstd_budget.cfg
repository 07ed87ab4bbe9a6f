SPECIFICATION Spec
CONSTANTS
  k1 = k1
  k2 = k2
  None = None
  Keys = {k1, k2}
  Size <- McSize
  Entries = {e1, e2}
  Reqs = {r1, r2}
  Slots = 2
  Limit = 4
  Chunk = 2
  WriteSizes = {1, 2}
  MaxFaults = 1
INVARIANTS Accounted DiskWithinBudget ServesWhole CloseReleasesAll
SYMMETRY McSymmetry
CHECK_DEADLOCK FALSE
