SPECIFICATION Spec
CONSTANTS
  None = None
  Builder = Builder
  Reqs = {r1}
  Trees <- McTrees
  Refs <- McRefs
  MaxDirDepth = 2
  MaxAdds = 1
  MaxRestarts = 0
  MaxFaults = 1
INVARIANTS RefsAsHeld
