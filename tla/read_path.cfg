SPECIFICATION FairSpec
CONSTANTS
  None = None
  Builder = Builder
  Reqs = {r1}
  Trees <- McTrees
  Refs <- McRefs
  MaxDirDepth = 2
  MaxAdds = 1
  MaxRestarts = 1
  MaxFaults = 2
INVARIANTS TypeOK CleanIsWhole
PROPERTIES ReadEnds
