SPECIFICATION Spec
CONSTANTS
  gc = gc
  push = push
  None = None
  Callers = {gc, push, other}
  Stripes = {s1}
  Dirs = {d1, d2, d3}
  Files = {f1, f2, f3}
  User <- McUser
  Owner = "tsnixcache"
  Waits = {push, other}
  MaxFaults = 2
INVARIANTS TypeOK LeftoversAreHarmless
PROPERTIES ImplementsRootLock LockInodesStay
SYMMETRY McSymmetry
CHECK_DEADLOCK FALSE
