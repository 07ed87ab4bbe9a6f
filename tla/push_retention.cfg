SPECIFICATION Spec
CONSTANTS
  Faults = {"root", "import", "power", "crash", "prune", "collect"}
  p1 = p1
  p2 = p2
  good = good
  evil = evil
  serve = serve
  cli = cli
  Paths = {p1}
  Refs <- McNoRefs
  Bodies = {good, evil}
  Want <- McWant
  Stripes = {"s1"}
  StripeOf <- McStripeOf
  MaxTime = 1
  Uploads = {u1}
  Reqs = {r1, r2}
  Names = {"n1"}
  NameOf <- McNameOf
  SizeOf <- McSizeOf
  Slots = 1
  MaxIdle = 1
  Runners = {cli}
  Rules <- McOneRule
  Usage = {85}
  Cooldown <- McCooldown
  Epoch = 0
  Loops = {}
INVARIANTS Accounted AckedRetained RootsKept StoreHoldsVerified
SYMMETRY McSymmetry
CHECK_DEADLOCK FALSE
