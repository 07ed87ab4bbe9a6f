SPECIFICATION FairSpec
CONSTANTS
  Faults = {}
  p1 = p1
  p2 = p2
  good = good
  evil = evil
  serve = serve
  cli = cli
  Paths = {p1, p2}
  Refs <- McRefs
  Bodies = {good}
  Want <- McWant
  Stripes = {"s1"}
  StripeOf <- McStripeOf
  MaxTime = 0
  Uploads = {u1}
  Reqs = {r1, r2}
  Names = {"n1"}
  NameOf <- McNameOf
  SizeOf <- McSizeOf
  Slots = 1
  MaxIdle = 9
  Runners = {serve}
  Rules <- McShortRule
  Usage = {85}
  Cooldown <- McCooldown
  Epoch = 0
  Loops = {serve}
INVARIANTS SkipFreesNothing
PROPERTIES RequestEnds
CHECK_DEADLOCK FALSE
