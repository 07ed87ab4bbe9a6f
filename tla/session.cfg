SPECIFICATION FairSpec
CONSTANTS
  s1 = s1
  s2 = s2
  s3 = s3
  w1 = w1
  w2 = w2
  None = None
  Sessions = {s1, s2, s3}
  Unnamed = {s3}
  Waiters = {w1, w2}
  Mode <- McMode
  Casts <- McCasts
INVARIANTS TypeOK VerifiedResult WaitIsTruthful
PROPERTIES ResultIsFinal StopIsAnswered
CHECK_DEADLOCK FALSE
