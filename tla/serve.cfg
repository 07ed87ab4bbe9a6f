SPECIFICATION FairSpec
CONSTANTS
  None = None
  Procs = {1, 2}
  Clients = {c1}
  Local = {"lo1", "lo2"}
  Tsnet = {"ts"}
  DefaultAddr = "lo1"
  Scenarios <- McScenarios
INVARIANTS TypeOK AckedUploadKept CleanShutdown AllListenersUp WriteNeedsGrant
PROPERTIES StopEnds
CHECK_DEADLOCK FALSE
