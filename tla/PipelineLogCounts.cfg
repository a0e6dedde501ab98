\* The counts of the log line are read before the counter has caught up.
SPECIFICATION Spec
CONSTANTS
  Workers = {w1}
  RunCount = 2
  QueueFactor = 1
  Inputs <- TwoTargets
  Crashes = {}
INVARIANTS
  LogCountsAllGrabs
