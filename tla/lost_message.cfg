SPECIFICATION Spec
CONSTANTS
  Producers = {"main", "mr"}
  MaxOverlap = 1
  Mode = "local"
  NJobs = 1
  MaxProgress = 0
  Faults = {}
INVARIANTS
  NothingLost
CHECK_DEADLOCK FALSE
