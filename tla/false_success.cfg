SPECIFICATION Spec
CONSTANTS
  Producers = {"main", "mr"}
  MaxOverlap = 0
  Mode = "local"
  NJobs = 1
  MaxProgress = 0
  Faults = {}
INVARIANTS
  VerdictIsTrue
CHECK_DEADLOCK FALSE
