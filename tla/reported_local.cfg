SPECIFICATION FairSpec
CONSTANTS
  Producers = {"main", "mr"}
  MaxOverlap = 0
  Mode = "local"
  NJobs = 2
  MaxProgress = 0
  Faults = {"pig", "history"}
INVARIANTS
  NothingLost
  SuccessIsDue
  ExplainRunsNoJob
  LogOrder
PROPERTIES
  ScriptIsReported
  SuccessEndsJvm
CHECK_DEADLOCK FALSE
