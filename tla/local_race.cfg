SPECIFICATION Spec
CONSTANTS
  Producers = {"main", "mr"}
  MaxOverlap = 1
  Mode = "local"
  NJobs = 1
  MaxProgress = 0
  Faults = {"link", "db", "pig", "history", "kill"}
INVARIANTS
  TypeOK
  LocalInv
  FeedInOrder
  SuccessEndsFeed
  CompletedIsReported
  OneVerdict
PROPERTIES
  FeedImplemented
CHECK_DEADLOCK FALSE
