SPECIFICATION Spec
CONSTANTS
  Producers = {"main", "mr"}
  MaxOverlap = 1
  Mode = "mapreduce"
  NJobs = 1
  MaxProgress = 1
  Faults = {"cluster"}
  MaxQueue = 2
INVARIANTS
  SoundWithoutOverlap
  SentOnce
  SentIsLogged
CONSTRAINT ShortRaces
CHECK_DEADLOCK FALSE
