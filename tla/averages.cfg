SPECIFICATION Spec
CONSTANTS
  r1 = r1
  r2 = r2
  r3 = r3
  other = other
  Runs <- MCRuns
  Key <- MCKey
  MaxCPU = 1
  Script <- MCScript
  Sizes = {0, 1, 7, 8, 22, 23, 100}
  Word = 4096
INVARIANTS
  AveragesInv
  AverageWithinSamples
  TotalIsSum
  ExactWithoutOverlap
  PredictionIsSound
SYMMETRY Executions
CHECK_DEADLOCK FALSE
