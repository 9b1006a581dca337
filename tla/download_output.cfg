SPECIFICATION Spec
CONSTANTS
  c1 = c1
  c2 = c2
  h1 = h1
  Consoles = {c1}
  Histories = {h1}
  NoPage = NoPage
  MaxRuns = 2
  RowsPerPage = 2
  Downloads = {"output"}
  MaxClicks = 2
INVARIANT ServerStaysUp
CHECK_DEADLOCK FALSE
