SPECIFICATION Spec
CONSTANTS
  c1 = c1
  c2 = c2
  h1 = h1
  Consoles = {c1, c2}
  Histories = {h1}
  NoPage = NoPage
  MaxRuns = 4
  RowsPerPage = 2
  Downloads = {"output", "progress", "explain", "error"}
  MaxClicks = 3
CONSTRAINT FewLaunches
INVARIANTS
  TypeOK
  OwnDownload
  HistoryIsHarmless
  HistoryIsComplete
CHECK_DEADLOCK FALSE
