SPECIFICATION Spec
CONSTANTS
  p1 = p1
  Pages = {p1, p2}
  p2 = p2
  NoPage = NoPage
  Feeds <- LongFeeds
  Clicks = {"execute", "explain", "optimize", "kill", "chart", "select", "refused"}
  MaxClicks = 2
  Split = FALSE
INVARIANTS
  TypeOK
  ServerStaysUp
  UpInv
  LogInOrder
  NoGaps
SYMMETRY SamePages
CHECK_DEADLOCK FALSE
