SPECIFICATION Spec
CONSTANTS
  p1 = p1
  Pages = {p1}
  NoPage = NoPage
  Feeds <- ShortFeeds
  Clicks = {"execute"}
  MaxClicks = 1
  Split = TRUE
INVARIANTS
  NoGaps
CHECK_DEADLOCK FALSE
