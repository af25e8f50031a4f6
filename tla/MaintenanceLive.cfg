SPECIFICATION FairSpec
CONSTANTS
  Series = {s1}
  Books = {b1}
  Requests = {p1}
  Ops = {"book_index", "series_index", "series_thumbnail"}
  MaxRuns = 2
  ChanCap = 1
  MaxChanges = 1
  MaxRestarts = 1
  s1 = s1
  b1 = b1
  p1 = p1
  None = None
PROPERTIES
  RowsFollowLifecycle
  CancelBeforeStartHolds
  AcceptedRunEnds
CHECK_DEADLOCK FALSE
