SPECIFICATION FairSpec
CONSTANTS
  Libs = {l1}
  Requests = {p1}
  Cancelers = {c1}
  MaxRuns = 2
  MaxSeries = 2
  ChanCap = 1
  MaxEdits = 2
  MaxRestarts = 1
  l1 = l1
  p1 = p1
  c1 = c1
  None = None
INVARIANTS
  TypeOK
  CarriedRunsReserved
  ReservedMeansWorking
  StopHitsOwnRun
  ResultsAddUp
PROPERTIES
  RowsFollowLifecycle
  SentJobFreesLibrary
CHECK_DEADLOCK FALSE
