SPECIFICATION Spec
CONSTANTS
  Libs = {l1, l2}
  Runs = {r1, r2}
  Handlers = {h1}
  Backgrounds = {}
  Cancelers = {c1}
  Admins = {a1}
  ChanCap = 1
  MaxEdits = 1
  MaxRestarts = 1
  l1 = l1
  l2 = l2
  r1 = r1
  r2 = r2
  h1 = h1
  c1 = c1
  a1 = a1
  None = None
SYMMETRY RunSymmetry
INVARIANTS
  TypeOK
  OneScanPerLibrary
  Bookkeeping
  LiveRowReserved
  StopHitsOwnRun
  RunningLibraryIsScanned
PROPERTIES
  RowsFollowLifecycle
CHECK_DEADLOCK FALSE
