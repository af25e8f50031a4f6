SPECIFICATION OrderedSpec
CONSTANTS
  Libs = {1, 2, 3}
  Runs = {1, 2, 3}
  Handlers = {}
  Backgrounds = {b1}
  Cancelers = {c1}
  Admins = {}
  ChanCap = 1
  MaxEdits = 0
  MaxRestarts = 1
  b1 = b1
  c1 = c1
  None = None
PROPERTIES
  CancelBeforeStartHolds
  AcceptedRunEnds
  ReservedCallReturns
  CancelledScanEnds
ACTION_CONSTRAINT InOrder
CHECK_DEADLOCK FALSE
