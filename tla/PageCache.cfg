SPECIFICATION FairSpec
CONSTANTS
  Keys = {k1, k2}
  Readers = {r1, r2}
  Saver = saver
  Conns = 2
  Limits = {1}
  MaxChanges = 1
  MaxFaults = 1
  k1 = k1
  k2 = k2
  r1 = r1
  r2 = r2
  saver = saver
  None = None
INVARIANTS
  FlightAgrees
  RowsFitLimit
PROPERTIES
  CallsReturn
CHECK_DEADLOCK FALSE
