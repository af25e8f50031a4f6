SPECIFICATION Spec
CONSTANTS
  Libs = {l1}
  Runs = {r1, r2}
  Handlers = {h1}
  Backgrounds = {b1}
  Cancelers = {c1}
  Admins = {a1}
  ChanCap = 1
  MaxEdits = 1
  MaxRestarts = 1
  l1 = l1
  r1 = r1
  r2 = r2
  h1 = h1
  b1 = b1
  c1 = c1
  a1 = a1
  None = None
INVARIANTS
  ReservedMeansScanning
CHECK_DEADLOCK FALSE
