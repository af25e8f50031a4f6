SPECIFICATION Spec
CONSTANTS
  Readers = {r1, r2}
  Size = 3
  BlockSizes = {2, 3}
  Offsets = {0, 2}
  Lengths = {1, 4}
  MaxAsks = 2
  r1 = r1
  r2 = r2
INVARIANTS
  ReadsTheFile
  RetryHasNewURL
CHECK_DEADLOCK FALSE
