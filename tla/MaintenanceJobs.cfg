SPECIFICATION Spec
CONSTANTS
  Series = {s1, s2}
  Books = {b1, b2}
  Requests = {p1}
  Ops = {"book_index", "series_index"}
  MaxRuns = 2
  ChanCap = 1
  MaxChanges = 2
  MaxRestarts = 0
  s1 = s1
  s2 = s2
  b1 = b1
  b2 = b2
  p1 = p1
  None = None
SYMMETRY TargetSymmetry
INVARIANTS
  CarriedRunsReserved
  LeakOnlyByCascade
  ResultsAddUp
CHECK_DEADLOCK FALSE
