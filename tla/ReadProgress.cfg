SPECIFICATION Spec
CONSTANTS
  Books = {1, 2}
  Series = {s1, s2}
  Calls = {c1}
  Pages = 1
  MaxChanges = 1
  s1 = s1
  s2 = s2
  c1 = c1
  None = None
INVARIANTS
  PutIsStrict
CHECK_DEADLOCK FALSE
