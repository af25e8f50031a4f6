SPECIFICATION FairSpec
CONSTANTS
  Series = {s1}
  Books = {1, 2}
  Gens = {g1, g2}
  Looks = {k1}
  Clearer = clearer
  MaxChanges = 1
  MaxRestarts = 1
  s1 = s1
  g1 = g1
  g2 = g2
  k1 = k1
  clearer = clearer
  None = None
INVARIANTS
  JudgedRowUnchanged
  ServesItsBook
PROPERTIES
  ClaimsAreReleased
CHECK_DEADLOCK FALSE
