SPECIFICATION FairSpec
CONSTANTS
  Books = {1, 2}
  Series = {s1}
  OneShots = {}
  Readers = {r1}
  Worker = worker
  Pages = 1
  Remaining = 1
  Cap = 1
  MaxChanges = 1
  s1 = s1
  r1 = r1
  worker = worker
  None = None
INVARIANTS
  OwnVersion
  PendingAgrees
PROPERTIES
  QueuedJobIsTaken
CHECK_DEADLOCK FALSE
