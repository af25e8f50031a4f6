SPECIFICATION Spec
CONSTANTS
  root = root
  a = a
  Files = {1, 2}
  Dirs <- MCDirs
  Root = root
  Children <- MCChildren
  Rank <- MCRank
  PageSize = 1
  None = None
  MaxRuns = 2
  MaxMoves = 1
  MaxEdits = 2
  MaxRestarts = 1
INVARIANTS
  TypeOK
  ModeUniform
  OldStructureKept
  SuccessMatchesTree
  StagingBelongsToScan
CHECK_DEADLOCK FALSE
