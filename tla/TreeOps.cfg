CONSTANTS
  NNodes = 6
  Parent <- DeepParent
  Dirs <- DeepDirs
  Jobs = {"copy", "move", "delete"}
  Targets = {"none", "dir", "dirdir"}
  MaxRetry = 1
SPECIFICATION FairSpec
INVARIANTS Consistent MoveKeeps SkippedStays
PROPERTIES AbortStopsEntry OperationEnds
