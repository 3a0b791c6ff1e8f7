CONSTANTS
  NFiles = 2
  Sizes = {3}
  OldSizes = {2}
  Kinds = {"plain", "hardlink", "symlink", "special"}
  Targets = {"none", "dir", "same"}
  Ops = {"copy", "move"}
  BufSize = 2
  ConfirmOverwrite = TRUE
  MaxOps = 1
  MaxRetry = 0
  ShortWrites = TRUE
  LateErrors = TRUE
  StatRaces = TRUE
SPECIFICATION Spec
INVARIANTS MoveCountsAll AppendKeepsOld
