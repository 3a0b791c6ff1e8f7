CONSTANTS
  NFiles = 1
  Sizes = {0, 3}
  OldSizes = {2}
  Kinds = {"plain"}
  Targets = {"none"}
  Ops = {"move"}
  BufSize = 2
  ConfirmOverwrite = TRUE
  MaxOps = 1
  MaxRetry = 1
  ShortWrites = TRUE
  LateErrors = FALSE
  StatRaces = FALSE
SPECIFICATION Spec
INVARIANTS MoveNeverLoses
