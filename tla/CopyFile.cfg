CONSTANTS
  NFiles = 2
  Sizes = {0, 3}
  OldSizes = {2}
  Kinds = {"plain"}
  Targets = {"none"}
  Ops = {"copy", "move"}
  BufSize = 2
  ConfirmOverwrite = TRUE
  MaxOps = 1
  MaxRetry = 1
  ShortWrites = FALSE
  LateErrors = FALSE
  StatRaces = FALSE
SPECIFICATION FairSpec
INVARIANTS TypeOK MoveNeverLoses CopiedAsDecided
PROPERTIES AbortSkipsTheRest UntaggedOnSuccess OperationEnds
