SPECIFICATION Spec
CONSTANTS
  Files = {"a", "b"}
  Texts = {"one"}
  Faults = {"open", "write", "rename"}
INVARIANTS TypeOK TextIsOnDisk SafeSaveKeeps
PROPERTIES SafeSaveReplaces DeletesOnlyUnsaved
CHECK_DEADLOCK FALSE
