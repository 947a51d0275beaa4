SPECIFICATION Spec
CONSTANTS
  PageSize = 8
  LowFrames = 2
  ObjectSize = 1
  Maps <- MCMaps
  PageCounts <- MCPageCounts
INVARIANTS
  OwnMemoryLocked
  InUseStaysLocked
  UsableIsFree
  HandsOver
CHECK_DEADLOCK FALSE
