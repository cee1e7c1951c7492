CONSTANTS
  Configurations <- DocumentedArrays
  MayBeUnknown = FALSE
  MayBeDisabled = FALSE
  MaxUpdates = 0
  MaxRan = 20
SPECIFICATION Spec
INVARIANT ArraysDone
CHECK_DEADLOCK FALSE
