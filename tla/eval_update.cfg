CONSTANTS
  Configurations <- Small
  MayBeUnknown = TRUE
  MayBeDisabled = FALSE
  MaxUpdates = 1
  MaxRan = 9
SPECIFICATION Spec
INVARIANTS
  InOrder
  ContextIsOwn
  OnePhaseResumes
CHECK_DEADLOCK FALSE
