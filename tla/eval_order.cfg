CONSTANTS
  Configurations <- OneRuleset
  MayBeUnknown = TRUE
  MayBeDisabled = TRUE
  MaxUpdates = 0
  MaxRan = 20
SPECIFICATION FairSpec
PROPERTIES
  ImplementsOrder
  Decided
CHECK_DEADLOCK FALSE
