SPECIFICATION FairSpec
CONSTANTS
  Workers = 2
  PipeRoom = 1
  Settings <- Situations
  MaxAlerts = 2
  MaxCrashes = 1
INVARIANTS ToItsHandler OnceOrToSlotZero
PROPERTIES ImplementsQueue Arrives
CHECK_DEADLOCK FALSE
