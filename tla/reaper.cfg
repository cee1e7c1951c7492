SPECIFICATION FairSpec
CONSTANTS
  Things = {t1, t2, t3}
  NULL = NULL
  RatioNum = 1
  RatioDen = 2
INVARIANTS ListOK CursorListed AskedOnce TimerArmed
PROPERTIES ImplementsQueue RipeIsReaped ScanEnds
CHECK_DEADLOCK FALSE
