CONSTANTS
  Workers = {w1, w2}
  Requests = {r1}
  Keys = {k1, k2}
  Values = {v1, v2}
  NULL = NULL
  MaxStarts = 2
  MaxQueue = 1
SPECIFICATION FairSpec
INVARIANTS
  PointersAlive
  ManagerTable
  GrantsAccounted
  ReleaseMatches
  RightKey
PROPERTIES
  DeathsExplained
  RequestResumed
  SpentIsFreed
CHECK_DEADLOCK FALSE
