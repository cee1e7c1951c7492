CONSTANTS
  Workers = {0, 1}
  Requests = {a, b}
  Configs <- MCConfigs
  Room = 1
  MaxManagers = 2
  MaxStarts = 1
SPECIFICATION Spec
INVARIANT Pointers
CHECK_DEADLOCK FALSE
PROPERTY FetchAnswered
