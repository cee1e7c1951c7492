SPECIFICATION Spec
CONSTANTS
  Trees <- Matches
INVARIANT MatchIsEquality
CHECK_DEADLOCK FALSE
