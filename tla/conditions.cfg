SPECIFICATION Spec
CONSTANTS
  Trees <- MCTrees
INVARIANTS
  LikeUnsuspended
  StackSpellsPath
CHECK_DEADLOCK FALSE
