CONSTANTS
  Readers = {r1, r2, r3}
  Disallowed = 10
  MaxDrift = 1
SPECIFICATION Spec
SYMMETRY Symmetry
INVARIANTS
  TypeOK
  ReadingAccounts
  CountedExcluded
  OnlyMissed
  ReservedPasses
CHECK_DEADLOCK FALSE
