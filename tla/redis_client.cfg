SPECIFICATION FairSpec
CONSTANTS
  Greetings = 1
  Scripts = 2
  Rulesets = 2
  MaxLosses = 2
  MaxTroubles = 2
  MaxWrites = 2
INVARIANTS OwnAnswer FreedIsUnheard Agreement
PROPERTIES Settles
CHECK_DEADLOCK FALSE
