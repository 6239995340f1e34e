CONSTANTS
  Limit = 2
  MaxOutput = 4
SPECIFICATION FairSpec
INVARIANTS
  KilledIsTLE
  OutputIsWhole
  IndInv
PROPERTY RunEnds
CHECK_DEADLOCK FALSE
