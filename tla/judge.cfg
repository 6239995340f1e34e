CONSTANTS
  None = None
  Broken = Broken
  NumTests = 3
  Expected <- ExpectNothing
  Outputs <- Reports
  Faults <- EveryFaultOnce
SPECIFICATION FairSpec
INVARIANTS
  TypeOK
  VerdictIsEarned
  RowsFitAnswer
  OneContainer
  IndInv
PROPERTY RunReturns
CHECK_DEADLOCK FALSE
