CONSTANTS
  k1 = k1
  k2 = k2
  ann = ann
  Ann = Ann
  bob = bob
  b1 = b1
  b2 = b2
  short = short
  None = None
  Blank = Blank
  Clients = {k1, k2}
  Names = {ann, bob, Blank}
  Canonical <- Cleaned
  Bodies = {b1}
  Bad = {}
  Digest <- Argon2id
  Requests <- PostAndLook
  MaxSubs = 2
  Budget <- Faulty
SPECIFICATION FairServerSpec
INVARIANTS
  ClosedUnderNobody
  OwnRowsOnly
  ReadYourWrites
  ServerIndInv
PROPERTY StopEnds
