CONSTANTS
  k1 = k1
  k2 = k2
  ann = ann
  Ann = Ann
  bob = bob
  b1 = b1
  b2 = b2
  short = short
  None = None
  Blank = Blank
  Clients = {k1, k2}
  Names = {ann, Ann, Blank}
  Canonical <- Cleaned
  Bodies = {b1, b2, short}
  Bad = {short}
  Digest <- Argon2id
  Requests <- SameNames
  MaxSubs = 1
  Budget <- EachOnce
SPECIFICATION Spec
INVARIANTS
  TypeOK
  AnswersTrue
  AdminWhenCreating
PROPERTIES
  AccountsTakenOnce
  SlugsTakenOnce
CHECK_DEADLOCK FALSE
