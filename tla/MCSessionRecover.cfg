SPECIFICATION FairSpec
CONSTANTS
  e1 = e1
  e2 = e2
  r1 = r1
  r2 = r2
  c1 = c1
  c2 = c2
  s1 = s1
  w1 = w1
  p1 = p1
  None = None
  Op = {e1, r1, r2, c1}
  Kind <- MCKind
  JobOps = {e1, r1, c1}
  Creates = {e1}
  Modes = {"edit"}
  MaxGeneration = 2
CHECK_DEADLOCK FALSE
INVARIANTS
  TypeOK
  RecoveryOwnsUncertainty
  UnknownJobHasEvidence
PROPERTIES
  CleanupKept
  EveryOperationEnds
