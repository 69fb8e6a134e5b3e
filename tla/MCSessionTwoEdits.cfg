SPECIFICATION Spec
CONSTANTS
  e1 = e1
  e2 = e2
  r1 = r1
  r2 = r2
  c1 = c1
  c2 = c2
  s1 = s1
  w1 = w1
  p1 = p1
  None = None
  Op = {e1, e2, r1}
  Kind <- MCKind
  JobOps = {e1, r1}
  Creates = {e1}
  Modes = {"edit"}
  MaxGeneration = 3
CHECK_DEADLOCK FALSE
INVARIANTS
  UnprovenIsFenced
  JobVerdictSound
PROPERTIES
  LedgerSpec
