SPECIFICATION FairSpec
CONSTANTS
  k1 = k1
  k2 = k2
  o1 = o1
  o2 = o2
  Caller = {k1, k2}
  Release <- MCRelease
  First = {1}
  Op = {o1, o2}
  Kinds <- MCKinds
  MaxInstance = 2
  MaxCalls = 1
  Faults = {"slow", "crash", "reply", "kill"}
CHECK_DEADLOCK FALSE
INVARIANTS
  TypeOK
  StopLosesNothing
  ExecutedOnce
  NoCollision
PROPERTIES
  CallsEnd
  FenceResolves
