SPECIFICATION Spec
CONSTANTS
  k1 = k1
  k2 = k2
  o1 = o1
  o2 = o2
  Caller = {k1, k2}
  Release <- MCRelease
  First = {1}
  Op = {o1, o2}
  Kinds <- MCKinds
  MaxInstance = 2
  MaxCalls = 1
  Faults = {"slow"}
CHECK_DEADLOCK FALSE
PROPERTIES
  TimedOutNeverStarts
