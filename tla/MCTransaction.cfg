SPECIFICATION Spec
CONSTANTS
  Tx = {"t1", "t2"}
  Script = {"A", "B"}
  Slot = {"C", "D"}
  Targets <- MCTargets
  Faults = {"late", "editor", "lost", "old"}
  MaxUser = 2
  MaxFaults = 2
  MaxAsked = 5
CHECK_DEADLOCK FALSE
INVARIANTS
  TypeOK
PROPERTIES
  ReceiptIsTrue
  UserWorkKept
  RecoveryHasCause
