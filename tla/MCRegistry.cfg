SPECIFICATION FairSpec
CONSTANTS
  a1 = a1
  Adapter = {a1}
  MaxEpoch = 2
  MaxSession = 2
  MaxAttempt = 3
CHECK_DEADLOCK FALSE
INVARIANTS
  TypeOK
  OneConnectionEach
  AttemptConnectsOnce
  
PROPERTIES
  DebtIsKept
  CurrentIsCompacted
