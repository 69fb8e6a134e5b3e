SPECIFICATION Spec
CONSTANTS
  a = a
  b = b
  Manager = {a, b}
  Versions = {1, 2}
  Former = {1}
  First = {1}
  Imports = {1}
  Commands <- MCCommands
  MaxCommands = 3
  MaxSnaps = 2
  MaxFaults = 2
  Faults = {"crash", "fail", "drift", "busy"}
CHECK_DEADLOCK FALSE
INVARIANTS
  TypeOK
  ReceiptIsOneStepBack
PROPERTIES
  MarkerGoesLast
  SwitchIsJournaled
  SuccessMeansWhole
  OutcomeIsTrue
