SPECIFICATION FairLifecycleSpec
CONSTANTS
  r1 = r1
  r2 = r2
  s1 = s1
  None = None
  PlayRequest = {r1, r2}
  StopRequest = {s1}
  MaxTransitions = 2
  MaxGeneration = 2
  Faults = {"ttl", "script", "delay"}
PROPERTIES
  StopCompletes
