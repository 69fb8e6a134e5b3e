SPECIFICATION LifecycleSpec
CONSTANTS
  r1 = r1
  r2 = r2
  s1 = s1
  None = None
  PlayRequest = {r1, r2}
  StopRequest = {s1}
  MaxTransitions = 2
  MaxGeneration = 3
  Faults = {"loss", "delay", "ttl", "watchdog", "lease", "broker", "user", "script", "crash"}
INVARIANTS
  LifecycleTypeOK
  RecordSound
  FencedWhileActive
  OutcomeIsHowItEnded
PROPERTIES
  TransitionKeptWhileLive
  PromiseSpec
