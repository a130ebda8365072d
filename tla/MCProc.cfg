SPECIFICATION Spec
CONSTANTS
  MaxProcs = 5
  MaxPid = 5
  MaxTicks = 1
  Signals = {9, 17, 32}
  SleepArgs <- SafetySleeps
  ExitCodes <- KilledCode
  Faults = {"page", "illegal", "undelegated"}
  TimerFires = TRUE
INVARIANT TypeOK
INVARIANT CurrentIsRunning
INVARIANT NeverWedged
INVARIANT UniquePids
INVARIANT WaiterHasChild
INVARIANT KmainOnlyWhenIdle
PROPERTY ZombieReapedByParent
PROPERTY OrphanStaysForever
CHECK_DEADLOCK FALSE
