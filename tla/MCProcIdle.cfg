SPECIFICATION Spec
CONSTANTS
  MaxProcs = 4
  MaxPid = 4
  MaxTicks = 1
  Signals = {9, 17, 32}
  SleepArgs <- SafetySleeps
  ExitCodes <- KilledCode
  Faults = {"page", "illegal", "undelegated"}
  TimerFires = TRUE
INVARIANT KmainOnlyWhenComplete
CHECK_DEADLOCK FALSE
