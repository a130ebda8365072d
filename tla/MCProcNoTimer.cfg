SPECIFICATION FairSpec
CONSTANTS
  MaxProcs = 4
  MaxPid = 4
  MaxTicks = 1
  Signals = {9, 17, 32}
  SleepArgs <- SafetySleeps
  ExitCodes <- KilledCode
  Faults = {"page", "illegal", "undelegated"}
  TimerFires = FALSE
PROPERTY NoStarvation
CHECK_DEADLOCK FALSE
