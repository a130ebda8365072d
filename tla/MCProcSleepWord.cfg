SPECIFICATION Spec
CONSTANTS
  MaxProcs = 4
  MaxPid = 4
  MaxTicks = 1
  Signals = {9, 17, 32}
  SleepArgs <- NegativeSleeps
  ExitCodes <- KilledCode
  Faults = {"page", "illegal", "undelegated"}
  TimerFires = TRUE
PROPERTY NoSpuriousKill
CHECK_DEADLOCK FALSE
