SPECIFICATION FairSpec
CONSTANTS
  MaxProcs = 5
  MaxPid = 5
  MaxTicks = 1
  Signals = {9}
  SleepArgs <- FairSleeps
  ExitCodes <- KilledCode
  Faults = {}
  TimerFires = TRUE
PROPERTY NoStarvation
PROPERTY SleeperWakes
PROPERTY WaiterReturns
CHECK_DEADLOCK FALSE
