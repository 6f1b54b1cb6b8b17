\* a pause while the scan holds the row
CONSTANTS
  MaxTriggers = 1
  MaxRuns = 2
  Clients = {c1}
  PeriodOf <- EveryTick
  OnStartup = {}
  MaxActive = 1
  MaxTime = 1
  MaxEdits = 1
  MaxFaults = 0
  MaxCrashes = 0
SPECIFICATION Spec
PROPERTIES PauseHolds
CHECK_DEADLOCK FALSE
