\* a manual run between the check and the dispatch
CONSTANTS
  MaxTriggers = 1
  MaxRuns = 2
  Clients = {c1}
  PeriodOf <- EveryTick
  OnStartup = {}
  MaxActive = 2
  MaxTime = 1
  MaxEdits = 1
  MaxFaults = 0
  MaxCrashes = 0
SPECIFICATION Spec
PROPERTIES DispatchDoesNotOverlap
CHECK_DEADLOCK FALSE
