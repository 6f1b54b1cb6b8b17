\* two triggers compete for one place; a crash, no request and no error
CONSTANTS
  MaxTriggers = 2
  MaxRuns = 5
  Clients = {c1}
  PeriodOf <- BothEveryTick
  OnStartup = {2}
  MaxActive = 1
  MaxTime = 1
  MaxEdits = 0
  MaxFaults = 0
  MaxCrashes = 1
SPECIFICATION FairSpec
INVARIANT ScheduledWithinLimit
PROPERTY DueIsServed
CHECK_DEADLOCK FALSE
