\* one trigger that is started with the service and due once: an error, a crash, a request that holds a stale row
CONSTANTS
  MaxTriggers = 1
  MaxRuns = 3
  Clients = {c1}
  PeriodOf <- EveryTick
  OnStartup = {1}
  MaxActive = 2
  MaxTime = 1
  MaxEdits = 1
  MaxFaults = 1
  MaxCrashes = 1
SPECIFICATION Spec
INVARIANTS TypeOK NoScheduledOverlap RepeatsAreExplained SuccessIsEarned ClaimIsScanning
PROPERTIES FailureIsKept
CHECK_DEADLOCK FALSE
