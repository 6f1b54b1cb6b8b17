\* two nodes, two concurrent calls and the recovery, two errors, two cancellations and a crash
CONSTANTS
  MaxJobs = 4
  MaxFiles = 0
  MaxActiveJobs = 1
  MaxNodes = 2
  TargetsOf <- TwoThenOne
  Callers = {poller, other, recovery}
  Poller = poller
  Recoverer = recovery
  Nobody = Nobody
  MaxCancels = 2
  MaxFaults = 2
  MaxCrashes = 1
SPECIFICATION Spec
INVARIANTS OneJobPerTarget  JobsFollowPredecessors NoJobLeftBehind ClaimIsUsed
PROPERTIES ImplementsPipeline ImplementsLifecycle
CHECK_DEADLOCK FALSE
