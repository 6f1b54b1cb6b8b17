\* the executor of a node with two jobs is refused the second one
CONSTANTS
  MaxJobs = 2
  MaxFiles = 0
  MaxActiveJobs = 1
  MaxNodes = 1
  TargetsOf <- JustTwo
  Callers = {poller, recovery}
  Poller = poller
  Recoverer = recovery
  Nobody = Nobody
  MaxCancels = 0
  MaxFaults = 0
  MaxCrashes = 0
SPECIFICATION Spec
INVARIANTS NodeOutlivesJobs
CHECK_DEADLOCK FALSE
