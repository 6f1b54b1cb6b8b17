\* two concurrent workers, one active one-time job, a racing cancellation
CONSTANTS
  MaxJobs = 2
  MaxFiles = 1
  MaxActiveJobs = 1
  MaxConcurrent = 2
  MaxFaults = 1
  MaxDowntimes = 1
  Clients = {c1}
SPECIFICATION Spec
INVARIANTS NoLostClaim UncancelledWithinLimit
PROPERTIES CancelBeatsCompletion ImplementsLifecycle
CHECK_DEADLOCK TRUE
