\* the executor with one slot, a run of three nodes, two jobs and the legacy import on one page
CONSTANTS
  MaxJobs = 2
  MaxFiles = 0
  MaxActiveJobs = 1
  Clients = {c1}
  MaxConcurrent = 1
  MaxFaults = 1
  MaxDowntimes = 1
  MaxNodes = 3
  Callers = {poller, other, recovery}
  Poller = poller
  Recoverer = recovery
  Nobody = Nobody
  MaxCancels = 1
  MaxCrashes = 1
  Pages = {1}
  MaxArtworks = 1
  Workers = {w1, w2}
  LegacyLatest = 1
  MaxStarts = 2
  NoPage = NoPage
  NoFaults = 0
SPECIFICATION LiveSpec
INVARIANT ExecutionBounded
PROPERTIES  RunEnds ClaimsAreReturned
CHECK_DEADLOCK FALSE
