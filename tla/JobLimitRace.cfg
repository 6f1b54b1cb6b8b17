CONSTANTS
  MaxJobs = 2
  MaxFiles = 0
  MaxActiveJobs = 1
  MaxConcurrent = 2
  MaxFaults = 0
  MaxDowntimes = 0
  Clients = {c1}
SPECIFICATION Spec
INVARIANTS ActiveWithinLimit
