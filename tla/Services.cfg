CONSTANTS
  Requests = {q1, q2}
  Flows = {f1}
  NoFlow = NoFlow
  MaxTokens = 2
  MaxRequests = 3
  MaxUpdateErrors = 1
  MaxAuthCrashes = 1
  Loaders = {l1, l2}
  Urls = {"u1", "u2", "u3"}
  Paths = {"a", "a (1)", "a (2)", "a (1) (1)"}
  Wanted <- MCWanted
  Numbered <- MCNumbered
  LockOf <- MCLockOf
  IntervalOf <- MCIntervalOf
  StatusRetries = 1
  NetworkRetries = 0
  Leftovers <- MCLeftovers
  MaxTransfers = 2
  MaxClock = 1
  MaxFileCrashes = 1
  Syncs = {s1, s2}
  Names = {n1, n2}
  LegacyName = legacy
  IdAsName = id
  NoName = none
  MaxArtworks = 2
  MaxSyncs = 2
  MaxEvents = 1
  Scans = {c1, c2}
  FirstScan = c1
  Hydrations = {h1, h2}
  FirstIsEmpty = TRUE
  MaxRows = 3
  PageSize = 2
  MaxImportErrors = 1
  MaxImportCrashes = 1
  Processes = {p1, p2}
  Migrations = 3
  Shipped = 2
  MaxStarts = 3
  Owners <- MCOwners
  MaxWorks = 3
  OwnerOf <- MCOwnerOf
  Tagged = {2}
  Runs = {r1, r2}
  Asks <- MCAsks
  Libraries <- MCLibraries
  Uploads = {3}
  MaxRuns = 2
  MaxRemovals = 1
  MaxTroubles = 1
SPECIFICATION Spec
SYMMETRY MCSymmetry
INVARIANTS ServicesTypeOK NoUpdateIsLost LoginsAreHonest WatermarkCovers
   HydrationIsComplete RetryCoversFailures ScriptsRunOnce 
PROPERTIES SlotsAreSpaced DuplicatesAreKept OnlyWhatIsAsked 
CHECK_DEADLOCK FALSE
