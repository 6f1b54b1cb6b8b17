CONSTANTS
  Owners <- MCOwners
  MaxWorks = 3
  OwnerOf <- MCOwnerOf
  Tagged = {2}
  Runs = {r1, r2}
  Asks <- MCAsks
  MaxRuns = 2
  MaxRemovals = 1
  MaxTroubles = 1
  Libraries <- MCLibraries
  Uploads = {3}
SYMMETRY MCRuns
SPECIFICATION CandSpec
INVARIANT ArtistsCanBeRemoved
CHECK_DEADLOCK FALSE
