\* two jobs on the pages of two artworks, a database error and a crash; the legacy import knows the first artwork
CONSTANTS
  Pages = {1, 2}
  ArtworkOf <- OnePageEach
  MaxArtworks = 2
  Workers = {w1, w2}
  LegacyLatest = 1
  MaxStarts = 2
  MaxFaults = 1
  MaxCrashes = 1
  NoPage = NoPage
  Nobody = Nobody
SYMMETRY WorkerSymmetry
SPECIFICATION MCSpec
INVARIANTS ExclusiveDownload CursorLeavesNoGap AbandonedByErrors
PROPERTIES ImplementsLedger
CHECK_DEADLOCK FALSE
