SPECIFICATION FairSpec
CONSTANTS
  Setups <- Buckets
  RescanWindow = 2
  AllowedLateness = 1
  PageSize = 2
  EventLimit = 5
  Overlap = FALSE
  MaxTime = 4
INVARIANTS TypeOK CheckpointCovers HeartbeatMeansImported RevisionsHonest
PROPERTIES Imported
CHECK_DEADLOCK FALSE
