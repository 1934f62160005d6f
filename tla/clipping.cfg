SPECIFICATION Spec
CONSTANTS
  Setups <- OverlapBuckets
  RescanWindow = 2
  AllowedLateness = 1
  PageSize = 2
  EventLimit = 5
  Overlap = TRUE
  MaxTime = 5
INVARIANTS DeferredNotPassed
CHECK_DEADLOCK FALSE
