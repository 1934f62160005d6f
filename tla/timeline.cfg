SPECIFICATION Spec
CONSTANTS
  HeartbeatPeriod = 1
  AllowedLateness = 1
  OfflineAfter = 4
  Windows <- StudyDay
  Setups <- Requests
  PageSize = 1
CHECK_DEADLOCK FALSE
INVARIANTS TypeOK TimelineExact CoverageDescribes
