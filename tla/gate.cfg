SPECIFICATION FairSpec
CONSTANTS
  HeartbeatPeriod = 1
  AllowedLateness = 1
  OfflineAfter = 3
  Windows <- NoWindows
  Setups <- Budgets
  PageSize = 1
CHECK_DEADLOCK FALSE
INVARIANTS FailuresIsolated
PROPERTY GateFreed
