SPECIFICATION FairSpec
CONSTANTS
  Garbage = Garbage Root = Root r1 = r1 r2 = r2
  Drive <- Root
  AppData <- InRoot
  Setups <- Installations
  CollectorId = {"a", "b", "c", "d"}
  Request = {r1, r2}
INVARIANTS PollsInTime EndsClean HistoryTells ContractKept
PROPERTY Stops
CHECK_DEADLOCK FALSE
