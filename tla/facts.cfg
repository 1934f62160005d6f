SPECIFICATION FairSpec
CONSTANTS
  s1 = s1 s2 = s2 s3 = s3 NoClient = NoClient
  Client = {s1, s2, s3}
  Reader = {"r1"}
  Table = {"raw_events", "collector_heartbeats"}
  EventTable = "raw_events"
  TableOf <- Targets
  BatchOf <- Posts
  Item <- Items
  MaxConcurrentWrites = 2
  MaxPageSize = 2
  MaxFaults = 2
INVARIANTS TypeOK AckTrue PagesExact
PROPERTIES Answered PostsAtomic
CHECK_DEADLOCK FALSE
