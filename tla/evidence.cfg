SPECIFICATION FairSpec
CONSTANTS
  c1 = c1 c2 = c2 c3 = c3 idA = idA idB = idB m1 = m1 m2 = m2
  NoFile = NoFile Torn = Torn
  Source = {1}
  Content = {c1, c2, c3}
  Ident = {idA}
  Meta = {m1}
  Sidecar <- Flawed
  OldConfirmations <- NoOldConf
  Size <- MixedSizes
  Playable = {c1, c2}
  MaxSegmentBytes = 2
  MaxScanEntries = 1
  MaxFaults = 1
  RetentionEnabled = TRUE
  RequireFullBackup = TRUE
  MaxDeletesPerRun = 1
  DiskLevels = {"critical", "reserve"}
  MaxEdits = 0
  MaxOutages = 1
  MaxCrashes = 1
  MaxDamage = 1
INVARIANTS TypeOK EvidenceSurvives MissingExplained DeletionVisible
PROPERTIES BodyRestored VaultKept
CHECK_DEADLOCK FALSE
