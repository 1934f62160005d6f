SPECIFICATION Spec
CONSTANTS
  c1 = c1 c2 = c2 c3 = c3 idA = idA idB = idB m1 = m1 m2 = m2
  NoFile = NoFile Torn = Torn
  Source = {1}
  Content = {c1}
  Ident = {idA}
  Meta = {m1}
  Sidecar <- OneDoc
  OldConfirmations <- NoOldConf
  Size <- OneSize
  Playable = {c1}
  MaxSegmentBytes = 1
  MaxScanEntries = 1
  MaxFaults = 1
  RetentionEnabled = TRUE
  RequireFullBackup = TRUE
  MaxDeletesPerRun = 1
  DiskLevels = {"critical"}
  MaxEdits = 0
  MaxOutages = 2
  MaxCrashes = 1
  MaxDamage = 0
PROPERTIES UnconfirmedKept
CHECK_DEADLOCK FALSE
