SPECIFICATION Spec
CONSTANTS
  c1 = c1 c2 = c2 c3 = c3 idA = idA idB = idB m1 = m1 m2 = m2
  NoFile = NoFile Torn = Torn
  Source = {1}
  Content = {c1, c2}
  Ident = {idA}
  Meta = {m1}
  Sidecar <- OneDoc
  OldConfirmations <- NoOldConf
  Size <- OneSize
  Playable = {c1, c2}
  MaxSegmentBytes = 1
  MaxScanEntries = 1
  MaxFaults = 0
  RetentionEnabled = FALSE
  RequireFullBackup = TRUE
  MaxDeletesPerRun = 1
  DiskLevels = {}
  MaxEdits = 1
  MaxOutages = 0
  MaxCrashes = 0
  MaxDamage = 0
INVARIANTS VerdictCurrent
CHECK_DEADLOCK FALSE
