SPECIFICATION Spec
CONSTANTS
  c1 = c1 c2 = c2 c3 = c3 idA = idA idB = idB m1 = m1 m2 = m2
  NoFile = NoFile Torn = Torn
  Source = {1, 2}
  Content = {c1, c2}
  Ident = {idA, idB}
  Meta = {m1, m2}
  Sidecar <- Rivals
  OldConfirmations <- OldConf
  Size <- OneSize
  Playable = {c1, c2}
  MaxSegmentBytes = 1
  MaxScanEntries = 2
  MaxFaults = 0
  RetentionEnabled = FALSE
  RequireFullBackup = TRUE
  MaxDeletesPerRun = 1
  DiskLevels = {}
  MaxEdits = 1
  MaxOutages = 0
  MaxCrashes = 0
  MaxDamage = 0
INVARIANTS AcceptNeverConflicts ManagedFilesIntact CachedConfirmationSound
PROPERTIES ClaimStable ConfirmationTrue QuarantineKept
