SPECIFICATION FairSpec
CONSTANTS
  Releases <- MCReleases
  NoRelease = NoRelease
  Known <- MCKnown
  Least <- MCLeast
  Initial <- MCInitial
  MaxProcs = 2
  MaxRestarts = 2
  Window = 1
  MaxTime = 1
  MaxEvents = 2
  MaxScripts = 2
INVARIANTS TypeOK WritableMigrated SwitchComplete RollbackTarget
PROPERTIES CrashLoopBounded SupervisionSettles
CHECK_DEADLOCK FALSE
