SPECIFICATION Spec
CONSTANTS
  Builders = {b1}
  Workers = {w1, w2}
  ProviderDir = providerDir
  NoRow = noRow
  NoLock = noLock
  KeysEach = 3
  LockId <- MCLockId
  Path <- MCPath
  MaxGenerations = 3
  KeepGenerations = 1
  ResolveAttempts = 2
  MaxCrashes = 0
  TimelyBuilds = TRUE
  TimelyJobs = FALSE
  RmtreeIsReliable = TRUE
SYMMETRY Symmetry
INVARIANT ReadersKeepTheirGraph
CHECK_DEADLOCK FALSE
