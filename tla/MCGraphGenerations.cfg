SPECIFICATION Spec
CONSTANTS
  Builders = {b1, b2}
  Workers = {w1, w2}
  ProviderDir = providerDir
  NoRow = noRow
  NoLock = noLock
  KeysEach = 3
  LockId <- MCLockId
  Path <- MCPath
  MaxGenerations = 3
  KeepGenerations = 1
  ResolveAttempts = 1
  MaxCrashes = 1
  TimelyBuilds = TRUE
  TimelyJobs = FALSE
  RmtreeIsReliable = TRUE
SYMMETRY Symmetry
INVARIANTS
  TypeOK
  OneBuildAtATime
  LeasedGraphsStay
  CurrentGraphIsComplete
  AtMostKeepPlusOneOnDisk
  GraphInv
PROPERTIES
  LinkMovesForward
  ImplementsStore
CHECK_DEADLOCK FALSE
