SPECIFICATION FairSpec
CONSTANTS
  Builders = {b1, b2}
  Workers = {w1}
  ProviderDir = providerDir
  NoRow = noRow
  NoLock = noLock
  KeysEach = 3
  LockId <- MCLockId
  Path <- MCPath
  MaxGenerations = 2
  KeepGenerations = 1
  ResolveAttempts = 2
  MaxCrashes = 1
  TimelyBuilds = TRUE
  TimelyJobs = FALSE
  RmtreeIsReliable = TRUE
PROPERTIES
  BuildsEnd
  JobsEnd
  BuildLockComesFree
  BuildsGetOn
CHECK_DEADLOCK FALSE
