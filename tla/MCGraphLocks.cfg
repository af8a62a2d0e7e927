SPECIFICATION Spec
CONSTANTS
  Clients = {c1, c2}
  Path = {p1, p2}
  NoRow = noRow
  NoLock = noLock
  KeysEach = 2
  LockId <- MCLockId
  Timeouts = {0, 3}
  Ttl = 3
  PollInterval = 2
INVARIANTS
  TypeOK
  HoldersAgree
  DeadlinesAreMet
  FreeLocksAreNoticed
PROPERTIES
  LeasesAreOnlyEndedByTheirHolders
  AcquireReturns
  ImplementsLeases
CHECK_DEADLOCK FALSE
