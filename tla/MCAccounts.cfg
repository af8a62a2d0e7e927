SPECIFICATION Spec
CONSTANTS
  HalfWidth = 1440
  HalfHeight = 720
  Levels = {0, 1, 2}
  TileSize <- MCTileSize
  Admin = admin
  Users = {u1}
  NoUser = nobody
  Jobs = {1, 2}
  Keys = {k1}
  Patches <- MCPatches
  Boxes <- MCBoxes
  GraphTiles <- MCGraphTiles
  Threads = {t1, t2}
  NoRow = norow
  Nothing = nothing
  MaxRequests = 3
  MaxGraphs = 2
  MaxDays = 1
CHECK_DEADLOCK FALSE
INVARIANTS
  TypeOK
  PackagesCoverTheirBox
  PackagesFallBehindByOne
PROPERTIES
  PatchesDoAsAsked
  DeletionsFailInRacesOnly
  QueuedJobsAreMade
