\* Two starts among the two builders, two graphs, one fault.
SPECIFICATION Spec
CONSTANTS
  Scheduled = {s}
  Once = {o}
  MaxPasses = 2
  Elevation = TRUE
  MaxStarts = 2
  MaxGraphs = 2
  MaxFaults = 1
  Nobody = Nobody
INVARIANTS
  TypeOK
  
  IdleMeansNoBuild
  TilesComeFromFreshData
PROPERTIES
  ErrorsAreKept
  ImplementsPublications
  LastRunsGetOn
  SignalledBuildersStop
CHECK_DEADLOCK FALSE
