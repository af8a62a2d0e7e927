\* One build an external scheduler starts.
SPECIFICATION Spec
CONSTANTS
  Scheduled = {}
  Once = {o}
  MaxPasses = 1
  Elevation = FALSE
  MaxStarts = 1
  MaxGraphs = 1
  MaxFaults = 0
  Nobody = Nobody
INVARIANT FailedRunsKeepTheGraph
CHECK_DEADLOCK FALSE
