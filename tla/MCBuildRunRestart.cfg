\* A scheduled builder that is killed and started again.
SPECIFICATION Spec
CONSTANTS
  Scheduled = {s}
  Once = {}
  MaxPasses = 1
  Elevation = FALSE
  MaxStarts = 2
  MaxGraphs = 1
  MaxFaults = 1
  Nobody = Nobody
INVARIANT SleepersDoNotBuild
CHECK_DEADLOCK FALSE
