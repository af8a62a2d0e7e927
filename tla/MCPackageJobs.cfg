\* One name that is posted twice, two requests at a time, two builds, one fault.
SPECIFICATION Spec
CONSTANTS
  Names = {a}
  Requests = {r1, r2}
  Workers = {w1}
  PostsPerName = 2
  MaxGraphs = 2
  MaxFaults = 1
  NoJob = NoJob
INVARIANTS
  TypeOK
  CompletedPackagesAreWhole
  FailedCreatesFreeTheName
  OrphansAreReported
  PackagesKeepUp
  WaitingJobsAreInWork
PROPERTY ImplementsLife
CONSTRAINT FewBuildsAndFaults
SYMMETRY RequestsAreAlike
CHECK_DEADLOCK FALSE
