\* A name that is posted again after a failure.
SPECIFICATION Spec
CONSTANTS
  Names = {a}
  Requests = {r1}
  Workers = {w1}
  PostsPerName = 2
  MaxGraphs = 1
  MaxFaults = 0
  NoJob = NoJob
INVARIANT NamesAreUnique
CHECK_DEADLOCK FALSE
