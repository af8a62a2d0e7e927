\* A name that is posted, deleted and posted again.
SPECIFICATION Spec
CONSTANTS
  Names = {a}
  Requests = {r1}
  Workers = {w1}
  PostsPerName = 2
  MaxGraphs = 1
  MaxFaults = 0
  NoJob = NoJob
PROPERTY JobsComeToAnEnd
CHECK_DEADLOCK FALSE
