SPECIFICATION Spec
CONSTANTS
  Desks = {paper, api}
  WfParallelism = 1
  MaxJobs = 2
  MaxSpawns = 1
  MaxDeaths = 0
INVARIANTS OneJobPerId
CHECK_DEADLOCK FALSE
