SPECIFICATION FairSpec
CONSTANTS
  Desks = {paper}
  WfParallelism = 1
  MaxJobs = 1
  MaxSpawns = 2
  MaxDeaths = 1
PROPERTIES DeadJobsLeave
CHECK_DEADLOCK FALSE
