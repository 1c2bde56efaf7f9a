SPECIFICATION FairSpec
CONSTANTS
  Desks = {paper}
  WfParallelism = 1
  MaxJobs = 2
  MaxSpawns = 2
  MaxDeaths = 1
INVARIANTS TypeOK
PROPERTIES IdsAreKept CollectedJobsLeave
CHECK_DEADLOCK FALSE
