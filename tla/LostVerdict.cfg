SPECIFICATION Spec
CONSTANTS
  Desks = {paper}
  WfParallelism = 1
  MaxJobs = 2
  MaxSpawns = 2
  MaxDeaths = 0
PROPERTIES VerdictsStand
CHECK_DEADLOCK FALSE
