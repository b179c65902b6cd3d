\* Two workers; any thread may fail, once.
CONSTANTS
  Threads = {t1, t2}
  ProbePeriod = 2
  Lateness = 1
  MaxBusy = 1
  MaxQueue = 1
  MayFail = {"main", "proxy", "pool", "probe", "poller", "worker"}
  MaxFailures = 1
SPECIFICATION LiveSpec
INVARIANTS
  EnvironmentOutlivesThreads
  PoolStaysWhole
PROPERTIES
  EndsWhenTold
  EndsTogether
  OrphansEnd
CHECK_DEADLOCK FALSE
