SPECIFICATION FairSpec

CONSTANTS
  j1 = j1
  j2 = j2
  j3 = j3
  j4 = j4
  w1 = w1
  w2 = w2
  none = none
  NoJob = none
  Jobs <- FourJobs
  Throwing <- OneThrows
  Workers <- TwoWorkers

INVARIANTS
  TypeOK
  WakeupsCoverBacklog
  NobodySleepsThroughStop
  DrainBeforeExit
  DestroyedMeansDrained

PROPERTIES
  PoolSpec
  EveryEarlyJobRuns
  DestructorTerminates
