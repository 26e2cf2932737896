SPECIFICATION FairSpec
CONSTANTS
  t1 = t1
  t2 = t2
  t3 = t3
  a1 = a1
  c1 = c1
  c2 = c2
  d1 = d1
  d2 = d2
  Tests <- OneTest
  Creds <- OneCred
  Deleters <- TwoDeleters
  Autonomous <- NoTests
  Kinds <- ApiKinds
  MaxConcurrentRuns = 1
  MaxActiveJobs = 1
  Concurrency = 2
  Suffixes = 2
  MaxQueries = 5
  DbSnapshots = TRUE
  CancelMayTimeOut = TRUE
  PostsOverlap = TRUE
INVARIANTS
  SemaphoreConserved
  CompletedMeansAllAnswered
PROPERTIES
  NoWorkAfterCancel
  EveryRunEnds
  CancelEndsRun
  DeleteIsAnswered
CHECK_DEADLOCK FALSE
