SPECIFICATION FairSpec
CONSTANTS
  t1 = t1
  t2 = t2
  t3 = t3
  a1 = a1
  c1 = c1
  c2 = c2
  d1 = d1
  d2 = d2
  Tests <- OneTest
  Creds <- OneCred
  Deleters <- OneDeleter
  Autonomous <- NoTests
  Kinds <- ApiKinds
  MaxConcurrentRuns = 1
  MaxActiveJobs = 1
  Concurrency = 1
  Suffixes = 1
  MaxQueries = 1
  DbSnapshots = FALSE
  CancelMayTimeOut = TRUE
  PostsOverlap = TRUE
PROPERTIES
  CancelTakesEffect
CHECK_DEADLOCK FALSE
