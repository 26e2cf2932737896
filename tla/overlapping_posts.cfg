SPECIFICATION Spec
CONSTANTS
  t1 = t1
  t2 = t2
  t3 = t3
  a1 = a1
  c1 = c1
  c2 = c2
  d1 = d1
  d2 = d2
  Tests <- TwoTests
  Creds <- OneCred
  Deleters <- OneDeleter
  Autonomous <- NoTests
  Kinds <- ApiKinds
  MaxConcurrentRuns = 1
  MaxActiveJobs = 1
  Concurrency = 1
  Suffixes = 0
  MaxQueries = 1
  DbSnapshots = FALSE
  CancelMayTimeOut = FALSE
  PostsOverlap = TRUE
INVARIANTS
  RunsCapped
CHECK_DEADLOCK FALSE
