SPECIFICATION Spec
CONSTANTS
  t1 = t1
  t2 = t2
  t3 = t3
  a1 = a1
  c1 = c1
  c2 = c2
  d1 = d1
  d2 = d2
  Tests <- ThreeAndAutonomous
  Creds <- TwoCreds
  Deleters <- OneDeleter
  Autonomous <- TheAutonomous
  Kinds <- AllKinds
  MaxConcurrentRuns = 2
  MaxActiveJobs = 1
  Concurrency = 1
  Suffixes = 0
  MaxQueries = 2
  DbSnapshots = TRUE
  CancelMayTimeOut = FALSE
  PostsOverlap = FALSE
SYMMETRY CapSymmetry
INVARIANTS
  RunsCapped
  JobsCapped
  AutonomousRunsUntilShutdown
CHECK_DEADLOCK FALSE
