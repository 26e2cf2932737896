SPECIFICATION Spec
CONSTANTS
  t1 = t1
  t2 = t2
  t3 = t3
  a1 = a1
  c1 = c1
  c2 = c2
  d1 = d1
  d2 = d2
  Tests <- TwoTests
  Creds <- OneCred
  Deleters <- TwoDeleters
  Autonomous <- NoTests
  Kinds <- ApiKinds
  MaxConcurrentRuns = 1
  MaxActiveJobs = 1
  Concurrency = 1
  Suffixes = 1
  MaxQueries = 2
  DbSnapshots = TRUE
  CancelMayTimeOut = TRUE
  PostsOverlap = TRUE
SYMMETRY TestSymmetry
INVARIANTS
  TypeOK
  EndedMeansQuiet
  RegistryTracksRuns
  GaugeCountsRuns
  CancellingIsHonoured
  DrainedMeansEnded
PROPERTIES
  ImplementsTestRuns
CHECK_DEADLOCK FALSE
