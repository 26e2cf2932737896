SPECIFICATION Spec
CONSTANTS
  RecordList <- NameTwice
  ModeList <- OneMode
  TypeList <- OneType
  Concurrency = 2
  Suffixes = 0
  Outcomes <- Found
  Latencies <- SomeLatencies
  Window = 2
  CacheThreshold = 5
  MaxQueries = 5
  MaxFailures = 0
  MaxTime = 3
  BufferSize = 4
  Ndots = 1
  ErrorPercent = 25
  GarbagePercent = 50
  SlowMs = 5
  StormQps = 2
  BucketSeconds = 2
INVARIANTS
  DuplicatesAreRepeats
  CacheHitsBeatFirst
  LatencyPanelsAgree
CHECK_DEADLOCK FALSE
