SPECIFICATION Spec
CONSTANTS
  RecordList <- OneName
  ModeList <- BothModes
  TypeList <- OneType
  Concurrency = 2
  Suffixes = 1
  Outcomes <- FoundOrNot
  Latencies <- OneLatency
  Window = 2
  CacheThreshold = 5
  MaxQueries = 2
  MaxFailures = 4
  MaxTime = 0
  BufferSize = 4
  Ndots = 1
  ErrorPercent = 25
  GarbagePercent = 50
  SlowMs = 5
  StormQps = 2
  BucketSeconds = 2
INVARIANTS
  EventualFqdnCountsLookups
CHECK_DEADLOCK FALSE
