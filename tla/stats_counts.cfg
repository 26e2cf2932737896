SPECIFICATION Spec
CONSTANTS
  RecordList <- ShortAndLong
  ModeList <- SearchMode
  TypeList <- BothTypes
  Concurrency = 2
  Suffixes = 1
  Outcomes <- ThreeOutcomes
  Latencies <- OneLatency
  Window = 2
  CacheThreshold = 5
  MaxQueries = 5
  MaxFailures = 2
  MaxTime = 0
  BufferSize = 7
  Ndots = 1
  ErrorPercent = 25
  GarbagePercent = 50
  SlowMs = 5
  StormQps = 2
  BucketSeconds = 2
INVARIANTS
  TypeOK
  StoreAddsUp
  AaaaNoiseIsRedundant
  PanelsAgree
  AmplificationIsRepetition
CHECK_DEADLOCK FALSE
