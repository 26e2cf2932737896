SPECIFICATION FairSpec
CONSTANTS
  q1 = q1
  q2 = q2
  q3 = q3
  Periodic = periodic
  Requests <- ThreeRequests
  MtrEnabled = TRUE
  DbEnabled = TRUE
  MaxHistory = 2
  MaxRuns = 5
INVARIANTS
  TypeOK
  MutualExclusion
  HistoryIsSound
  ClientRunsInOrder
  LatestWhenIdle
PROPERTIES
  ClientRunEnds
CHECK_DEADLOCK FALSE
