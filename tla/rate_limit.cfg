\* Reads earn a token in 30 seconds; expensive requests, with a configured rate of zero,
\* one in a minute.  A refresh a minute asks for all tokens there are, as by default.
SPECIFICATION PageSpec
CONSTANTS
  browser = browser
  anyTime = anyTime
  oneHour = oneHour
  Clients <- TheBrowser
  Classes <- ReadAndExpensive
  ReadRpm = 2
  WriteRpm = 30
  ExpensiveRpm = 0
  Burst = 2
  Waits = {20}
  MaxTime = 180
  MaxRequests = 20
  PageKey <- ThePage
  Filters <- TwoFilters
  Scoped <- TheScoped
  Panels = 2
  RefreshSeconds = 60
  FreeRequests = 4
  MaxEvents = 2
INVARIANTS
  TypeOK
  AdmittedWithinLimit
  WaitingIsRewarded
  LiveCatchesUp
CHECK_DEADLOCK FALSE
