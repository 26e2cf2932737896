\* Retention of one tick and a limit of two: both remove files.
SPECIFICATION FairSpec
CONSTANTS
  auto = auto
  api = api
  Tests <- TwoTests
  Autonomous <- TheAutonomous
  Retention = 1
  Limit = 2
  Panels = 2
  MaxQueries = 1
  MaxFaults = 1
  MaxTime = 2
INVARIANTS
  TypeOK
  FilesAreKept
  RowsAreKept
  OldStaysHidden
  PartsAgree
PROPERTIES
  OldIsRemoved
CHECK_DEADLOCK FALSE
