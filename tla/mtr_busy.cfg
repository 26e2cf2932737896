SPECIFICATION Spec
CONSTANTS
  q1 = q1
  q2 = q2
  q3 = q3
  Periodic = periodic
  Requests <- TwoRequests
  MtrEnabled = FALSE
  DbEnabled = FALSE
  MaxHistory = 2
  MaxRuns = 2
INVARIANTS
  OneRunAccepted
CHECK_DEADLOCK FALSE
