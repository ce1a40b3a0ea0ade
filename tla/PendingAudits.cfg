SPECIFICATION OrdinarySpec
CONSTANTS
  Requests <- AuditedRequests
  MaxClock = 0
  Threshold = 0
INVARIANTS
  PendingNeverFails
CHECK_DEADLOCK FALSE
