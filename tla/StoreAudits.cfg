SPECIFICATION OrdinarySpec
CONSTANTS
  Requests <- AuditedRequests
  MaxClock = 0
  Threshold = 0
INVARIANTS
  CleanStoreAudits
  DamageIsReported
CHECK_DEADLOCK FALSE
