SPECIFICATION TransitionSpec
CONSTANTS
  Requests <- MovedRequests
  MaxClock = 0
  Threshold = 0
INVARIANTS
  ProvenCopyIsComplete
  RebuiltCopyAudits
CHECK_DEADLOCK FALSE
