SPECIFICATION Spec
CONSTANTS
  Requests <- ContendingRequests
  MaxClock = 1
  Threshold = 0
INVARIANTS
  TypeOK
  LogVerifies
  ViewIsReplay
  Replayable
  FreshMeansCurrent
  EndingsAgree
  OneBeliefPerScope
PROPERTIES
  ImplementsLedger
CHECK_DEADLOCK FALSE
