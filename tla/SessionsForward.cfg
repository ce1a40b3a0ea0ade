SPECIFICATION SessionSpec
CONSTANTS
  mentions = mentions
  conflicts = conflicts
  observes = observes
  expires = expires
  follows = follows
  recovers = recovers
  Sessions <- ForwardSessions
  JobOf <- Forward
  Requests <- WriterRequests
  MaxClock = 1
  Threshold = 0
  MaxCrashes = 0
PROPERTIES
  ImplementsLedger
CHECK_DEADLOCK FALSE
