SPECIFICATION SessionSpec
CONSTANTS
  mentions = mentions
  conflicts = conflicts
  observes = observes
  expires = expires
  follows = follows
  recovers = recovers
  Sessions <- ContendingSessions
  JobOf <- Contending
  Requests <- WriterRequests
  MaxClock = 2
  Threshold = 1
  MaxCrashes = 1
INVARIANTS
  SessionTypeOK
  AppendsAtTip
  ReadsOwnWrite
  OneAnswerPerRequest
PROPERTIES
  EverySessionEnds
CHECK_DEADLOCK FALSE
