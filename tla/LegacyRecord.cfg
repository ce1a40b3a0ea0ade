SPECIFICATION RecordSpec
CONSTANTS
  observes = observes
  mistakes = mistakes
  backdates = backdates
  Sessions <- CallerSessions
  SubmissionOf <- Callers
  Submissions <- Said
  EventIds = {i1, i2, i3}
  MaxClock = 1
  Threshold = 0
  MaxCrashes = 1
INVARIANTS
  ReturnsOwnEvent
  CommittedIsAnswered
PROPERTIES
  EveryRecordEnds
CHECK_DEADLOCK FALSE
