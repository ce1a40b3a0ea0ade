SPECIFICATION LegacySpec
CONSTANTS
  EventIds = {i1, i2, i3, i4}
  Submissions <- LegacySubmissions
  MaxClock = 1
  Threshold = 0
SYMMETRY IdSymmetry
INVARIANTS
  HeadIsLatest
  LegacyFreshIsCurrent
PROPERTIES
  EveryLogFolds
  OneGeneration
CHECK_DEADLOCK FALSE
