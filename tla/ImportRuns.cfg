SPECIFICATION ImportSpec
CONSTANTS
  Invocations <- TwoRuns
  Configs <- AllConfigs
  Requests <- NoOthers
  Serials = {0}
  MaxClock = 1
  Threshold = 0
  MaxCrashes = 1
INVARIANTS
  OneSubjectPerScope
  BoundPolicyCoversHistory
  SubmittedMeansComplete
CHECK_DEADLOCK FALSE
