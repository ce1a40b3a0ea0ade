SPECIFICATION CommittedSpec
CONSTANTS
  Requests <- CommittedRequests
  Projector = "3"
  Width = 4
  Route <- Bits
INVARIANTS
  RootsReachTheirNodes
  StoredTreesAudit
  LostNodesAreReported
PROPERTIES
  TreesImplementLedger
CHECK_DEADLOCK FALSE
