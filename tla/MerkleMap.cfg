SPECIFICATION MapSpec
CONSTANTS
  Width = 3
  Route <- MCRoute
  Keys <- MCKeys
  Values = {"x", "y"}
INVARIANTS
  OneRootPerRecordSet
  ProofsShowMembers
  WritesComplete
