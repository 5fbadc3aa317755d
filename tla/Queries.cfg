SPECIFICATION QuerySpec
CONSTANTS
  Rows <- MCRows
  Key <- MCKey
  Grouped <- MCGrouped
  Own <- MCOwn
  Twice <- MCTwice
  Ids <- MCIds
  Limits <- MCLimits
  Offsets <- MCOffsets
  Any = Any
  Null = Null
  DefaultNodesLimit = 2
  MaxNodesLimit = 3
  DefaultNodesOffset = 0
  MaxChanges = 2
INVARIANTS
  PagesCover
  TotalIsOfTheList
CHECK_DEADLOCK FALSE
