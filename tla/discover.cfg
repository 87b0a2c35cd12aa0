CONSTANTS
  NumPeers = 3
  Limit = 2
  ToolName = "tool"
  None = None
  Error = Error
  MinVersion <- V191
  ToolLists <- SomeLists
SPECIFICATION FairSpec
INVARIANTS
  TypeOK
  RequestsBounded
  FoundExactly
PROPERTIES
  Finishes
CHECK_DEADLOCK FALSE
