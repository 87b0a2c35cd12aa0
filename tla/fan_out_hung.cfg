CONSTANTS
  NumPeers = 3
  Limit = 2
  NoPeer = NoPeer
  HostName <- DistinctNames
SPECIFICATION Spec
INVARIANTS
  OthersUnaffected
CHECK_DEADLOCK FALSE
