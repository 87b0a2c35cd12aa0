CONSTANTS
  NumPeers = 3
  Limit = 2
  NoPeer = NoPeer
  HostName <- DistinctNames
SPECIFICATION FairSpec
INVARIANTS
  TypeOK
  BoundedParallelism
  MapWritesExclusive
  FaithfulReport
  FailureIsolated
  OthersUnaffectedBelowLimit
PROPERTIES
  ImplementsContract
  Returns
CHECK_DEADLOCK FALSE
