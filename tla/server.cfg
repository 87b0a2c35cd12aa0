CONSTANTS
  main = main
  worker = worker
  signals = signals
  Threads = {main, worker}
  Main = main
  Sig = signals
  Requests = {1, 2}
  Addresses = {"ip", "proxy"}
  Callers = {"ann"}
  None = None
SPECIFICATION FairSpec
INVARIANTS
  TypeOK
  CloseIsFinal
  HandlerKnowsCaller
PROPERTIES
  ShutsDown
CHECK_DEADLOCK FALSE
