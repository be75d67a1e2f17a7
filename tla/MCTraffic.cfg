SPECIFICATION FairSpec
CONSTANTS
  Generations = 2
  RingMax = 2
  MAX_CLIENTS = 2
  RecvBatch = 1
  Callers = {"caller"}
INVARIANT HoldersNeverWait
PROPERTIES Served CallsReturn
CHECK_DEADLOCK FALSE
