SPECIFICATION Spec
CONSTANTS
  Generations = 2
  RingMax = 2
  MAX_CLIENTS = 2
  RecvBatch = 1
  Callers = {"caller"}
INVARIANTS
  IInv
  HoldersNeverWait
