SPECIFICATION Spec
CONSTANTS
  A = A
  B = B
  Clients = {A, B}
  Senders = {A}
  Generations = 2
  RingMax = 2
  MaxSends = 3
  TooLarge = {1}
  MaxSendQueue = 1
  RecvBatch = 1
  Faults = {"crash", "corrupt", "timeout"}
INVARIANTS IInv Flushing
CHECK_DEADLOCK FALSE
