SPECIFICATION FairSpec
CONSTANTS
  Generations = 2
  RingMax = 2
  Lens = {1, 2}
  MaxSends = 3
  MaxTries = 2
  EarlyTimeouts = 1
INVARIANT IInv
PROPERTIES CallsImplementFifo PollReturns
CHECK_DEADLOCK FALSE
