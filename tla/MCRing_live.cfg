SPECIFICATION FairSpec
CONSTANTS
  Capacity = 4
  PosMod = 8
  CountMod = 4
  MAX_MESSAGES = 2
  MIN_MESSAGE_SIZE = 1
  MAX_MESSAGE_SIZE = 1
  MaxWrites = 6
INVARIANTS
  TypeOK
  FaultNeedsDiscard
PROPERTIES
  WriteReturns
  EventuallyRemoved
CHECK_DEADLOCK FALSE
