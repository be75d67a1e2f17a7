SPECIFICATION Spec
CONSTANTS
  Capacity = 6
  PosMod = 12
  CountMod = 8
  MAX_MESSAGES = 2
  MIN_MESSAGE_SIZE = 1
  MAX_MESSAGE_SIZE = 1
  MaxWrites = 4
INVARIANTS
  TornReadSafe
CHECK_DEADLOCK FALSE
