SPECIFICATION Spec
CONSTANTS
  Capacity = 6
  PosMod = 12
  CountMod = 4
  MAX_MESSAGES = 2
  MIN_MESSAGE_SIZE = 1
  MAX_MESSAGE_SIZE = 3
  MaxWrites = 5
INVARIANTS
  IInv
CONSTRAINT BeforeFault
CHECK_DEADLOCK FALSE
