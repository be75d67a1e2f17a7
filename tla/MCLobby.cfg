SPECIFICATION FairSpec
CONSTANTS
  Clients = {1, 2}
  Generations = 2
  RingMax = 2
  MAX_NAME_LEN = 2
  MAX_CHANNEL_NAME_LEN = 1
  MaxTries = 2
  Faults = {"crash", "timeout", "reject", "unsent", "garbage"}
INVARIANT OwnAnswer
PROPERTIES LobbyBack Registers
CHECK_DEADLOCK FALSE
