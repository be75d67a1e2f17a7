SPECIFICATION Spec
CONSTANTS
  Clients = {1, 2}
  Generations = 2
  RingMax = 2
  MAX_NAME_LEN = 2
  MAX_CHANNEL_NAME_LEN = 1
  MaxTries = 2
  Faults = {"crash", "timeout", "reject", "unsent", "garbage"}
INVARIANTS
  Counts
  Health
  Guests
  OwnAnswer
CHECK_DEADLOCK FALSE
