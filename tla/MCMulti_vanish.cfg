SPECIFICATION FairSpec
CONSTANTS
  A = A
  B = B
  Clients = {A}
  NumSlots = 1
  Troubles = {"crash", "vanish"}
  SLOT_TIMEOUT = 1
  RESERVE_TIMEOUT = 2
  LIVENESS_CHECK_INTERVAL = 1
  MaxClaims = 1
  MaxKicks = 0
PROPERTIES DeadReleased
