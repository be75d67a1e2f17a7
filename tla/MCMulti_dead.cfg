SPECIFICATION FairSpec
CONSTANTS
  A = A
  B = B
  Clients = {A, B}
  NumSlots = 1
  Troubles = {"leave", "crash"}
  SLOT_TIMEOUT = 1
  RESERVE_TIMEOUT = 2
  LIVENESS_CHECK_INTERVAL = 1
  MaxClaims = 2
  MaxKicks = 0
PROPERTIES DeadReleased
