SPECIFICATION Spec
CONSTANTS
  A = A
  B = B
  Clients = {A, B}
  NumSlots = 2
  Troubles = {}
  SLOT_TIMEOUT = 1
  RESERVE_TIMEOUT = 2
  LIVENESS_CHECK_INTERVAL = 1
  MaxClaims = 1
  MaxKicks = 0
INVARIANTS IInv Calm
