SPECIFICATION Spec
CONSTANTS
  A = A
  B = B
  Clients = {A, B}
  NumSlots = 1
  Troubles = {"leave", "crash", "vanish", "timeout", "kick"}
  SLOT_TIMEOUT = 1
  RESERVE_TIMEOUT = 2
  LIVENESS_CHECK_INTERVAL = 1
  MaxClaims = 1
  MaxKicks = 1
INVARIANTS IInv
SYMMETRY Symmetry
