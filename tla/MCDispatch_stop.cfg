SPECIFICATION FairSpec
CONSTANTS
  MaxClients = 1
  MaxJoins = 1
  MaxMessages = 0
  Calls = {}
PROPERTIES StopReturns
CHECK_DEADLOCK FALSE
