SPECIFICATION FairSpec
CONSTANTS
  MaxClients = 2
  MaxJoins = 2
  MaxMessages = 2
  Calls = {"send_to", "disconnect_client"}
INVARIANTS IInv DisconnectOnce EntryIsLive
PROPERTIES StopReturnsUnlessStuck WorkersEnd LeaverRemoved
CHECK_DEADLOCK FALSE
