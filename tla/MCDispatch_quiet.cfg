SPECIFICATION FairSpec
CONSTANTS
  MaxClients = 1
  MaxJoins = 2
  MaxMessages = 1
  Calls = {"send_to", "disconnect_client"}
PROPERTIES QuietAfterStop
CHECK_DEADLOCK FALSE
