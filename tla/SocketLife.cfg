SPECIFICATION FairSpec
CONSTANTS
  Owner = o
  Sender = {o}
  MaxSocket = 1
  MaxId = 2
  MaxSend <- One
  Sends = {"D"}
  Asks = {"close", "shutdown"}
  StaleEvents = FALSE
  None = None
INVARIANT CloseOnce
 
CHECK_DEADLOCK FALSE
