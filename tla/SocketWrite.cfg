SPECIFICATION Spec
CONSTANTS
  Owner = o
  Sender = {o, b}
  MaxSocket = 1
  MaxId = 1
  MaxSend <- TwoOne
  Sends = {"D", "P"}
  Asks = {"close"}
  StaleEvents = FALSE
  None = None
INVARIANTS NoAssert WholePackages InOrder
PROPERTY NothingLost
CHECK_DEADLOCK FALSE
