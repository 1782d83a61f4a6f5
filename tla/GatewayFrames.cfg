SPECIFICATION Spec
CONSTANTS
  Conn = {1, 2}
  Base = 2
  Size = {0, 3}
  Packages = 3
  QueueSize = 2
  HashSize = 1
  KeepsQueue = FALSE
  ClearsOnClose = TRUE
INVARIANT Framed
CHECK_DEADLOCK FALSE
