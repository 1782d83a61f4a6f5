SPECIFICATION Spec
CONSTANTS
  r1 = r1  r2 = r2  r3 = r3  r4 = r4
  p1 = p1
  f1 = f1  f2 = f2  f3 = f3  f4 = f4
  g1 = g1  g2 = g2
  Req = {r1, r2, r3, r4}
  Player = {p1}
  Fd = {f1, f2, f3, f4}
  Gate = {g1, g2}
  PlayerOf <- OnePlayer
  FdOf <- OwnFd
  GateOf <- TwoGates
  None = None
  Unbound = Unbound
  SerialLogins = TRUE
  SpawnMayFail = TRUE
INVARIANTS  NoOrphan Agreement KickedIsTold 
 
