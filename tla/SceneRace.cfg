SPECIFICATION Spec
CONSTANTS
  a1 = a1  a2 = a2  a3 = a3
  p1 = p1  p2 = p2  s1 = s1  s2 = s2
  Agent = {a1, a2, a3}
  Player = {p1, p2}
  Scene = {s1, s2}
  PlayerOf <- Successors
  None = None
  Enters = 1
  SerialEnters = TRUE
  CalmKicks = FALSE
INVARIANTS InScene ViewFollows
