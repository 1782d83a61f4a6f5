SPECIFICATION FairSpec
CONSTANTS
  Context = {c1, c2, c3}
  Name = {1, 2, 3}
  HandleMask = 3
  InitSize = 2
  SerialLaunch = TRUE
  None = None
INVARIANTS NoAbort Reachable FindsName
PROPERTY AbortEnds
