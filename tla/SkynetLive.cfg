SPECIFICATION FairSpec
CONSTANTS
  s1 = s1  s2 = s2  s3 = s3
  w1 = w1  w2 = w2
  m1 = m1  m2 = m2  m3 = m3
  Service = {s1, s2}
  Worker = {w1, w2}
  Socket = Socket
  Msg = {m1, m2}
  WeightOf <- Weights
  Boot <- BootTwo
  None = None
PROPERTIES Delivered ErrorReported Exits
