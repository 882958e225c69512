CONSTANTS
  p0 = p0
  p1 = p1
  p2 = p2
  Nodes <- MCNodes
  SelfNaming = {p0}
  MayFail <- MCNodes
  Lossy = TRUE
  MaxRestarts = 0
  NoPeer = NoPeer
  MaxSkew = 1
  SendTimeout = 6
  SendSleep = 2
  ConnTimeout = 3
  PingSleep = 1
  MaxBroken = 1
SPECIFICATION MCSpec
INVARIANT NobodyGivesUp
PROPERTY AllComeUp
CHECK_DEADLOCK FALSE
