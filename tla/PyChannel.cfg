CONSTANTS
  p0 = p0
  p1 = p1
  a1 = a1
  a2 = a2
  b1 = b1
  Nodes <- MCNodes
  Threads <- MCThreads
  Home <- MCHome
  Program <- MCProgram
  Links <- MCLinks
  NoThread = NoThread
  NoCall = NoCall
  Nothing = Nothing
  Blank = Blank
  MaxSends = 2
  MaxQueue = 1
SPECIFICATION Spec
INVARIANTS
  AckedIsKept
  DeliveredInOrder
PROPERTY CallsReturn
