CONSTANTS
  Receivers = {r1}
  MsgIds = {m1}
  a = a
  b = b
  Byte <- MCByte
  Messages <- MCMessages
  Lengths <- OneOrTwoBytes
  Timeouts <- MCTimeouts
  NoCall = NoCall
  None = None
  TimedOut = TimedOut
  Builds <- QueueBuild
  RecvTimeout = 1
  IntMax = 3
  TicksPerMs = 2
  MaxAge = 4
  MaxPending = 2
SPECIFICATION Spec
INVARIANT DefaultWaitsForever
