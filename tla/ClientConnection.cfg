CONSTANTS
  Receivers = {r1, r2}
  MsgIds = {m1, m2}
  a = a
  b = b
  Byte <- MCByte
  Messages <- MCMessages
  Lengths <- OneOrTwoBytes
  Timeouts <- MCTimeouts
  NoCall = NoCall
  None = None
  TimedOut = TimedOut
  Builds <- BothBuilds
  RecvTimeout = 1
  IntMax = 3
  TicksPerMs = 2
  MaxAge = 4
  MaxPending = 2
SPECIFICATION Spec
INVARIANTS
  TypeOK
  NoLostWakeup
  DeadlineKept
PROPERTIES
  RecvReturns
  ImplementsStreams
