CONSTANTS
  Threads = {t1, t2}
  Channels = {c1, c2}
  Kinds = {data, connected}
  NoThread = NoThread
  NoChannel = NoChannel
  NoBlock = NoBlock
SPECIFICATION Spec
INVARIANTS
  TypeOK
  HandedOutStays
  NothingLeaks
CHECK_DEADLOCK FALSE
