CONSTANTS
  Threads = {t1, t2}
  NoThread = NoThread
  Byte = {a, b}
  Junk = Junk
  MaxChunk = 3
  Chunks <- MCChunks
  Lengths <- MCLengths
  BufferSize = 2
  MaxUnread = 5
  IntMax = 15
SPECIFICATION Spec
SYMMETRY Symmetry
INVARIANTS
  TypeOK
  PositionsAgree
  NeverBlocksInRing
  CopiesInBounds
  CapacityBounded
PROPERTY ImplementsByteFifo
