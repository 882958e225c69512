CONSTANTS
  Nodes = {p0, p1, p2}
  SelfNaming = {p0}
  MayFail = {p0, p1, p2}
  Lossy = TRUE
  MaxRestarts = 1
SPECIFICATION MCSpec
SYMMETRY Symmetry
INVARIANTS
  TypeOK
  Barrier
  NoFlagDropped
CHECK_DEADLOCK FALSE
