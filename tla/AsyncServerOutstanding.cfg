CONSTANTS
  Nodes = {n1, n2}
  Requests = {q1, q2, q3}
  Stranger = Stranger
  NoNode = NoNode
SPECIFICATION Spec
INVARIANT OutstandingGetException
CHECK_DEADLOCK FALSE
