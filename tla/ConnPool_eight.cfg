SPECIFICATION Spec
CONSTANTS
  Calls = {c1, c2, c3}
  Conns = {k1, k2, k3, k4}
  Size = 2
  Nil = Nil
SYMMETRY CallConnSymmetry
INVARIANTS
  EightConnections
CHECK_DEADLOCK FALSE
