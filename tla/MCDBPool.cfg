SPECIFICATION Spec
CONSTANTS
  Connections = {k1, k2, k3, k4, k5}
  Callables = {c1, c2, c3}
  NULL = NULL
  MaxIdle = 1
  MaxFailures = 2
SYMMETRY Symmetry
INVARIANTS OneOwner NoLeak IdleBounded CountsHonest
