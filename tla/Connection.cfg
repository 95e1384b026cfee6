\* Two threads open blocks, nest them and fail inside them, on a pool of three.
CONSTANTS
  Threads = {t1, t2}
  Conns = {c1, c2, c3}
  NoConn = NoConn
  Cells = {k1, k2}
  Values = {0, 1}
  Initial <- Empty
  MaxDepth = 2
SYMMETRY Symmetry
SPECIFICATION Spec
INVARIANTS ConnectionsAccounted IdleIsClean
PROPERTY FlatAllOrNothing
