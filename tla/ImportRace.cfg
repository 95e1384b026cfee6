\* Two importers, a pool of three, failures anywhere, units and phases missing.
CONSTANTS
  Threads = {t1, t2}
  Conns = {c1, c2, c3}
  NoConn = NoConn
  u1 = u1
  u2 = u2
  Units = {u1, u2}
  NewUnits = {u2}
  NoPhase = {u1}
  Files <- TwoReports
  LastDate = 1
  MaxBatches = 3
  MayFail = TRUE
SYMMETRY Symmetry
SPECIFICATION Spec
INVARIANT RowsMatchBatch
CHECK_DEADLOCK FALSE
