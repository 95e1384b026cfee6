\* One importer, a unit the database knows, no failures: the nested block alone.
CONSTANTS
  Threads = {t1}
  Conns = {c1, c2}
  NoConn = NoConn
  u1 = u1
  u2 = u2
  Units = {u1, u2}
  NewUnits = {}
  NoPhase = {}
  Files <- TwoReports
  LastDate = 1
  MaxBatches = 2
  MayFail = FALSE
SPECIFICATION Spec
INVARIANT ImportAtomic
CHECK_DEADLOCK FALSE
