\* One importer: reports that list and miss each unit, uploaded until imported.
CONSTANTS
  Threads = {t1}
  Conns = {c1, c2}
  NoConn = NoConn
  u1 = u1
  u2 = u2
  Units = {u1, u2}
  NewUnits = {}
  NoPhase = {}
  Files <- ThreeReports
  LastDate = 2
  MaxBatches = 7
  MayFail = FALSE
SPECIFICATION FairSpec
INVARIANTS CanceledAfterTwoAbsences
PROPERTY EventuallyImported
CHECK_DEADLOCK FALSE
