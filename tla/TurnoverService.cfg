\* Two callers race over one unit: creations, date changes, both ends, midnight.
CONSTANTS
  Callers = {api, job}
  Units = {u1}
  Turnovers = {t1, t2}
  Ops <- DateOps
  LastDay = 1
  SlaThreshold = 1
  EventBound = 2
SYMMETRY Symmetry
SPECIFICATION Spec
INVARIANTS OneOpenTurnover RiskTablesAgree
PROPERTIES LedgerSpec EndedIsLeft
