\* Structure, scope, work orders and queue of move-outs in small databases; two
\* imports with the queues they leave, in others.  Rows and instants run out.
CONSTANTS
  Apartments = {"a1", "a2", "a3"}
  PhaseOf <- Phase
  BuildingOf <- Building
  MasterFiles <- Files
  Reports <- Lists
  Saves <- Asks
  Savers = {w1, w2}
  Activity <- Residents
  Orders <- ServiceRequests
  Days = {0, 20, 30}
  LastRow = 2
  LastUnit = 1
  LastSave = 3
  Scenarios <- Kinds
  Units = {"u1", "u2"}
  NoUnit = "no unit"
  AvailableFiles <- Available
  MoveInFiles <- MoveIns
  Patched = {"on notice"}
  Dates = {1}
  LastBatch = 2
  LastTurnover = 1
  LastInstant = 1
SPECIFICATION OperationsSpec
INVARIANTS OperationsTypeOK UnitsArePlaced PlanPredictsImport ScopeIsLastSave ResolvedHaveTurnovers OrdersOnTheirSheets SkippedIsListed ResolvedWereServed
PROPERTY QueueHoldsOrphans
CHECK_DEADLOCK FALSE
