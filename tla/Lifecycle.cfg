\* One turnover: transitions, patches, imports and tasks over 49 days, and every view of it.
CONSTANTS
  Days <- MCDays
  MoveOuts <- MCMoveOuts
  MoveIns <- MCMoveIns
  Readies <- MCReadies
  Availables <- MCAvailables
  Statuses <- MCStatuses
  TaskKinds <- MCTaskKinds
  TaskStatuses <- MCTaskStatuses
SPECIFICATION Spec
INVARIANTS TypeOK TransitionSettles ViewsAgree RiskAndAlertsMatchBoard ReportsAgree PortFollowsReference
PROPERTY BreachesOnlyRise
