\* One unit: board loads, the nightly job, imports and operators, from before its notice to past the catch-up window.
CONSTANTS
  u1 = u1
  Units <- MCUnits
  Days <- MCDays
  ReportRows <- MCReportRows
  Patched <- MCPatched
  MoveOuts <- MCMoveOuts
  LastGen = 2
  AtOnce = 2
SPECIFICATION Spec
INVARIANTS LoadHeals LoadFollowsReport
PROPERTIES LoadsSettle OverrideSticks NoticeKept
