\* One unit and one report: does the nightly job serve every notice that comes due?
CONSTANTS
  u1 = u1
  Units <- MCUnits
  Days <- NoticeDays
  ReportRows <- OneNotice
  Patched = {}
  MoveOuts <- MCMoveOuts
  LastGen = 2
  AtOnce = 3
SPECIFICATION FairSpec
PROPERTY NoticeServed
