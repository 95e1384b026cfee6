------------------------------- MODULE Exports -------------------------------
(***************************************************************************)
(* services/exports/: which units the weekly summary, the Final Report,    *)
(* the DMRB Report and the dashboard chart list or count, as functions of  *)
(* a board (a set of the items of BoardRules).  Layout, fills, titles and  *)
(* the columns that copy a field are left out.                             *)
(***************************************************************************)
EXTENDS BoardRules

VacantStates == {"VACANT_NOT_READY", "VACANT_READY"}
NoticeStates == {"ON_NOTICE", "PRE_NOTICE"}

\* The task types with a column of their own in the Schedule and Upcoming sheets.
SchedTasks == {"INSPECT", "PAINT", "MAKE_READY", "HOUSEKEEPING", "CARPET_CLEAN"}

\* The upper ends of the aging buckets; beyond them it is 120+.
AgingBucket(days) ==
  IF days > 120 THEN 1000
  ELSE Min({b \in {10, 20, 30, 60, 120} : days <= b})

-----------------------------------------------------------------------------
(* export_service.build_export_turnovers *)

\* _qc_status of the FINAL_WALK task: it looks for a status COMPLETED, which
\* no task has (the schema's is COMPLETE).
QcStatus(tasks) ==
  LET walks == {k \in tasks : k.type = "FINAL_WALK"}
  IN  IF walks = {} THEN "N/A"
      ELSE IF \E k \in walks : k.status = "COMPLETED" THEN "Confirmed" ELSE "Pending"

\* _completion_ratio, in percent.
CompletionPercent(i) ==
  IF i.completed[2] = 0 THEN 0 ELSE (i.completed[1] * 100) \div i.completed[2]

\* One row of the exports; dv is the vacancy, which a planned move-in ends.
ExportRow(i) ==
  [item             |-> i,
   state            |-> i.phase,
   dv               |-> VacancyDays(i.turnover, i.today),
   sla_breach       |-> i.slaLevel = "BREACH",
   plan_breach      |-> i.agreements.plan = "RED",
   inspection_breach |-> i.agreements.inspection = "RED",
   movein_breach    |-> i.agreements.moveIn = "RED",
   is_task_stalled  |-> WorkStalled({i}) # {},
   completion       |-> CompletionPercent(i),
   is_unit_ready    |-> i.readiness = "READY",
   qc_status        |-> QcStatus(i.tasks)]

ExportRows(board) == {ExportRow(i) : i \in board}

-----------------------------------------------------------------------------
(* export_service.build_weekly_summary_text *)

WithinWeek(day, today) == day # NoDate /\ today <= day /\ day <= today + 7

WeeklySummary(board) ==
  LET InPhase(phases) == Cardinality({i \in board : i.phase \in phases})
      Week(field) == {i \in board : WithinWeek(i.turnover[field], i.today)}
      vacancies   == {i \in board : VacancyDays(i.turnover, i.today) # NoDays}
  IN  [active    |-> BoardMetrics(board).active,
       vacant    |-> InPhase(VacantStates),
       onNotice  |-> InPhase(NoticeStates),
       slaOk     |-> Max({0, Cardinality(board) - BoardMetrics(board).slaBreach}),
       ready     |-> Cardinality({i \in board : i.readiness = "READY"}),
       slaBreaches |-> FlagUnits(board).SLA_BREACH,
       moveInRisk  |-> FlagUnits(board).MOVE_IN_DANGER,
       stalled     |-> WorkStalled(board),
       planBreaches |-> FlagUnits(board).PLAN_BLOCKED,
       upcomingMoveIns |-> Week("moveIn"),
       upcomingReady   |-> Week("ready"),
       aging |-> [b \in {10, 20, 30, 60, 120, 1000} |->
                    {i \in vacancies : AgingBucket(VacancyDays(i.turnover, i.today)) = b}]]

-----------------------------------------------------------------------------
(* export_excel._rows_to_df: the derived columns of a row *)

IsVacantRow(r) == r.state \in VacantStates
IsNoticeRow(r) == r.state \in NoticeStates

\* _nvm: a row with any move-in date is M.
Nvm(r) == IF r.item.turnover.moveIn # NoDate THEN "M"
          ELSE IF IsVacantRow(r) THEN "V" ELSE IF IsNoticeRow(r) THEN "N" ELSE ""

TaskState(r) == IF r.completion >= 100 THEN "All Tasks Complete"
                ELSE IF r.completion > 0 THEN "In Progress" ELSE "Not Started"

InTurnExecution(r) == IsVacantRow(r) /\ r.completion > 0

\* _build_bucket_df: the grid of the rows whose vacancy falls in one of the buckets.
BucketGrid(rows, buckets) ==
  [b \in buckets |-> {r \in rows : r.dv # NoDays /\ AgingBucket(r.dv) = b}]

\* build_final_report: the units of each of the seven sheets.
FinalReport(rows) ==
  LET moveIns == {r \in rows : r.item.turnover.moveIn # NoDate}
  IN  [Reconciliation |-> rows, HasMoveIn |-> moveIns, NoMoveIn |-> rows \ moveIns,
       AvailableUnits |-> {r \in rows : IsVacantRow(r)}, MoveIns |-> moveIns,
       MoveOuts       |-> rows, PendingFAS |-> {r \in rows : IsNoticeRow(r)},
       MoveActivity   |-> rows]

-----------------------------------------------------------------------------
(* export_excel.build_dmrb_report, sheet by sheet *)

AllBuckets == {10, 20, 30, 60, 120, 1000}

AgingSheet(rows) ==
  [All      |-> BucketGrid(rows, AllBuckets),
   Ready    |-> BucketGrid({r \in rows : r.state = "VACANT_READY"}, AllBuckets),
   NotReady |-> BucketGrid({r \in rows : r.state = "VACANT_NOT_READY"}, AllBuckets)]

\* Active Aging shows the first two buckets only.
ActiveAgingSheet(rows) == BucketGrid({r \in rows : r.state = "VACANT_NOT_READY"}, {10, 20})

\* A mutant: only the vacant units' move-ins are listed.
OperationsSheetVacant(rows) ==
  [OpsMoveIn     |-> {r \in rows : r.item.turnover.moveIn # NoDate /\ IsVacantRow(r)},
   OpsSLABreach  |-> {r \in rows : r.sla_breach},
   OpsInspBreach |-> {r \in rows : r.inspection_breach},
   OpsPlanBreach |-> {r \in rows : r.plan_breach}]

OperationsSheet(rows) ==
  [OpsMoveIn     |-> {r \in rows : r.item.turnover.moveIn # NoDate /\ ~r.is_unit_ready},
   OpsSLABreach  |-> {r \in rows : r.sla_breach},
   OpsInspBreach |-> {r \in rows : r.inspection_breach},
   OpsPlanBreach |-> {r \in rows : r.plan_breach}]

WalkingPathBoard(rows) == {r \in rows : IsVacantRow(r)}

TasksSheet(rows) ==
  [TaskStalled |-> {r \in rows : r.is_task_stalled},
   CleanTurn   |-> {r \in rows : TaskState(r) = "All Tasks Complete" /\ IsVacantRow(r)},
   TaskFlow    |-> {r \in rows : TaskState(r) = "In Progress" /\ InTurnExecution(r)}]

\* A mutant: what is done stays on the schedule.
ScheduleSheetOfAll(rows) ==
  [ty \in SchedTasks |->
     {r \in rows : \E k \in r.item.tasks : k.type = ty /\ k.scheduled # NoDate}]

\* Schedule: the scheduled tasks of a type that are not done.
ScheduleSheet(rows) ==
  [ty \in SchedTasks |->
     {r \in rows : \E k \in r.item.tasks :
        k.type = ty /\ k.scheduled # NoDate /\ k.status \in {"IN_PROGRESS", "SCHEDULED"}}]

\* Upcoming: whatever their status, the tasks due within the week.
UpcomingSheet(rows) ==
  [ty \in SchedTasks |->
     {r \in rows : \E k \in r.item.tasks : k.type = ty /\ WithinWeek(k.due, r.item.today)}]

WDAudit(rows) == {r \in rows : IsVacantRow(r)}

\* Daily Ops: the counts of its seven sections.
DailyOps(rows) ==
  LET N(S) == Cardinality(S)
      breaches == {r \in rows : r.sla_breach}
      atRisk == {r \in rows : IsVacantRow(r) /\ ~r.is_unit_ready /\ r.dv \in 8..9}
  IN  [totalUnits |-> N(rows), vacant |-> N({r \in rows : IsVacantRow(r)}),
       turnBreaches |-> N(breaches),
       compliant    |-> N({r \in rows : IsVacantRow(r)}) - N(breaches),
       inspectionBreaches |-> N({r \in rows : r.inspection_breach}),
       moveInRisk   |-> N({r \in rows : r.movein_breach}),
       planBreaches |-> N({r \in rows : r.plan_breach}),
       byState      |-> [s \in {r.state : r \in rows} |-> N({r \in rows : r.state = s})],
       inTurn       |-> N({r \in rows : InTurnExecution(r)}),
       stalled      |-> N({r \in rows : r.is_task_stalled}),
       ready        |-> N({r \in rows : r.is_unit_ready}),
       alerts       |-> {a \in {"at risk", "breach", "move-in", "stalled"} :
                           CASE a = "at risk" -> atRisk # {}
                             [] a = "breach"  -> breaches # {}
                             [] a = "move-in" -> \E r \in rows : r.movein_breach
                             [] a = "stalled" -> \E r \in rows : r.is_task_stalled}]

\* Priority: the score of a vacant unit; notes are not modelled.
PriorityScore(r) ==
  LET Points(holds, n) == IF holds THEN n ELSE 0
  IN  Points(r.sla_breach, 50) + Points(r.movein_breach, 40)
        + Points(r.is_task_stalled, 30) + Points(r.dv >= 8, 20)

PriorityAction(r) ==
  IF r.sla_breach THEN "ESCALATE" ELSE IF r.movein_breach THEN "URGENT"
  ELSE IF r.is_task_stalled THEN "REVIEW" ELSE "MONITOR"

\* Phase Performance: the columns of one phase's rows; means are left out.
PhasePerformance(rows) ==
  LET N(S) == Cardinality(S)
      vacant   == {r \in rows : IsVacantRow(r)}
      breaches == {r \in rows : r.sla_breach}
  IN  [Units |-> N(rows), Vacant |-> N(vacant), SLA_Breaches |-> N(breaches),
       Ready |-> N({r \in rows : r.is_unit_ready}),
       Compliant |-> N(vacant) - N(breaches)]

-----------------------------------------------------------------------------
(* export_chart.py: what the bars of the nine charts count *)

\* The rows in each bar of a histogram: a bar holds the values up to its bound.
Histogram(rows, bounds, Value(_), Counts(_)) ==
  [b \in bounds |-> {r \in rows : Counts(r) /\ Value(r) <= b
                       /\ \A a \in bounds : a < b => Value(r) > a}]

OpenEnded == 4000000   \* the bound of an open-ended last bar: more days than dates span

ChartTurnTime(rows) ==
  Histogram(rows, {5, 10, 15, 20, OpenEnded}, LAMBDA r : r.dv, LAMBDA r : r.dv # NoDays)

ChartTaskCompletion(rows) ==
  Histogram(rows, {25, 50, 75, 100}, LAMBDA r : r.completion, LAMBDA r : TRUE)

ChartDaysToMoveIn(rows) ==
  Histogram(rows, {2, 7, 14, OpenEnded},
            LAMBDA r : r.item.turnover.moveIn - r.item.today,
            LAMBDA r : r.item.turnover.moveIn # NoDate)

ChartUnitsByState(rows) == [s \in {r.state : r \in rows} |-> {r \in rows : r.state = s}]

ChartUnitsByBadge(rows) ==
  [p \in {r.item.priority : r \in rows} |-> {r \in rows : r.item.priority = p}]

ChartSlaByPhase(rows)     == {r \in rows : r.sla_breach}
ChartVacancyByPhase(rows) == {r \in rows : IsVacantRow(r)}
=============================================================================
