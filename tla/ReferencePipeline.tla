-------------------------- MODULE ReferencePipeline --------------------------
(***************************************************************************)
(* docs/export_reference: the spreadsheet pipeline the DMRB Report was     *)
(* written after ("matching reference", export_excel.py).  Its three       *)
(* stages and its views, as functions of a row of the spreadsheet: a       *)
(* reference to hold the exports against.                                  *)
(*                                                                         *)
(* A row is [status, nvm, moveOut, ready, moveIn, dv, today, monday,       *)
(* tasks, qc, assign, note]: day numbers, of which those that leave the    *)
(* remainder monday by 7 are Mondays; tasks gives each of the five columns *)
(* its status and date; note is the category of its note.  Of a table or   *)
(* text only the rows it lists or counts are kept.                         *)
(***************************************************************************)
EXTENDS Exports, SequencesExt

TASK_SEQUENCE == <<"INSPECT", "PAINT", "MAKE_READY", "HOUSEKEEPING", "CARPET_CLEAN">>
DueOffset     == <<1, 2, 3, 6, 7>>   \* TASK_COLS

-----------------------------------------------------------------------------
(* facts.py: run_facts *)

\* business_days: none before the move-out, where nothing asks how many.
BusinessDays(from, to, monday) ==
  Cardinality({d \in from..(to - 1) : (d - monday) % 7 \notin {5, 6}})

AgingBusinessDays(r) == BusinessDays(r.moveOut, r.today, r.monday)

\* Is_Vacant, Is_SMI and Is_On_Notice look for words in N/V/M; the hyphen of
\* "Move-In" keeps it from being the "MOVE IN" of Is_SMI.
Is_Vacant(r)    == r.nvm = "Vacant"
Is_SMI(r)       == r.nvm \in {"SMI", "Notice + SMI"}
Is_On_Notice(r) == r.nvm \in {"Notice", "Notice + SMI"}

Is_MoveIn_Present(r) == r.moveIn # NoDate
Is_Ready_Declared(r) == r.ready # NoDate

\* Aging: pd.cut, open on the left, so that the day of the move-out is in no bucket.
Aging(r) == IF r.dv # NoDays /\ r.dv > 0 THEN AgingBucket(r.dv) ELSE NoDays

Done(r) == {i \in 1..5 : r.tasks[i].status = "Done"}

Task_State(r) ==
  IF Done(r) = 1..5 THEN "All Tasks Complete"
  ELSE IF \A i \in 1..5 : r.tasks[i].status = "Not Started" THEN "Not Started"
  ELSE "In Progress"

Is_Task_Stalled(r) ==
  Is_Vacant(r) /\ \E i \in (1..5) \ Done(r) : AgingBusinessDays(r) > DueOffset[i] + 1

-----------------------------------------------------------------------------
(* intelligence.py: run_intelligence *)

Is_Unit_Ready(r) == r.status = "Vacant Ready" /\ Task_State(r) = "All Tasks Complete"

Is_Unit_Ready_For_Moving(r) == Is_Unit_Ready(r) /\ Is_MoveIn_Present(r) /\ r.qc = "Done"

In_Turn_Execution(r) == Is_Vacant(r) /\ ~Is_Unit_Ready(r)

Move_In_Happened(r) == Is_MoveIn_Present(r) /\ r.moveIn <= r.today

Operational_State(r) ==
  IF Is_On_Notice(r) THEN IF Is_SMI(r) THEN "On Notice - Scheduled" ELSE "On Notice"
  ELSE IF ~Is_Vacant(r) /\ ~Is_SMI(r) THEN "Out of Scope"
  ELSE IF Is_MoveIn_Present(r) /\ In_Turn_Execution(r) THEN "Move-In Risk"
  ELSE IF Is_Unit_Ready(r) /\ Is_MoveIn_Present(r) /\ r.qc # "Done" THEN "QC Hold"
  ELSE IF Is_Task_Stalled(r) THEN "Work Stalled"
  ELSE IF Task_State(r) = "In Progress" THEN "In Progress"
  ELSE IF Is_Unit_Ready(r) THEN "Apartment Ready" ELSE "Pending Start"

Prevention_Risk_Flag(r) ==
  /\ In_Turn_Execution(r)
  /\ \/ r.note \in {"HOLD", "ISSUE", "REOPEN", "MAYBE"} \/ r.assign = None
     \/ Task_State(r) = "In Progress" /\ ~Is_Task_Stalled(r)

Attention_Badge(r) ==
  LET state == Operational_State(r)
  IN  IF Move_In_Happened(r) THEN "Apartment Move-In"
      ELSE IF Is_On_Notice(r) THEN state
      ELSE IF Is_SMI(r) /\ Is_MoveIn_Present(r) THEN "Scheduled to Move In"
      ELSE IF state \in {"Pending Start", "In Progress"} /\ Prevention_Risk_Flag(r)
      THEN "Needs Attention" ELSE state

-----------------------------------------------------------------------------
(* sla.py: run_sla *)

INSPECTION_SLA_DAYS == 1
TURN_SLA_DAYS       == 10
MOVE_IN_BUFFER_DAYS == 2

Days_To_MoveIn(r) == r.moveIn - r.today

Inspection_SLA_Breach(r) ==
  Is_Vacant(r) /\ 1 \notin Done(r) /\ AgingBusinessDays(r) > INSPECTION_SLA_DAYS

SLA_Breach(r) ==
  Is_Vacant(r) /\ ~Is_Unit_Ready(r) /\ AgingBusinessDays(r) > TURN_SLA_DAYS

SLA_MoveIn_Breach(r) ==
  /\ Is_MoveIn_Present(r) /\ ~Is_Unit_Ready_For_Moving(r)
  /\ Days_To_MoveIn(r) \in 0..MOVE_IN_BUFFER_DAYS

Plan_Breach(r) == Is_Ready_Declared(r) /\ r.today >= r.ready /\ ~Is_Unit_Ready(r)

-----------------------------------------------------------------------------
(* views/ *)

\* str.startswith("vacant") of the Status column.
VacantStatus(r) == r.status \in {"Vacant Ready", "Vacant Not Ready"}

Buckets(rows, buckets) == [b \in buckets |-> {r \in rows : Aging(r) = b}]

\* dashboard.py: build_aging_tables and build_active_aging_tables.
AgingTables(rows) ==
  [All      |-> Buckets(rows, AllBuckets),
   Ready    |-> Buckets({r \in rows : r.status = "Vacant Ready"}, AllBuckets),
   NotReady |-> Buckets({r \in rows : r.status = "Vacant Not Ready"}, AllBuckets)]

ActiveAgingTables(rows) == Buckets({r \in rows : r.status = "Vacant Not Ready"}, {10, 20})

\* operations.py: its four tables.
OperationsTables(rows) ==
  [OpsMoveIn     |-> {r \in rows : Is_MoveIn_Present(r) /\ ~Is_Unit_Ready_For_Moving(r)},
   OpsSLABreach  |-> {r \in rows : SLA_Breach(r)},
   OpsInspBreach |-> {r \in rows : Inspection_SLA_Breach(r)},
   OpsPlanBreach |-> {r \in rows : Plan_Breach(r)}]

\* task_views.py.
TaskViews(rows) ==
  [TaskStalled |-> {r \in rows : Is_Task_Stalled(r)},
   CleanTurn   |-> {r \in rows : Task_State(r) = "All Tasks Complete" /\ Is_Vacant(r)},
   TaskFlow    |-> {r \in rows : Task_State(r) = "In Progress" /\ In_Turn_Execution(r)}]

\* schedule.py.
ScheduleTables(rows) ==
  [i \in 1..5 |-> {r \in rows : /\ r.tasks[i].date # NoDate
                                /\ r.tasks[i].status \in {"In Progress", "Scheduled"}}]

WalkBoard(rows)    == {r \in rows : VacantStatus(r)}   \* walk_board.py
WDAuditTable(rows) == {r \in rows : VacantStatus(r)}   \* wd_audit.py

\* upcoming.py: _next_business_day.
NextBusinessDay(day, monday) == Min({d \in (day + 1)..(day + 3) : (d - monday) % 7 \notin {5, 6}})

\* _assign_upcoming_dates: the scheduled tasks of a unit in sequence, each at
\* least a business day after the one before.  PlaceTask is one pass of its loop.
PlaceTask(r, acc, i) ==
  LET day == IF r.tasks[i].date > r.today THEN Max({r.tasks[i].date, acc.cursor})
             ELSE acc.cursor
  IN  IF r.tasks[i].status # "Scheduled" \/ r.tasks[i].date = NoDate THEN acc
      ELSE [cursor |-> NextBusinessDay(day, r.monday), dates |-> [acc.dates EXCEPT ![i] = day]]

AssignUpcomingDates(r) ==
  LET Place(acc, i) == PlaceTask(r, acc, i)
      start == [cursor |-> NextBusinessDay(r.today, r.monday), dates |-> [i \in 1..5 |-> NoDate]]
  IN  Place(Place(Place(Place(Place(start, 1), 2), 3), 4), 5).dates

\* _spread_mr_dates: the Make Ready days of one assignee, the earliest first, each
\* at least a business day after the one before.
SpreadMRDates(rows) ==
  LET planned == [r \in rows |-> AssignUpcomingDates(r)[3]]
      queue   == SetToSortSeq({r \in rows : planned[r] # NoDate},
                              LAMBDA a, b : planned[a] < planned[b])
      Spread(dates, r) ==
        LET taken == {NextBusinessDay(dates[q], q.monday) :
                        q \in {p \in DOMAIN dates : p.assign = r.assign}}
            day   == Max(taken \cup {planned[r]})
        IN  [q \in DOMAIN dates \cup {r} |-> IF q = r THEN day ELSE dates[q]]
  IN  FoldLeft(Spread, [r \in {} |-> NoDate], queue)

-----------------------------------------------------------------------------
(* reports/ *)

\* daily_ops.py; the shares and means are left out.
DailyOpsReport(rows) ==
  LET N(S) == Cardinality(S)
      breaches == OperationsTables(rows).OpsSLABreach
      ready    == {r \in rows : Is_Unit_Ready(r)}
  IN  [vacant     |-> N(WalkBoard(rows)),
       turnBreaches |-> N(breaches),
       compliant  |-> N(WalkBoard(rows)) - N(breaches),
       inspectionBreaches |-> N(OperationsTables(rows).OpsInspBreach),
       moveInRisk |-> N({r \in rows : SLA_MoveIn_Breach(r)}),
       planBreaches |-> N(OperationsTables(rows).OpsPlanBreach),
       byState    |-> [s \in {Operational_State(r) : r \in rows} |->
                         N({r \in rows : Operational_State(r) = s})],
       inTurn     |-> N({r \in rows : In_Turn_Execution(r)}),
       stalled    |-> N({r \in rows : Is_Task_Stalled(r)}),
       ready      |-> N(ready),
       awaitingQC |-> N({r \in ready : ~Is_Unit_Ready_For_Moving(r)}),
       atRisk     |-> N({r \in rows : In_Turn_Execution(r) /\ AgingBusinessDays(r) \in 8..9})]

\* priority.py, for the vacant rows.
Priority_Score(r) ==
  LET Points(holds, n) == IF holds THEN n ELSE 0
  IN  Points(SLA_Breach(r), 50) + Points(SLA_MoveIn_Breach(r), 40)
        + Points(Is_Task_Stalled(r), 30) + Points(AgingBusinessDays(r) >= 8, 20)
        + Points(r.note # None, 10)

Priority_Action(r) ==
  IF SLA_Breach(r) THEN "ESCALATE" ELSE IF SLA_MoveIn_Breach(r) THEN "URGENT"
  ELSE IF Is_Task_Stalled(r) THEN "REVIEW" ELSE "MONITOR"

\* phase_performance.py: the counts of one phase's rows; its means are left out.
PhaseComparison(rows) ==
  [Units |-> Cardinality(rows), Vacant |-> Cardinality({r \in rows : Is_Vacant(r)}),
   SLA_Breaches |-> Cardinality({r \in rows : SLA_Breach(r)}),
   Ready |-> Cardinality({r \in rows : Is_Unit_Ready(r)})]

\* weekly_summary.py: the sections that list units, and its aging buckets, whose
\* names are not those of the Aging column: only 31-60, 61-120 and 120+ are.
WeeklySections(rows) ==
  [upcomingMoveIn |-> {r \in rows : Is_MoveIn_Present(r) /\ Days_To_MoveIn(r) \in 0..14},
   upcomingReady  |-> {r \in rows : Is_Ready_Declared(r) /\ ~Is_Unit_Ready(r)},
   moveInRisk     |-> {r \in rows : SLA_MoveIn_Breach(r)},
   aging          |-> Buckets(rows, {60, 120, 1000})]

\* visual_dashboard.py: the rows its nine charts count; bins and means are left out.
VisualDashboard(rows) ==
  LET vacant == {r \in rows : Is_Vacant(r)}
  IN  [turnTime  |-> vacant,
       states    |-> [s \in {Operational_State(r) : r \in rows} |->
                        {r \in rows : Operational_State(r) = s}],
       breaches  |-> {r \in rows : SLA_Breach(r)},
       tasksDone |-> [i \in 1..5 |-> {r \in vacant : i \in Done(r)}],
       badges    |-> [b \in {Attention_Badge(r) : r \in rows} |->
                        {r \in rows : Attention_Badge(r) = b}],
       daysToMoveIn |-> {r \in rows : Is_MoveIn_Present(r) /\ Days_To_MoveIn(r) \in 0..30}]

-----------------------------------------------------------------------------
(* io_excel.py and its counterpart in export_excel.py: the colours of a row *)

\* _apply_dashboard_formatting and _apply_operations_formatting: the cells of the
\* status, of the vacancy, of the move-in and of the alert.
ReferenceFills(status, dv, alert) ==
  LET base == CASE status = "On Notice" -> "notice" [] status = "Vacant Ready" -> "green"
                [] status = "Vacant Not Ready" -> "pink" [] OTHER -> None
      late == dv # NoDays /\ dv >= 10
      aged == IF status # "Vacant Not Ready" THEN base ELSE IF late THEN "pink" ELSE "green"
  IN  [status |-> base, dv |-> IF dv = NoDays THEN None ELSE aged, moveIn |-> aged,
       alert |-> IF status # "Vacant Not Ready" \/ late THEN aged
                 ELSE IF alert = "Work Stalled" THEN "gray"
                 ELSE IF alert = "Needs Attention" THEN "yellow" ELSE "green"]

\* _status_fill_color.
StatusFillColor(status) ==
  CASE status \in {"On Notice", "Pre-Notice"} -> "notice" [] status = "Vacant Ready" -> "green"
    [] status = "Vacant Not Ready" -> "pink" [] OTHER -> None

\* _apply_status_fills: the move-in and the alert take the colour of the status.
ApplyStatusFills(status, dv, alert) ==
  LET base == StatusFillColor(status)
  IN  [status |-> base, moveIn |-> base,
       dv    |-> IF dv = NoDays THEN None
                 ELSE IF status = "Vacant Not Ready" /\ dv < 10 THEN "green" ELSE base,
       alert |-> IF alert = "Work Stalled" THEN "gray"
                 ELSE IF alert = "Needs Attention" THEN "yellow" ELSE base]

\* _apply_aging_formatting and _apply_aging_fills: the same rule for a cell of a bucket.
AgingFill(status, dv) ==
  CASE status = "On Notice" -> "notice" [] status = "Vacant Ready" -> "green"
    [] status = "Vacant Not Ready" -> IF dv >= 10 THEN "pink" ELSE "green" [] OTHER -> None

-----------------------------------------------------------------------------
(* The spreadsheet row of a board item *)

\* _STATE_TO_STATUS of export_excel.py.
StateToStatus(phase) ==
  CASE phase = "VACANT_READY" -> "Vacant Ready" [] phase = "VACANT_NOT_READY" -> "Vacant Not Ready"
    [] phase = "ON_NOTICE" -> "On Notice" [] phase = "PRE_NOTICE" -> "Pre-Notice"
    [] phase = "OCCUPIED" -> "Occupied" [] OTHER -> phase

\* A column of a task that the turnover does not have is blank.
TaskColumn(tasks, type) ==
  LET Label == [s \in {"NOT_STARTED", "SCHEDULED", "IN_PROGRESS", "COMPLETE", "SKIPPED", "BLOCKED"} |->
        CASE s = "COMPLETE" -> "Done" [] s = "SCHEDULED" -> "Scheduled"
          [] s = "IN_PROGRESS" -> "In Progress" [] s = "NOT_STARTED" -> "Not Started" [] OTHER -> s]
      mine == {k \in tasks : k.type = type}
      k == CHOOSE j \in mine : TRUE
  IN  IF mine = {} THEN [status |-> "Not Started", date |-> NoDate]
      ELSE [status |-> Label[k.status], date |-> k.scheduled]

ReferenceRow(i, monday) ==
  [status |-> StateToStatus(i.phase), nvm |-> NvmState(i.turnover, i.today),
   moveOut |-> i.turnover.moveOut, ready |-> i.turnover.ready, moveIn |-> i.turnover.moveIn,
   dv |-> VacancyDays(i.turnover, i.today), today |-> i.today, monday |-> monday,
   tasks |-> [n \in 1..5 |-> TaskColumn(i.tasks, TASK_SEQUENCE[n])],
   qc |-> IF \E k \in i.tasks : k.type = "QUALITY_CONTROL" /\ k.status = "COMPLETE"
          THEN "Done" ELSE "Not Started",
   assign |-> None, note |-> None]
=============================================================================
