------------------------------ MODULE Lifecycle ------------------------------
(***************************************************************************)
(* One turnover through its phases: the strict transitions of              *)
(* services/lifecycle_transition_service.py, a call of several statements, *)
(* while the API patches the row, its tasks progress and days pass; and    *)
(* what the board, the alerts, the risk score and the reports say of it at *)
(* every moment (BoardRules, Exports).                                     *)
(*                                                                         *)
(* The phase is derived from the row and the day, never stored.  An API    *)
(* update is one step here: TurnoverService takes its statements apart.    *)
(***************************************************************************)
EXTENDS ReferencePipeline

CONSTANTS
  Days,        \* the days that matter, with gaps of more than one
  MoveOuts, MoveIns, Readies, Availables,  \* the dates a PATCH or an import may set
  Statuses,    \* the availability statuses that occur
  TaskKinds,   \* the tasks of the turnover: [type, required, blocking, due, scheduled]
  TaskStatuses \* the statuses that occur

ASSUME DatesOK ==
  /\ \A d \in Days : d \in 0..LastDay
  /\ Days # {} /\ MoveOuts \subseteq Days /\ MoveOuts # {}
  /\ \A d \in MoveIns \cup Readies \cup Availables : d \in 0..LastDay \/ d = NoDate
  /\ Statuses \subseteq AvailabilityStatuses

\* db/schema.sql: one task of a type per turnover, and the five statuses.
ASSUME TasksOK ==
  /\ IsFiniteSet(TaskKinds)
  /\ \A k, l \in TaskKinds : k.type = l.type => k = l
  /\ \A k \in TaskKinds : k.scheduled \in Nat \/ k.scheduled = NoDate
  /\ TaskStatuses \subseteq {"SCHEDULED", "IN_PROGRESS", "COMPLETE", "SKIPPED", "BLOCKED"}

VARIABLES
  row,      \* the turnover
  progress, \* the status of each of its tasks
  today,
  call      \* the transition_turnover_phase call in progress

vars == <<row, progress, today, call>>

Rows == [closed : BOOLEAN, canceled : BOOLEAN, moveOut : Days, moveIn : Days \cup MoveIns \cup {NoDate},
         ready : Readies \cup {NoDate}, available : Availables \cup {NoDate},
         status : Statuses \cup {"vacant ready", "vacant not ready", "on notice", None},
         manual : ManualStatuses \cup {None}]

\* The locals: the phase to reach, the reference day, the move-in day asked for,
\* whether to pull the move-out to the reference day.  disturbed is history:
\* another update came since the call began.
Calls == [step : {"idle", "update", "reread"}, to : Phases \ {"PRE_NOTICE"}, day : Days,
          mid : Days \cup MoveIns, pull : BOOLEAN, disturbed : BOOLEAN]

AnyDay == CHOOSE d \in Days : TRUE
NoCall == [step |-> "idle", to |-> "CLOSED", day |-> AnyDay, mid |-> AnyDay,
           pull |-> FALSE, disturbed |-> FALSE]

tasks == {[type |-> k.type, required |-> k.required, blocking |-> k.blocking,
           due |-> k.due, scheduled |-> k.scheduled, status |-> progress[k]] : k \in TaskKinds}

\* GET /board: the open turnovers of the property.
board == IF IsOpen(row) THEN {BoardItem(row, tasks, today, DefaultSlaThreshold)} ELSE {}

Init ==
  /\ today \in {d \in Days : \A e \in Days : d <= e}
  /\ row \in [closed : {FALSE}, canceled : {FALSE}, moveOut : MoveOuts, moveIn : {NoDate},
              ready : {NoDate}, available : {NoDate}, status : {None}, manual : {None}]
  /\ progress = [k \in TaskKinds |-> "SCHEDULED"]
  /\ call = NoCall

-----------------------------------------------------------------------------
(* transition_turnover_phase *)

\* A mutant: the move-out date is left in the future.
AppliedKeepingDate(r, c) ==
  CASE c.to = "CLOSED"     -> [r EXCEPT !.closed = TRUE]
    [] c.to = "CANCELED"   -> [r EXCEPT !.canceled = TRUE]
    [] c.to = "ON_NOTICE"  -> [r EXCEPT !.manual = "On Notice", !.status = "on notice"]
    [] c.to = "OCCUPIED"   -> [r EXCEPT !.moveIn = c.mid]
    [] c.to = "VACANT_READY" ->
         [r EXCEPT !.manual = "Vacant Ready", !.status = "vacant ready"]
    [] c.to = "VACANT_NOT_READY" ->
         [r EXCEPT !.manual = "Vacant Not Ready", !.status = "vacant not ready"]

\* A mutant: it writes the board's label for the status.
AppliedLabel(r, c) ==
  CASE c.to = "CLOSED"     -> [r EXCEPT !.closed = TRUE]
    [] c.to = "CANCELED"   -> [r EXCEPT !.canceled = TRUE]
    [] c.to = "OCCUPIED"   -> [r EXCEPT !.moveIn = c.mid]
    [] OTHER               -> [r EXCEPT !.manual = c.to, !.status = StatusLabel(c.to)]

\* _apply_transition: the columns each edge writes.
Applied(r, c) ==
  CASE c.to = "CLOSED"     -> [r EXCEPT !.closed = TRUE]
    [] c.to = "CANCELED"   -> [r EXCEPT !.canceled = TRUE]
    [] c.to = "ON_NOTICE"  -> [r EXCEPT !.manual = "On Notice", !.status = "on notice"]
    [] c.to = "OCCUPIED"   -> [r EXCEPT !.moveIn = c.mid]
    [] c.to = "VACANT_READY" ->
         [r EXCEPT !.manual = "Vacant Ready", !.status = "vacant ready"]
    [] c.to = "VACANT_NOT_READY" ->
         [r EXCEPT !.manual = "Vacant Not Ready", !.status = "vacant not ready",
                   !.moveOut = IF c.pull THEN c.day ELSE @]

\* It reads the row and validates the edge; a cancel_reason is given.
Begin ==
  LET from == LifecyclePhase(row, today)
  IN  /\ call.step = "idle"
      /\ \E to \in AllowedTransitions[from],
            mid \in {today} \cup {m \in MoveIns : m # NoDate /\ m <= today} :
           /\ to = "OCCUPIED" \/ mid = today
           /\ call' = [step |-> "update", to |-> to, day |-> today, mid |-> mid,
                       pull |-> from = "ON_NOTICE" /\ to = "VACANT_NOT_READY"
                                  /\ row.moveOut > today,
                       disturbed |-> FALSE]
      /\ UNCHANGED <<row, progress, today>>

\* update_turnover, which refuses a turnover that has ended.
ApplyTransition ==
  /\ call.step = "update"
  /\ IF IsOpen(row)
       THEN /\ row' = Applied(row, call)
            /\ call' = [call EXCEPT !.step = "reread"]
       ELSE row' = row /\ call' = NoCall
  /\ UNCHANGED <<progress, today>>

\* Does the row still have the phase asked for?  Another one raises, the update
\* staying; else lifecycle_event_repository.insert appends the event.  Nothing
\* reads that table back into the state, so it is no variable.
Reread ==
  /\ call.step = "reread"
  /\ call' = NoCall
  /\ UNCHANGED <<row, progress, today>>

\* A statement raises; what was written stays.
Fail ==
  /\ call.step # "idle"
  /\ call' = NoCall
  /\ UNCHANGED <<row, progress, today>>

-----------------------------------------------------------------------------
(* Everybody else *)

\* PATCH /turnovers/{id} and DELETE: an update of an open turnover by another caller.
Update(r) ==
  /\ IsOpen(row)
  /\ row' = r
  /\ call' = [call EXCEPT !.disturbed = call.step # "idle"]
  /\ UNCHANGED <<progress, today>>

\* One column of PatchTurnoverRequest, or report_ready_date and available_date of
\* an import.
PatchDate ==
  \/ \E d \in MoveOuts : Update([row EXCEPT !.moveOut = d])
  \/ \E d \in MoveIns : Update([row EXCEPT !.moveIn = d])
  \/ \E d \in Readies : Update([row EXCEPT !.ready = d])
  \/ \E d \in Availables : Update([row EXCEPT !.available = d])

\* The "status" field sets both columns (_status_payload).
PatchStatus ==
  \E s \in {"vacant ready", "vacant not ready", "on notice"} :
    Update([row EXCEPT !.status = s, !.manual = ManualReadyOf(s)])

\* The two columns are also patchable one by one, and an import can clear the first.
PatchOneStatus ==
  \/ \E s \in Statuses \cup {None} : Update([row EXCEPT !.status = s])
  \/ \E m \in ManualStatuses \cup {None} : Update([row EXCEPT !.manual = m])

CancelTurnover == Update([row EXCEPT !.canceled = TRUE])

\* A task of the turnover changes its status (task_service, any to any).
TaskUpdate ==
  /\ \E k \in TaskKinds, s \in TaskStatuses : progress' = [progress EXCEPT ![k] = s]
  /\ UNCHANGED <<row, today, call>>

DayPasses ==
  /\ today' \in {d \in Days : d > today /\ \A e \in Days : e > today => d <= e}
  /\ UNCHANGED <<row, progress, call>>

Next ==
  \/ Begin \/ ApplyTransition \/ Reread \/ Fail
  \/ PatchDate \/ PatchStatus \/ PatchOneStatus \/ CancelTurnover
  \/ TaskUpdate \/ DayPasses

Spec == Init /\ [][Next]_vars

-----------------------------------------------------------------------------
(***************************************************************************)
(* Properties.                                                             *)
(***************************************************************************)

\* The views are functions of the row, its tasks and the day, which a call that Fail
\* ends leaves as they are: their properties need not look during calls.
BetweenCalls == call.step = "idle"

\* Types of the row, the day, the tasks and the call.
TypeOK ==
  /\ row \in Rows
  /\ ~(row.closed /\ row.canceled)
  /\ today \in Days
  /\ progress \in [TaskKinds -> TaskStatuses \cup {"SCHEDULED"}]
  /\ call \in Calls

\* A transition nobody disturbs has the phase it asked for when it reads the row
\* again, though days pass in between, and so never raises with the row already
\* changed (transition_turnover_phase) -- except on the two edges whose columns
\* cannot produce the phase: back to VACANT_NOT_READY before the move-out, and
\* ON_NOTICE when the unit's available date has come.
TransitionSettles ==
  call.step = "reread" /\ ~call.disturbed =>
    \/ LifecyclePhase(row, call.day) = call.to
    \/ call.to = "VACANT_NOT_READY" /\ ~call.pull /\ row.moveOut > call.day
    \/ call.to = "ON_NOTICE" /\ Arrived(row, call.day)

\* Time alone never hides a problem: when only the day moves on, no agreement
\* leaves RED, the SLA level does not fall and neither does the risk score,
\* whichever gate, status or phase the new day brings.
BreachesOnlyRise ==
  [][BetweenCalls /\ today' # today /\ row' = row /\ progress' = progress =>
       \A was \in board, is \in board' :
         /\ \A a \in DOMAIN was.agreements :
              was.agreements[a] = "RED" => is.agreements[a] = "RED"
         /\ was.slaLevel = "BREACH" => is.slaLevel = "BREACH"
         /\ RiskScore(is) >= RiskScore(was)]_vars

\* The views over one board count the same units, each with a loop of its own:
\* the sidebar's numbers and lists, the board filters, the metrics, the bridge's
\* totals, the priority badge, the move-in label (board_service, formatting).  On a
\* move-in before 1990 the labels part: nvm_state takes it for none, the phase of
\* nvm_label for a resident's.
ViewsAgree ==
  BetweenCalls =>
  LET units   == FlagUnits(board)
      metrics == BoardMetrics(board)
      flagged == UNION {units[c] : c \in DOMAIN units}
  IN  /\ \A c \in DOMAIN units : FlagCounts(board)[c] = Cardinality(units[c])
      /\ FilterByFlagCategory(board, "SLA_RISK") = units.SLA_BREACH
      /\ FilterByFlagCategory(board, "MOVE_IN_DANGER") = units.MOVE_IN_DANGER
      /\ FilterByFlagCategory(board, "INSPECTION_DELAY") = units.INSPECTION_BREACH
      /\ FilterByFlagCategory(board, "PLAN_BREACH") = units.PLAN_BLOCKED
      /\ metrics.planBreach = FlagCounts(board).PLAN_BLOCKED
      /\ metrics.violations = FlagBridgeMetrics(board).violations
      /\ metrics.violations = Cardinality(units.SLA_BREACH \cup units.MOVE_IN_DANGER)
      /\ FlagBridgeMetrics(board).unitsWithBreach = Cardinality(flagged)
      /\ BoardSummary(board).total = metrics.active
      /\ \A i \in board :
           /\ i.priority = "NORMAL" <=> i \notin flagged
           /\ NvmState(row, today) = "Move-In" => NvmLabel(i.phase) = "Move-In"
           /\ NvmLabel(i.phase) = "Move-In" =>
                NvmState(row, today) = "Move-In" \/ ScheduledMoveIn(row) # row.moveIn

\* The other two judges of the same row agree with the board's agreements.  The
\* Alert column, with rules and thresholds of its own, is never quiet on a unit
\* with a RED agreement, whichever inspection task its list has first; and the
\* risk radar, which scores the SLA level, the vacancy, the move-in and the
\* readiness, never calls a unit LOW whose turn or move-in is violated, reaches
\* BREACH exactly when no day is left, and MOVE_IN_DANGER only on a RED move-in.
\* The days that are left to a READY unit are those of its optional tasks.
RiskAndAlertsMatchBoard ==
  BetweenCalls =>
  LET inspections == {k \in tasks : k.type \in InspectionTaskTypes}
      firsts      == IF inspections = {} THEN {{}} ELSE {{k} : k \in inspections}
      evaluated   == EvaluationGate(row, today) = "evaluate"
  IN  \A i \in board :
        /\ \A first \in firsts : HasAnyBreach(i) => AlertParts(i, first) # {}
        /\ i.agreements.viol = "RED" /\ tasks # {} => RiskLevel(i) # "LOW"
        /\ evaluated => (i.slaLevel = "BREACH" <=>
                           DaysUntilBreach(row, today, DefaultSlaThreshold) <= 0)
        /\ evaluated /\ PriorityLevel(row, tasks, today, DefaultSlaThreshold) = "MOVE_IN_DANGER"
             => i.agreements.moveIn = "RED"
        /\ i.readiness = "READY" /\ evaluated /\ ScheduledMoveIn(row) = NoDate
             => DaysToBeReady(row, tasks, today) =
                  DaysToBeReady(row, tasks \ BlockingKinds(tasks), today)

\* The parts of one download agree: the weekly text, the sheets of the DMRB
\* Report and of the Final Report and the chart put the same units behind the
\* same word, and no RED move-in, plan or inspection is missing from Operations.
ReportsAgree ==
  BetweenCalls =>
  LET rows   == ExportRows(board)
      weekly == WeeklySummary(board)
      daily  == DailyOps(rows)
      ops    == OperationsSheet(rows)
      sheet  == TasksSheet(rows)
      final  == FinalReport(rows)
      aging  == AgingSheet(rows)
      Units(S) == {r.item : r \in S}
      Bars(f)  == UNION {f[b] : b \in DOMAIN f}
  IN  /\ Units(ops.OpsPlanBreach) = weekly.planBreaches
      /\ weekly.moveInRisk \subseteq Units(ops.OpsMoveIn)
      /\ Units(ops.OpsInspBreach) = FlagUnits(board).INSPECTION_BREACH
      /\ \A r \in ops.OpsSLABreach : r.is_unit_ready \/ r.item \in weekly.slaBreaches
      /\ ChartSlaByPhase(rows) = ops.OpsSLABreach
      /\ daily.turnBreaches = PhasePerformance(rows).SLA_Breaches
      /\ daily.stalled = Cardinality(weekly.stalled) /\ Units(sheet.TaskStalled) = weekly.stalled
      /\ daily.vacant = weekly.vacant
      /\ WalkingPathBoard(rows) = WDAudit(rows) /\ ChartVacancyByPhase(rows) = final.AvailableUnits
      /\ sheet.CleanTurn \cap sheet.TaskFlow = {}
      /\ sheet.CleanTurn \cup sheet.TaskFlow \subseteq WalkingPathBoard(rows)
      /\ final.HasMoveIn \cap final.NoMoveIn = {}
      /\ final.HasMoveIn = {r \in rows : Nvm(r) = "M"} /\ final.HasMoveIn = Bars(ChartDaysToMoveIn(rows))
      /\ \A b \in AllBuckets : Units(aging.All[b]) = weekly.aging[b]
      /\ \A b \in {10, 20} : ActiveAgingSheet(rows)[b] = aging.NotReady[b]
      /\ Bars(aging.All) = Bars(ChartTurnTime(rows))
      /\ Bars(ChartTaskCompletion(rows)) = rows
      /\ \A i \in board : <<i, "Move-In">> \in TodaysCriticalUnits(board) => i \in weekly.upcomingMoveIns
      /\ \A r \in rows : PriorityAction(r) = "ESCALATE" => PriorityScore(r) >= 50

\* The DMRB Report keeps what the spreadsheet pipeline it was written after would
\* have shown, whatever weekday it is: no turn that is late there, by business
\* days, is missing from its SLA sheet, nothing but what is late there is on its
\* move-in, plan and inspection sheets and in its stalled and flowing tasks, and the
\* schedule, the walking path, the W/D audit, the aging buckets and the colours of
\* both are the same.  The reference gives each task of a unit a day of its own; it
\* leaves the day of the move-out out of its buckets, knows no
\* Pre-Notice, and no move-in after which a unit is still vacant; a move-in before
\* 1990, which occupies the unit here, leaves it vacant there.  It sees the five
\* tasks of its columns only: one that is required and has none can move a unit
\* into the flow here alone, and after an inspection and a paint that were done
\* though they block nothing it waits for a later task's day to call it stalled.
PortFollowsReference ==
  BetweenCalls =>
  \A r \in ExportRows(board) :
    LET on(monday) == ReferenceRow(r.item, monday)
        ref   == on(0)
        mine  == OperationsSheet({r})
        its   == OperationsTables({ref})
        gated == EvaluationGate(row, today) # "evaluate"
        In(S) == S # {}
    IN  /\ \A monday \in 0..6 :
             LET late  == OperationsTables({on(monday)})
                 dates == AssignUpcomingDates(on(monday))
             IN  /\ In(late.OpsSLABreach) /\ ~gated => In(mine.OpsSLABreach)
                 /\ Priority_Action(on(monday)) = "ESCALATE" /\ ~gated =>
                      PriorityAction(r) = "ESCALATE"
                 /\ ScheduledMoveIn(row) = NoDate =>
                      /\ In(mine.OpsInspBreach) => In(late.OpsInspBreach)
                      /\ r.is_task_stalled =>
                           Is_Task_Stalled(on(monday)) \/ {1, 2} \subseteq Done(ref)
                 /\ \A m, n \in 1..5 : m # n /\ dates[m] # NoDate => dates[m] # dates[n]
        /\ In(mine.OpsMoveIn) => In(its.OpsMoveIn)
        /\ In(mine.OpsPlanBreach) => In(its.OpsPlanBreach)
        /\ \A n \in 1..5 :
             In(ScheduleSheet({r})[TASK_SEQUENCE[n]]) = In(ScheduleTables({ref})[n])
        /\ In(WalkingPathBoard({r})) = In(WalkBoard({ref}))
        /\ In(WDAudit({r})) = In(WDAuditTable({ref}))
        /\ In(TasksSheet({r}).TaskFlow) /\ Is_Vacant(ref) =>
             \/ In(TaskViews({ref}).TaskFlow)
             \/ \E k \in tasks : k.required /\ k.type \notin SchedTasks
        /\ In(WeeklySummary({r.item}).upcomingMoveIns) => In(WeeklySections({ref}).upcomingMoveIn)
        /\ ScheduledMoveIn(row) = row.moveIn =>
             PhasePerformance({r}).Vacant >= PhaseComparison({ref}).Vacant
        /\ DailyOps({r}).vacant = DailyOpsReport({ref}).vacant
        /\ "Apartment Move-In" \in DOMAIN VisualDashboard({ref}).badges <=> r.state = "OCCUPIED"
        /\ r.dv > 0 =>
             /\ \A table \in {"All", "Ready", "NotReady"}, b \in AllBuckets :
                  In(AgingSheet({r})[table][b]) = In(AgingTables({ref})[table][b])
             /\ \A b \in {10, 20} :
                  In(ActiveAgingSheet({r})[b]) = In(ActiveAgingTables({ref})[b])
        /\ ref.status # "Pre-Notice" =>
             LET fills == ApplyStatusFills(ref.status, r.dv, None)
                 asked == ReferenceFills(ref.status, ref.dv, None)
             IN  /\ fills.status = asked.status /\ fills.dv = asked.dv
                 /\ r.dv # NoDays => AgingFill(ref.status, r.dv) = fills.dv
=============================================================================
