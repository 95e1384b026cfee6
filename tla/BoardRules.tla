----------------------------- MODULE BoardRules -----------------------------
(***************************************************************************)
(* What the board says of an open turnover: the rules of domain/ and the   *)
(* read model of services/board_service.py, services/risk_service.py and   *)
(* api/presentation/formatting.py, as functions of the turnover row, its   *)
(* tasks and the reference day.  None of them writes.                      *)
(*                                                                         *)
(* A row is a record with the fields of TurnoverDomain and moveIn, ready,  *)
(* available (report_ready_date, ...: day numbers, NoDate for NULL),       *)
(* status (availability_status) and manual (manual_ready_status), None for *)
(* NULL.  Statuses are the normalised lower-case ones, and the two on      *)
(* notice spellings, which no rule tells apart, are one.  A task is a      *)
(* record [type, required, blocking, status, due, scheduled].              *)
(***************************************************************************)
EXTENDS TurnoverDomain, FiniteSets, FiniteSetsExt

NoDate  == -1
LastDay == 3652059    \* date.max, as a day number: the ordinal of Python's dates
Year1990 == 726468    \* date(1990, 1, 1)
NoDays  == -4000000   \* None, where a number of days may be negative
None   == "None"

AvailabilityStatuses == {"on notice", "vacant not ready", "vacant ready",
                         "beacon not ready", "beacon ready"}
ManualStatuses       == {"On Notice", "Vacant Not Ready", "Vacant Ready"}
ReadyStatuses        == {"vacant ready", "beacon ready"}
Phases               == {"PRE_NOTICE", "ON_NOTICE", "VACANT_NOT_READY", "VACANT_READY",
                         "OCCUPIED", "CLOSED", "CANCELED"}
InspectionTaskTypes  == {"INSPECT", "INSPECTION"}

-----------------------------------------------------------------------------
(* domain/availability_status.py *)

StatusAllowsTurnoverCreation(s) == s \in AvailabilityStatuses \ {"on notice"}
StatusIsVacant(s)               == s \in {"vacant ready", "vacant not ready"}
StatusIsOnNotice(s)             == s = "on notice"

\* availability_status_to_manual_ready_status.
ManualReadyOf(s) ==
  CASE s = "on notice"                                -> "On Notice"
    [] s \in {"vacant not ready", "beacon not ready"} -> "Vacant Not Ready"
    [] s \in ReadyStatuses                            -> "Vacant Ready"
    [] OTHER                                          -> None

\* An on-notice row whose available date has come counts as vacant not ready.
Arrived(t, today) == t.available # NoDate /\ t.available <= today

EffectiveManualReadyStatus(t, today) ==
  IF t.manual = None THEN ManualReadyOf(t.status)
  ELSE IF t.manual = "On Notice" /\ Arrived(t, today) THEN "Vacant Not Ready"
  ELSE t.manual

EffectiveAvailabilityStatus(t, today) ==
  IF t.manual = "On Notice" /\ StatusIsOnNotice(t.status) /\ Arrived(t, today)
  THEN "vacant not ready" ELSE t.status

-----------------------------------------------------------------------------
(* domain/turnover_lifecycle.py *)

AllowedTransitions == [p \in Phases |->
  CASE p = "PRE_NOTICE"       -> {"ON_NOTICE", "CANCELED"}
    [] p = "ON_NOTICE"        -> {"VACANT_NOT_READY", "CANCELED"}
    [] p = "VACANT_NOT_READY" -> {"VACANT_READY", "CLOSED", "CANCELED"}
    [] p = "VACANT_READY"     -> {"OCCUPIED", "VACANT_NOT_READY", "CLOSED", "CANCELED"}
    [] p = "OCCUPIED"         -> {"CLOSED"}
    [] OTHER                  -> {}]

LifecyclePhase(t, today) ==
  LET manual == EffectiveManualReadyStatus(t, today)
  IN  CASE t.canceled                                -> "CANCELED"
        [] ~t.canceled /\ t.closed                   -> "CLOSED"
        [] IsOpen(t) /\ t.moveIn # NoDate /\ t.moveIn <= today -> "OCCUPIED"
        [] OTHER ->
             IF manual = "Vacant Ready" THEN "VACANT_READY"
             ELSE IF t.moveOut <= today THEN "VACANT_NOT_READY"
             ELSE IF manual = "On Notice" THEN "ON_NOTICE"
             ELSE "PRE_NOTICE"

\* days_since_move_out: negative while the move-out lies ahead.
DaysSinceMoveOut(t, today) == today - t.moveOut

\* A mutant: a move-in date that has passed is no pressure.
MoveInWithinAhead(t, today, n) == t.moveIn # NoDate /\ t.moveIn - today \in 0..n

\* days_to_move_in and sla.move_in_pressure, within n days; None is not.
MoveInWithin(t, today, n) == t.moveIn # NoDate /\ t.moveIn - today <= n

\* vacancy_days: up to the move-in, or to today; NoDays before the move-out.
VacancyDays(t, today) ==
  IF t.moveIn # NoDate THEN t.moveIn - t.moveOut
  ELSE IF t.moveOut <= today THEN today - t.moveOut ELSE NoDays

\* _move_in_date_for_schedule: a move-in before 1990 stands for none.  nvm_state and
\* urgency_sort_key have the same test; the phase, the vacancy and the agreements not.
ScheduledMoveIn(t) == IF t.moveIn < Year1990 THEN NoDate ELSE t.moveIn

\* days_to_be_ready: the move-in when one is planned, the last due date otherwise.
DaysToBeReady(t, tasks, today) ==
  LET due == {k.due : k \in {j \in tasks : j.due # NoDate
                                           /\ j.status \notin {"COMPLETE", "SKIPPED"}}}
      left(day) == IF day > today THEN day - today ELSE 0
  IN  IF ScheduledMoveIn(t) # NoDate THEN left(t.moveIn)
      ELSE IF due = {} THEN 0 ELSE left(Max(due))

\* nvm_state: notice, vacant or moved in, read from the dates alone.
NvmState(t, today) ==
  LET moveIn == ScheduledMoveIn(t)
      booked == moveIn # NoDate /\ moveIn > today
  IN  IF ~IsOpen(t) THEN "-"
      ELSE IF moveIn # NoDate /\ ~booked THEN "Move-In"
      ELSE IF t.moveOut <= today THEN IF booked THEN "SMI" ELSE "Vacant"
      ELSE IF booked THEN "Notice + SMI" ELSE "Notice"

-----------------------------------------------------------------------------
(* domain/readiness.py *)

IsDone(k) == k.status \in {"COMPLETE", "SKIPPED"}

BlockingKinds(tasks) == {k \in tasks : k.required /\ k.blocking}
BlockingTasks(tasks) == {k \in BlockingKinds(tasks) : ~IsDone(k)}

\* Once some blocking task has started and one is not done, the latter is a
\* block: the branch that would answer IN_PROGRESS has no input that reaches it.
ReadinessState(tasks) ==
  IF tasks = {} THEN "NO_TASKS"
  ELSE IF BlockingTasks(tasks) = {} THEN "READY"
  ELSE IF \E k \in BlockingKinds(tasks) : k.status \in {"IN_PROGRESS", "COMPLETE", "SKIPPED", "BLOCKED"}
  THEN "BLOCKED" ELSE "NOT_STARTED"

CompletionRatio(tasks) ==
  LET required == {k \in tasks : k.required}
  IN  <<Cardinality({k \in required : IsDone(k)}), Cardinality(required)>>

-----------------------------------------------------------------------------
(* domain/sla.py and domain/priority_engine.py *)

DefaultSlaThreshold == 14
MoveInDangerDays    == 3

\* days_until_breach: negative once the threshold has passed.
DaysUntilBreach(t, today, threshold) == threshold - DaysSinceMoveOut(t, today)

\* breach_severity: what a risk flag is stored with.
BreachSeverity(level) ==
  CASE level = "BREACH" -> "CRITICAL" [] level = "WARNING" -> "WARNING" [] OTHER -> "INFO"

\* derive_priority_from_agreements: the gravest red agreement.
PriorityFromAgreements(a) ==
  IF a.moveIn = "RED" THEN "MOVE_IN_DANGER"
  ELSE IF a.sla = "RED" THEN "SLA_RISK"
  ELSE IF a.inspection = "RED" THEN "INSPECTION_DELAY"
  ELSE IF a.plan = "RED" THEN "PLAN_DELAY" ELSE "NORMAL"

\* urgency_sort_key: units with a move-in first, the nearest first; then the
\* longest vacant first.
UrgencySortKey(t, today) ==
  IF ScheduledMoveIn(t) # NoDate THEN <<0, t.moveIn>> ELSE <<1, -DaysSinceMoveOut(t, today)>>

\* priority_level: the older rule, over the row and its tasks.
PriorityLevel(t, tasks, today, threshold) ==
  LET phase     == LifecyclePhase(t, today)
      readiness == ReadinessState(tasks)
      noticed   == phase \in {"PRE_NOTICE", "ON_NOTICE"}
  IN  IF ~IsOpen(t) \/ (readiness = "READY" /\ phase = "VACANT_READY") THEN "LOW"
      ELSE IF MoveInWithin(t, today, MoveInDangerDays) /\ readiness # "READY" THEN "MOVE_IN_DANGER"
      ELSE IF SlaRisk(t, today, threshold) # "OK" THEN "SLA_RISK"
      ELSE IF readiness = "BLOCKED" THEN "INSPECTION_DELAY"
      ELSE IF noticed /\ readiness \in {"READY", "NOT_STARTED"} THEN "LOW"
      ELSE "NORMAL"

-----------------------------------------------------------------------------
(* services/board_service.py: the agreements of one turnover *)

AgreementSlaDays == 10
InspectionYellow == 24
InspectionRed    == 48

\* The inspection agreement: due once nothing else blocks, late by the vacancy.
InspectionFlag(t, tasks, today) ==
  LET inspections == {k \in tasks : k.type \in InspectionTaskTypes}
      others      == {k \in BlockingTasks(tasks) : k.type \notin InspectionTaskTypes}
      out         == DaysSinceMoveOut(t, today)
  IN  IF \/ inspections = {} \/ others # {}
         \/ \E k \in inspections : k.status = "COMPLETE" THEN "GREEN"
      ELSE IF out > InspectionRed THEN "RED"
      ELSE IF out > InspectionYellow THEN "YELLOW" ELSE "GREEN"

\* evaluate_turnover_agreements.
EvaluateAgreements(t, tasks, today) ==
  LET Late(cond) == IF cond /\ ReadinessState(tasks) # "READY" THEN "RED" ELSE "GREEN"
      sla    == Late(DaysSinceMoveOut(t, today) > AgreementSlaDays)
      moveIn == Late(MoveInWithin(t, today, 3))
  IN  [inspection |-> InspectionFlag(t, tasks, today),
       sla        |-> sla,
       moveIn     |-> moveIn,
       plan       |-> Late(t.ready # NoDate /\ today > t.ready),
       viol       |-> IF "RED" \in {sla, moveIn} THEN "RED" ELSE "GREEN"]

AgreementsAllGreen == [inspection |-> "GREEN", sla |-> "GREEN", moveIn |-> "GREEN",
                       plan |-> "GREEN", viol |-> "GREEN"]

\* _evaluation_gate: which rows the agreements are not evaluated for.
EvaluationGate(t, today) ==
  IF t.canceled THEN "skip_evaluation"
  ELSE IF \/ LifecyclePhase(t, today) = "VACANT_READY"
          \/ EffectiveAvailabilityStatus(t, today) \in ReadyStatuses THEN "vacant_ready"
  ELSE "evaluate"

\* _build_healthy_board_item, for a gated row that is on the board.
HealthyBoardItem(t, tasks, today) ==
  [turnover |-> t, tasks |-> tasks, phase |-> LifecyclePhase(t, today), today |-> today,
   readiness |-> "READY", completed |-> <<0, 0>>, blockers |-> {}, slaLevel |-> "OK",
   pressured |-> [n \in {0, 3, 7} |-> FALSE],
   agreements |-> AgreementsAllGreen, priority |-> "NORMAL",
   sortKey |-> UrgencySortKey(t, today)]

\* One pass of get_board's loop.
BoardItem(t, tasks, today, threshold) ==
  LET agreements == EvaluateAgreements(t, tasks, today)
  IN  IF EvaluationGate(t, today) # "evaluate" THEN HealthyBoardItem(t, tasks, today)
      ELSE [turnover |-> t, tasks |-> tasks, phase |-> LifecyclePhase(t, today), today |-> today,
            readiness  |-> ReadinessState(tasks),
            completed  |-> CompletionRatio(tasks),
            blockers   |-> BlockingTasks(tasks),
            slaLevel   |-> SlaRisk(t, today, threshold),
            pressured  |-> [n \in {0, 3, 7} |-> MoveInWithin(t, today, n)],
            agreements |-> agreements,
            priority   |-> PriorityFromAgreements(agreements),
            sortKey    |-> UrgencySortKey(t, today)]

-----------------------------------------------------------------------------
(* services/board_service.py: the views over a board, a set of items *)

Red(agreement, board) == {i \in board : i.agreements[agreement] = "RED"}

\* work_stalled_unit_entries: NOT_STARTED and IN_PROGRESS only.
WorkStalled(board) ==
  {i \in board : /\ i.readiness \in {"IN_PROGRESS", "NOT_STARTED"}
                 /\ DaysSinceMoveOut(i.turnover, i.today) > 5}

\* get_board_summary: how many items of each priority, phase and readiness.
BoardSummary(board) ==
  LET Count(field) == [v \in {i[field] : i \in board} |->
                         Cardinality({i \in board : i[field] = v})]
  IN  [total      |-> Cardinality(board), byPriority  |-> Count("priority"),
       byPhase    |-> Count("phase"),     byReadiness |-> Count("readiness")]

\* get_board_metrics.
BoardMetrics(board) ==
  [active      |-> Cardinality(board),            violations  |-> Cardinality(Red("viol", board)),
   planBreach  |-> Cardinality(Red("plan", board)), slaBreach |-> Cardinality(Red("sla", board)),
   moveInRisk  |-> Cardinality(Red("moveIn", board)),
   workStalled |-> Cardinality(WorkStalled(board))]

\* get_flag_units: the units behind each breach category of the sidebar.
FlagUnits(board) ==
  [SLA_BREACH        |-> Red("sla", board),        MOVE_IN_DANGER |-> Red("moveIn", board),
   INSPECTION_BREACH |-> Red("inspection", board), PLAN_BLOCKED   |-> Red("plan", board)]

\* A mutant: an SLA breach is counted from the risk level.
FlagCountsByLevel(board) ==
  LET reds(i) == [MOVE_IN_DANGER    |-> i.agreements.moveIn = "RED",
                  SLA_BREACH        |-> i.slaLevel = "BREACH",
                  INSPECTION_BREACH |-> i.agreements.inspection = "RED",
                  PLAN_BLOCKED      |-> i.agreements.plan = "RED"]
  IN  [c \in {"SLA_BREACH", "MOVE_IN_DANGER", "INSPECTION_BREACH", "PLAN_BLOCKED"} |->
         Cardinality({i \in board : reds(i)[c]})]

\* get_flag_counts: its own loop over the same categories.
FlagCounts(board) ==
  LET reds(i) == [MOVE_IN_DANGER    |-> i.agreements.moveIn = "RED",
                  SLA_BREACH        |-> i.agreements.sla = "RED",
                  INSPECTION_BREACH |-> i.agreements.inspection = "RED",
                  PLAN_BLOCKED      |-> i.agreements.plan = "RED"]
  IN  [c \in {"SLA_BREACH", "MOVE_IN_DANGER", "INSPECTION_BREACH", "PLAN_BLOCKED"} |->
         Cardinality({i \in board : reds(i)[c]})]

\* filter_by_flag_category: the board_filter argument of GET /board.
FilterByFlagCategory(board, category) ==
  CASE category = "MOVE_IN_DANGER"   -> Red("moveIn", board)
    [] category = "SLA_RISK"         -> Red("sla", board)
    [] category = "INSPECTION_DELAY" -> Red("inspection", board)
    [] category = "PLAN_BREACH"      -> Red("plan", board)
    [] OTHER                         -> {}

HasAnyBreach(i) == "RED" \in {i.agreements[a] : a \in DOMAIN i.agreements}

\* get_flag_bridge_metrics.
FlagBridgeMetrics(board) ==
  [total |-> Cardinality(board), violations |-> Cardinality(Red("viol", board)),
   unitsWithBreach |-> Cardinality({i \in board : HasAnyBreach(i)})]

\* get_morning_risk_metrics: by the risk level and the pressure, not the agreements.
MorningRiskMetrics(board) ==
  [vacantOver7 |-> Cardinality({i \in board : DaysSinceMoveOut(i.turnover, i.today) > 7}),
   slaBreach   |-> Cardinality({i \in board : i.slaLevel # "OK"}),
   moveInSoon  |-> Cardinality({i \in board : i.pressured[3]})]

\* get_todays_critical_units: what happens on the reference day.
TodaysCriticalUnits(board) ==
  {<<i, "Move-Out">> : i \in {j \in board : j.turnover.moveOut = j.today}}
    \cup {<<i, "Move-In">> : i \in {j \in board : j.turnover.moveIn = j.today}}

-----------------------------------------------------------------------------
(* services/risk_service.py: the score of a board item, 0 to 100 *)

RiskScore(i) ==
  LET out   == DaysSinceMoveOut(i.turnover, i.today)
      sla   == IF i.slaLevel = "BREACH" THEN 40 ELSE IF i.slaLevel = "WARNING" THEN 25 ELSE 0
      dv    == IF out > 14 THEN 20 ELSE IF out > 7 THEN 10 ELSE 0
      press == IF i.pressured[0] THEN 25 ELSE IF i.pressured[3] THEN 20
               ELSE IF i.pressured[7] THEN 10 ELSE 0
      work  == IF i.readiness = "BLOCKED" THEN 15 ELSE IF i.readiness = "NOT_STARTED" THEN 10 ELSE 0
      score == sla + dv + press + work
  IN  IF score > 100 THEN 100 ELSE score

RiskLevel(i) ==
  IF RiskScore(i) >= 60 THEN "HIGH" ELSE IF RiskScore(i) >= 30 THEN "MEDIUM" ELSE "LOW"

-----------------------------------------------------------------------------
(* api/presentation/formatting.py: the labels of a row of GET /board *)

\* nvm_label, from the phase; nvm_state answers from the dates.
NvmLabel(phase) ==
  CASE phase = "PRE_NOTICE" -> "Notice" [] phase = "ON_NOTICE" -> "Notice + SMI"
    [] phase \in {"VACANT_NOT_READY", "VACANT_READY"} -> "Vacant"
    [] phase = "OCCUPIED"   -> "Move-In" [] OTHER -> "-"

StatusLabel(phase) ==
  CASE phase \in {"PRE_NOTICE", "ON_NOTICE"}              -> "On notice"
    [] phase \in {"VACANT_NOT_READY", "CANCELED"}         -> "Vacant not ready"
    [] phase \in {"VACANT_READY", "OCCUPIED", "CLOSED"}   -> "Vacant ready"

\* display_status_for_board_item: the effective status, or else the phase's label.
DisplayStatus(i) ==
  LET manual == EffectiveManualReadyStatus(i.turnover, i.today)
  IN  CASE manual = "On Notice"         -> "On notice"
        [] manual = "Vacant Not Ready"  -> "Vacant not ready"
        [] manual = "Vacant Ready"      -> "Vacant ready"
        [] OTHER                        -> StatusLabel(i.phase)

\* qc_label.
QcLabel(tasks) == IF BlockingTasks(tasks) = {} THEN "QC Done" ELSE "QC Not Done"

\* The inspection dot of board_breach_row_display.  first is the inspection task
\* that comes first in the list, or the empty set when there is none.
InspectionDot(i, first) ==
  LET out == DaysSinceMoveOut(i.turnover, i.today)
  IN  IF DisplayStatus(i) # "Vacant not ready"
      THEN IF i.agreements.inspection = "RED" THEN "red" ELSE "green"
      ELSE IF \E k \in first : k.status = "COMPLETE" THEN "green"
      ELSE IF out >= 2 THEN "red" ELSE IF out > 0 THEN "yellow" ELSE "-"

\* A mutant: a move-in is alerted only while it lies ahead.
AlertPartsUpcoming(i, first) ==
  {p \in {"SLA", "MI", "Insp", "Plan"} :
     CASE p = "SLA"  -> i.agreements.sla = "RED"
       [] p = "MI"   -> i.turnover.moveIn > i.today /\ i.agreements.moveIn = "RED"
       [] p = "Insp" -> InspectionDot(i, first) = "red"
       [] p = "Plan" -> i.agreements.plan = "RED"}

\* board_breach_row_display: the breaches the Alert column lists, or what it
\* says when there is none.
AlertParts(i, first) ==
  {p \in {"SLA", "MI", "Insp", "Plan"} :
     CASE p = "SLA"  -> i.agreements.sla = "RED"
       [] p = "MI"   -> i.turnover.moveIn # NoDate /\ i.agreements.moveIn = "RED"
       [] p = "Insp" -> InspectionDot(i, first) = "red"
       [] p = "Plan" -> i.agreements.plan = "RED"}

QuietAlert(i) ==
  LET ready == \/ i.phase = "VACANT_READY"
               \/ i.turnover.status \in ReadyStatuses
               \/ EffectiveManualReadyStatus(i.turnover, i.today) = "Vacant Ready"
               \/ EffectiveAvailabilityStatus(i.turnover, i.today) \in ReadyStatuses
  IN  IF ready THEN "Ready"
      ELSE IF DisplayStatus(i) = "On notice" THEN "On Notice"
      ELSE IF \E k \in i.tasks : k.status # "COMPLETE" THEN "In Progress"
      ELSE "Needs Attention"
=============================================================================
