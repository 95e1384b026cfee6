------------------------------- MODULE Board -------------------------------
(***************************************************************************)
(* What keeps the board true: every GET /board first reconciles the open   *)
(* turnovers with the latest completed Available Units report, creates     *)
(* those of the units whose notice has run out, moves On Notice on to      *)
(* Vacant Not Ready and fills in ready dates                               *)
(* (services/board_reconciliation.py, services/turnover_service.py); the   *)
(* Available Units import and the nightly job do parts of the same, each   *)
(* on what it has read itself.                                             *)
(*                                                                         *)
(* The API's handlers run one at a time on the event loop ("loop"), an     *)
(* import in an executor thread ("import") and the job in a process of its *)
(* own ("job"); each statement outside a transaction commits by itself.    *)
(*                                                                         *)
(* A unit's cell holds its open turnover; gen tells them apart, like       *)
(* turnover_id, and of one that has ended nothing else is kept.  The check *)
(* and the UPDATE of update_turnover are one step, and its risk tables are *)
(* left out: TurnoverService has both.  Of the override columns only       *)
(* status_manual_override_at is ever set by live code, so the others are   *)
(* NULL; report_ready_date is abstracted to where it came from.            *)
(***************************************************************************)
EXTENDS BoardRules

CONSTANTS
  Units,      \* units with a phase in scope
  Days,       \* the days that matter, with gaps of more than one
  ReportRows, \* what a report can say of a unit: [status, available, ready]
  Patched,    \* the statuses operators set
  MoveOuts,   \* the move-out dates that are set by hand or by a Move Outs import
  LastGen,    \* bound: turnovers per unit
  AtOnce      \* bound: actors at work at a time

Actors == {"loop", "import", "job"}

ASSUME BoardConstants ==
  /\ Days \subseteq Nat /\ Days # {} /\ MoveOuts \subseteq Nat
  /\ Patched \subseteq AvailabilityStatuses
  /\ LastGen \in Nat /\ AtOnce \in Nat
  /\ ReportRows \subseteq [status : AvailabilityStatuses, available : Nat \cup {NoDate},
                            ready : BOOLEAN]

VARIABLES
  turn,     \* the open turnover of each unit, or which was the last
  notice,   \* table unit_on_notice_snapshot: available date and ready date, or None
  report,   \* the rows of the latest completed AVAILABLE_UNITS batch
  today,    \* date.today()
  proc,     \* what each actor is doing
  operated, \* history: units whose status was last written by PATCH
  quiet     \* history: loads in a row, alone, with nothing else written since

vars == <<turn, notice, report, today, proc, operated, quiet>>

NoTurnover == [gen |-> 0, open |-> FALSE, moveOut |-> 0, available |-> NoDate,
               status |-> None, manual |-> None, override |-> FALSE, ready |-> None]

NoRow == [status |-> None, available |-> NoDate, ready |-> FALSE]
NoNotice == [available |-> NoDate, ready |-> FALSE]
Reports == [Units -> ReportRows \cup {NoRow}]

NoFields == [f \in {} |-> 0]

\* A row, or fields to write, with these fields over those it has.
Over(fields, row) == [f \in DOMAIN fields \cup DOMAIN row |->
                        IF f \in DOMAIN fields THEN fields[f] ELSE row[f]]

\* The locals: the stage and statement, the reference day, the report read, the
\* units (with the turnover seen) still to do, the current one and the fields to
\* write.  alone is history: no other actor has been at work since this one began
\* (the job: since it read the notices).
Idle == [stage |-> "idle", step |-> "-", day |-> 0, rows |-> [u \in Units |-> NoRow],
         todo |-> {}, target |-> <<>>, fields |-> NoFields, alone |-> FALSE]

Init ==
  /\ turn = [u \in Units |-> NoTurnover]
  /\ notice = [u \in Units |-> NoNotice]
  /\ report = [u \in Units |-> NoRow]
  /\ today = Min(Days)
  /\ proc = [a \in Actors |-> Idle]
  /\ operated = [u \in Units |-> FALSE]
  /\ quiet = 0

Busy(a) == proc[a].stage # "idle"
OthersBusy(a) == \E b \in Actors \ {a} : Busy(b)
MayBegin(a) == ~Busy(a) /\ Cardinality({b \in Actors : Busy(b)}) < AtOnce
At(a, stage, step) == proc[a].stage = stage /\ proc[a].step = step

\* Actor a moves on to locals, and whoever else is at work is not alone any more.
Set(a, locals) ==
  proc' = [b \in Actors |-> IF b = a THEN locals
                            ELSE IF Busy(b) THEN [proc[b] EXCEPT !.alone = FALSE]
                            ELSE proc[b]]

Step(a, step) == Set(a, [proc[a] EXCEPT !.step = step])

\* Nothing but a load and its writes leaves quiet alone.
Noise == quiet' = 0

-----------------------------------------------------------------------------
(***************************************************************************)
(* update_turnover, by id: a turnover that has ended raises.               *)
(***************************************************************************)
Applies(u, gen) == turn[u].gen = gen /\ turn[u].open

Write(u, fields) ==
  /\ turn' = [turn EXCEPT ![u] = Over(fields, @)]
  /\ operated' = [operated EXCEPT ![u] = @ /\ "status" \notin DOMAIN fields]

\* create_turnover: the row with its placeholder ready date, if the unit has no
\* open turnover, which ux_turnover_one_open decides.
CanCreate(u) == ~turn[u].open /\ turn[u].gen < LastGen
Created(u, moveOut) ==
  [NoTurnover EXCEPT !.gen = turn[u].gen + 1, !.open = TRUE, !.moveOut = moveOut,
                     !.ready = "placeholder"]
Create(u, moveOut) ==
  /\ CanCreate(u)
  /\ turn' = [turn EXCEPT ![u] = Created(u, moveOut)]
  /\ operated' = [operated EXCEPT ![u] = FALSE]

\* The statuses of a turnover made for a unit whose notice has run out.
ArrivedFields(row) ==
  Over(IF row.ready THEN [ready |-> "report"] ELSE NoFields,
       [status |-> "vacant not ready", manual |-> "Vacant Not Ready", available |-> row.available])

\* A mutant: a status is taken over only when there is none yet.
StatusFieldsFirst(t, row) ==
  IF row.status = None \/ t.status # None THEN NoFields
  ELSE [status |-> row.status, manual |-> ManualReadyOf(row.status)]

\* The fields a report's status and dates change, under the override rule; an
\* override ends when the report agrees.  The import and the reconciliation
\* apply the same rules.
StatusFields(t, row) ==
  IF row.status = None \/ ~ShouldApplyImportValue(t.status, t.override, row.status) THEN NoFields
  ELSE Over(IF t.status = row.status THEN NoFields
            ELSE Over([status |-> row.status],
                      IF ManualReadyOf(row.status) = None THEN NoFields
                      ELSE [manual |-> ManualReadyOf(row.status)]),
            IF t.override THEN [override |-> FALSE] ELSE NoFields)

ReportFields(t, row) ==
  Over(StatusFields(t, row),
       Over(IF row.available \in {NoDate, t.available} THEN NoFields
            ELSE [available |-> row.available],
            IF row.ready /\ t.ready # "report" THEN [ready |-> "report"] ELSE NoFields))

-----------------------------------------------------------------------------
(***************************************************************************)
(* GET /board: run_board_reconciliation_for_property, stage by stage.  An  *)
(* exception ends its stage only.                                          *)
(***************************************************************************)
Stages == <<"reconcile", "ensure", "transition", "backfill", "idle">>
StageAfter(stage) ==
  LET i == CHOOSE n \in 1..4 : Stages[n] = stage IN Stages[i + 1]

\* The stage is over, completed or not; after the last one of a load the board is read.
NextStage(a, completed) ==
  LET p == proc[a]
      next == IF a = "loop" THEN StageAfter(p.stage)
              ELSE IF p.stage = "transition" THEN "create" ELSE "idle"
      alone == p.alone /\ completed
  IN  /\ Set(a, IF next = "idle" THEN Idle
                ELSE [Idle EXCEPT !.stage = next, !.step = "enter", !.day = p.day,
                                  !.alone = alone])
      /\ quiet' = IF a # "loop" THEN 0
                  ELSE IF next # "idle" THEN quiet
                  ELSE IF alone /\ p.day = today THEN Min({quiet + 1, 2}) ELSE 0

\* Both stages that follow a report read the latest completed batch and its rows.
\* (They look for it among the last 200 batches of the property: as long as it is
\* one of them.)
LoadBegin ==
  /\ MayBegin("loop")
  /\ Set("loop", [Idle EXCEPT !.stage = "reconcile", !.step = "enter", !.day = today,
                              !.alone = ~OthersBusy("loop")])
  /\ UNCHANGED <<turn, notice, report, today, operated, quiet>>

ReadReport ==
  /\ proc["loop"].stage \in {"reconcile", "ensure"} /\ proc["loop"].step = "enter"
  /\ Set("loop", [proc["loop"] EXCEPT !.step = "next", !.rows = report,
                                      !.todo = {<<u, 0>> : u \in {v \in Units : report[v] # NoRow}}])
  /\ UNCHANGED <<turn, notice, report, today, operated, quiet>>

\* reconcile_open_turnovers_from_latest_available_units, a row: what it changes of
\* the unit's open turnover.
ReconcileRead ==
  /\ At("loop", "reconcile", "next")
  /\ \E x \in proc["loop"].todo :
       LET u == x[1]
           fields == ReportFields(turn[u], proc["loop"].rows[u])
           rest == [proc["loop"] EXCEPT !.todo = @ \ {x}]
       IN  Set("loop", IF turn[u].open /\ fields # NoFields
                       THEN [rest EXCEPT !.step = "write", !.target = <<u, turn[u].gen>>,
                                         !.fields = fields]
                       ELSE rest)
  /\ UNCHANGED <<turn, notice, report, today, operated, quiet>>

\* update_turnover raises on a turnover that has ended meanwhile, and that ends
\* the reconciliation; so does any other failure.
ReconcileWrite ==
  LET p == proc["loop"] u == p.target[1]
  IN  /\ At("loop", "reconcile", "write")
      /\ IF Applies(u, p.target[2])
           THEN Write(u, p.fields) /\ UNCHANGED quiet
                  /\ Set("loop", [p EXCEPT !.step = "next", !.target = <<>>, !.fields = NoFields])
           ELSE NextStage("loop", FALSE) /\ UNCHANGED <<turn, operated>>
      /\ UNCHANGED <<notice, report, today>>

\* ensure_on_notice_turnovers_for_property, a row: its notice has run out and the
\* unit has no open turnover.
EnsureLook ==
  /\ At("loop", "ensure", "next")
  /\ \E x \in proc["loop"].todo :
       LET u == x[1]
           row == proc["loop"].rows[u]
           due == StatusIsOnNotice(row.status) /\ Arrived(row, proc["loop"].day)
           rest == [proc["loop"] EXCEPT !.todo = @ \ {x}]
       IN  Set("loop", IF due /\ ~turn[u].open
                       THEN [rest EXCEPT !.step = "create", !.target = <<u, 0>>,
                                         !.fields = ArrivedFields(row)]
                       ELSE rest)
  /\ UNCHANGED <<turn, notice, report, today, operated, quiet>>

\* create_turnover and then update_turnover, each committing by itself; in the
\* job as here, an error is caught and the next unit taken.
CreateDue(a) ==
  LET p == proc[a] u == p.target[1]
  IN  /\ p.step = "create"
      /\ IF turn[u].open
           THEN UNCHANGED <<turn, operated>>
                  /\ Set(a, [p EXCEPT !.step = "next", !.target = <<>>, !.fields = NoFields])
           ELSE Create(u, p.fields.available)
                  /\ Set(a, [p EXCEPT !.step = "update", !.target = <<u, turn[u].gen + 1>>])
      /\ IF a = "loop" THEN UNCHANGED quiet ELSE Noise
      /\ UNCHANGED <<notice, report, today>>

UpdateDue(a) ==
  LET p == proc[a] u == p.target[1]
  IN  /\ p.step = "update" /\ p.stage \in {"ensure", "create"}
      /\ IF Applies(u, p.target[2])
           THEN Write(u, p.fields)
                  /\ Set(a, [p EXCEPT !.step = IF a = "job" THEN "forget" ELSE "next",
                                      !.fields = NoFields, !.target = IF a = "job" THEN @ ELSE <<>>])
           ELSE UNCHANGED <<turn, operated>>
                  /\ Set(a, [p EXCEPT !.step = "next", !.target = <<>>, !.fields = NoFields])
      /\ IF a = "loop" THEN UNCHANGED quiet ELSE Noise
      /\ UNCHANGED <<notice, report, today>>

\* A mutant: the override is not stamped.
TransitionFieldsUnstamped == [status |-> "vacant not ready", manual |-> "Vacant Not Ready"]

AutoTransitionMaxDV == 10
TransitionFields ==
  [status |-> "vacant not ready", manual |-> "Vacant Not Ready", override |-> TRUE]

\* A mutant: the move-out day itself is left for the next day.
MovesOnLate(t, day) ==
  t.open /\ t.manual = "On Notice" /\ t.moveOut < day /\ day - t.moveOut <= AutoTransitionMaxDV

\* Which open turnovers run_available_date_transition moves on.
MovesOn(t, day) ==
  t.open /\ t.manual = "On Notice" /\ t.moveOut <= day /\ day - t.moveOut <= AutoTransitionMaxDV

\* It reads the list once, on a board load as in the job.
TransitionRead(a) ==
  /\ At(a, "transition", "enter")
  /\ Set(a, [proc[a] EXCEPT !.step = "next",
               !.todo = {<<u, turn[u].gen>> : u \in {v \in Units : MovesOn(turn[v], proc[a].day)}}])
  /\ UNCHANGED <<turn, notice, report, today, operated, quiet>>

TransitionWrite(a) ==
  /\ At(a, "transition", "next")
  /\ \E x \in proc[a].todo :
       /\ IF Applies(x[1], x[2]) THEN Write(x[1], TransitionFields)
          ELSE UNCHANGED <<turn, operated>>
       /\ Set(a, [proc[a] EXCEPT !.todo = @ \ {x}])
  /\ IF a = "loop" THEN UNCHANGED quiet ELSE Noise
  /\ UNCHANGED <<notice, report, today>>

\* backfill_placeholder_ready_dates: it updates by id and asks nothing
\* more, but an ended turnover's date is not kept here.
BackfillRead ==
  /\ At("loop", "backfill", "enter")
  /\ Set("loop", [proc["loop"] EXCEPT !.step = "next",
               !.todo = {<<u, turn[u].gen>> : u \in {v \in Units : turn[v].open /\ turn[v].ready = None}}])
  /\ UNCHANGED <<turn, notice, report, today, operated, quiet>>

BackfillWrite ==
  /\ At("loop", "backfill", "next")
  /\ \E x \in proc["loop"].todo :
       /\ IF Applies(x[1], x[2]) THEN Write(x[1], [ready |-> "placeholder"])
          ELSE UNCHANGED <<turn, operated>>
       /\ Set("loop", [proc["loop"] EXCEPT !.todo = @ \ {x}])
  /\ UNCHANGED <<notice, report, today, quiet>>

\* Nothing left to do in a stage.
StageDone(a) ==
  /\ Busy(a) /\ proc[a].step = "next" /\ proc[a].todo = {}
  /\ a \in {"loop", "job"}
  /\ NextStage(a, TRUE)
  /\ UNCHANGED <<turn, notice, report, today, operated>>

Load ==
  \/ ReadReport \/ ReconcileRead \/ ReconcileWrite \/ EnsureLook
  \/ CreateDue("loop") \/ UpdateDue("loop")
  \/ TransitionRead("loop") \/ TransitionWrite("loop") \/ BackfillRead \/ BackfillWrite
  \/ StageDone("loop")

-----------------------------------------------------------------------------
(***************************************************************************)
(* run_midnight_automation, a process of its own.                          *)
(***************************************************************************)
JobBegin ==
  /\ MayBegin("job")
  /\ Set("job", [Idle EXCEPT !.stage = "transition", !.step = "enter", !.day = today])
  /\ UNCHANGED <<turn, notice, report, today, operated, quiet>>

\* A mutant: a notice that runs out today waits for tomorrow.
EligibleTomorrow(n, day) == n.available # NoDate /\ n.available < day

\* get_eligible_for_automation.
Eligible(n, day) == Arrived(n, day)

\* run_on_notice_turnover_creation: the snapshots that have come due.  rows keeps
\* what it has read of them.
JobRead ==
  /\ At("job", "create", "enter")
  /\ Set("job", [proc["job"] EXCEPT !.step = "next",
       !.alone = ~OthersBusy("job"),
       !.todo = {<<u, 0>> : u \in {v \in Units : Eligible(notice[v], proc["job"].day)}},
       !.rows = [u \in Units |-> [status |-> None, available |-> notice[u].available,
                                  ready |-> notice[u].ready]]])
  /\ UNCHANGED <<turn, notice, report, today, operated, quiet>>

\* A mutant: the snapshot of a unit that has an open turnover is dropped.
JobLookDropping ==
  /\ At("job", "create", "next")
  /\ \E x \in proc["job"].todo :
       Set("job", [proc["job"] EXCEPT !.todo = @ \ {x}, !.target = <<x[1], 0>>,
                     !.step = IF turn[x[1]].open THEN "forget" ELSE "create",
                     !.fields = ArrivedFields(proc["job"].rows[x[1]])])
  /\ UNCHANGED <<turn, notice, report, today, operated, quiet>>

\* A unit that has an open turnover is passed over, its snapshot staying.
JobLook ==
  /\ At("job", "create", "next")
  /\ \E x \in proc["job"].todo :
       LET rest == [proc["job"] EXCEPT !.todo = @ \ {x}]
       IN  Set("job", IF turn[x[1]].open THEN rest
                      ELSE [rest EXCEPT !.step = "create", !.target = <<x[1], 0>>,
                                        !.fields = ArrivedFields(proc["job"].rows[x[1]])])
  /\ UNCHANGED <<turn, notice, report, today, operated, quiet>>

\* delete_by_unit: whatever notice the unit has by now.
JobForget ==
  LET p == proc["job"]
  IN  /\ At("job", "create", "forget")
      /\ notice' = [notice EXCEPT ![p.target[1]] = NoNotice]
      /\ Set("job", [p EXCEPT !.step = "next", !.target = <<>>])
      /\ Noise
      /\ UNCHANGED <<turn, report, today, operated>>

Job ==
  \/ JobBegin \/ TransitionRead("job") \/ TransitionWrite("job") \/ JobRead \/ JobLook
  \/ CreateDue("job") \/ UpdateDue("job") \/ JobForget \/ StageDone("job")

-----------------------------------------------------------------------------
(***************************************************************************)
(* The Available Units import, available_units_service.apply: it decides   *)
(* on its reads, and its transaction commits as one step.                  *)
(***************************************************************************)

\* A mutant: a unit that has left the report loses its status, overridden or not.
LeftFieldsAlways(t) ==
  IF ~StatusIsVacant(t.status) THEN NoFields ELSE [status |-> None]

\* _post_process_missing_available_units: a unit that has left the report.  (An
\* incoming NULL never equals a vacant status, so it never clears the override.)
LeftFields(t) ==
  IF ~StatusIsVacant(t.status) \/ ~ShouldApplyImportValue(t.status, t.override, None)
  THEN NoFields ELSE [status |-> None]

\* It reads the open turnovers of the rows and those absent from the report.
ImportRead ==
  /\ MayBegin("import")
  /\ \E file \in Reports :
       Set("import",
         [Idle EXCEPT !.stage = "import", !.step = "look", !.rows = file,
                      !.alone = ~OthersBusy("import"),
                      !.todo = {<<u, turn[u].gen>> : u \in {v \in Units : turn[v].open}},
                      !.fields = [u \in Units |->
                        IF ~turn[u].open THEN NoFields
                        ELSE IF file[u] = NoRow THEN LeftFields(turn[u])
                        ELSE ReportFields(turn[u], file[u])]])
  /\ UNCHANGED <<turn, notice, report, today, operated, quiet>>

\* The units of vacant rows without an open turnover: create_turnover.
Missing(p) ==
  {u \in Units : /\ StatusAllowsTurnoverCreation(p.rows[u].status) /\ p.rows[u].available # NoDate
                 /\ \A x \in p.todo : x[1] # u}

\* create_turnover commits on a connection of its own and ends the import's
\* transaction with it: the update of the new row still commits, and then the
\* import fails at its import_row, all else rolled back (ImportRun).  It refuses a
\* unit that has an open turnover by now: that row is a CONFLICT, and the import
\* goes on.
ImportCreate ==
  LET p == proc["import"]
  IN  /\ At("import", "import", "look")
      /\ \E u \in Missing(p) :
           IF turn[u].open
             THEN Set("import", [p EXCEPT !.todo = @ \cup {<<u, 0>>}]) /\ UNCHANGED <<turn, operated>>
             ELSE /\ Create(u, p.rows[u].available)
                  /\ Set("import", [p EXCEPT !.step = "update", !.target = <<u, turn[u].gen + 1>>])
      /\ Noise
      /\ UNCHANGED <<notice, report, today>>

ImportUpdate ==
  LET p == proc["import"] u == p.target[1]
  IN  /\ At("import", "import", "update")
      /\ IF Applies(u, p.target[2])
           THEN Write(u, ReportFields(NoTurnover, p.rows[u]))
           ELSE UNCHANGED <<turn, operated>>
      /\ Set("import", Idle)
      /\ Noise
      /\ UNCHANGED <<notice, report, today>>

\* The commit: updates, snapshots and the batch; a turnover to update that has
\* ended meanwhile fails the import.
ImportCommit ==
  LET p == proc["import"]
      writes == {x \in p.todo : p.fields[x[1]] # NoFields}
  IN  /\ At("import", "import", "look")
      /\ Missing(p) = {}
      /\ IF \A x \in writes : Applies(x[1], x[2])
           THEN /\ turn' = [u \in Units |-> IF \E x \in writes : x[1] = u
                                            THEN Over(p.fields[u], turn[u]) ELSE turn[u]]
                /\ operated' = [u \in Units |-> operated[u] /\ ~(\E x \in writes :
                                  x[1] = u /\ "status" \in DOMAIN p.fields[u])]
                /\ notice' = [u \in Units |->
                     IF /\ StatusIsOnNotice(p.rows[u].status) /\ p.rows[u].available # NoDate
                        /\ \A x \in p.todo : x[1] # u
                     THEN [available |-> p.rows[u].available, ready |-> p.rows[u].ready]
                     ELSE notice[u]]
                /\ report' = p.rows
           ELSE UNCHANGED <<turn, operated, notice, report>>
      /\ Set("import", Idle)
      /\ Noise
      /\ UNCHANGED today

Import == ImportCreate \/ ImportUpdate \/ ImportCommit

-----------------------------------------------------------------------------
(***************************************************************************)
(* The other handlers, between loads, and the clock.                       *)
(***************************************************************************)
ByHand(u, t, operates) ==
  /\ turn' = [turn EXCEPT ![u] = t]
  /\ operated' = [operated EXCEPT ![u] = operates]
  /\ proc' = [a \in Actors |-> IF Busy(a) THEN [proc[a] EXCEPT !.alone = FALSE] ELSE proc[a]]
  /\ Noise
  /\ UNCHANGED <<notice, report, today>>

\* PATCH of "status": the two columns, and no override.  (It can also set one of
\* them alone, which no page asks for: Lifecycle has that.)
PatchStatus ==
  \E u \in Units, s \in Patched :
    /\ ~Busy("loop") /\ turn[u].open
    /\ ByHand(u, [turn[u] EXCEPT !.status = s, !.manual = ManualReadyOf(s)], TRUE)

\* PATCH of move_out_date between loads; a Move Outs import at any moment.
ChangeMoveOut ==
  \E u \in Units, d \in MoveOuts :
    turn[u].open /\ ByHand(u, [turn[u] EXCEPT !.moveOut = d], operated[u])

\* PATCH of report_ready_date, to nothing.
PatchReady ==
  \E u \in Units : /\ ~Busy("loop") /\ turn[u].open
                   /\ ByHand(u, [turn[u] EXCEPT !.ready = None], operated[u])

\* DELETE or a close between loads; a Move Outs import at any moment.
EndTurnover ==
  \E u \in Units : turn[u].open /\ ByHand(u, [NoTurnover EXCEPT !.gen = turn[u].gen], FALSE)

\* POST /turnovers between loads; a Move Outs import at any moment.
CreateTurnover ==
  \E u \in Units, d \in MoveOuts : CanCreate(u) /\ ByHand(u, Created(u, d), FALSE)

\* An actor fails between two statements: an exception in a load ends its stage
\* only, the job and the import end.
Fail(a) ==
  /\ Busy(a)
  /\ IF a = "loop" THEN NextStage(a, FALSE) ELSE Set(a, Idle) /\ Noise
  /\ UNCHANGED <<turn, notice, report, today, operated>>

Midnight ==
  /\ today # Max(Days)
  /\ today' = Min({d \in Days : d > today})
  /\ Noise
  /\ UNCHANGED <<turn, notice, report, proc, operated>>

Next ==
  \/ LoadBegin \/ Load \/ Job \/ ImportRead \/ Import
  \/ PatchStatus \/ ChangeMoveOut \/ PatchReady
  \/ EndTurnover \/ CreateTurnover
  \/ Midnight
  \/ \E a \in Actors : Fail(a)

\* The job is started every night and the operating system runs it, and it does not
\* die in the middle for ever (when it is done it ends as when it fails).  Nothing
\* is asked of loads and imports.
Fairness == WF_vars(Job) /\ <>[][Fail("job") => StageDone("job")]_vars

Spec == Init /\ [][Next]_vars
FairSpec == Spec /\ Fairness

-----------------------------------------------------------------------------
(***************************************************************************)
(* Properties.                                                             *)
(***************************************************************************)

\* Types; a turnover that has ended keeps nothing.
TypeOK ==
  /\ turn \in [Units -> [gen : 0..LastGen, open : BOOLEAN, moveOut : Nat,
                         available : Nat \cup {NoDate}, status : AvailabilityStatuses \cup {None},
                         manual : ManualStatuses \cup {None}, override : BOOLEAN,
                         ready : {"placeholder", "report", None}]]
  /\ notice \in [Units -> [available : Nat \cup {NoDate}, ready : BOOLEAN]]
  /\ report \in Reports
  /\ today \in Days /\ quiet \in 0..2 /\ operated \in [Units -> BOOLEAN]
  /\ \A a \in Actors : proc[a].day \in Days \cup {0} /\ proc[a].alone \in BOOLEAN
  /\ \A u \in Units : ~turn[u].open => turn[u] = [NoTurnover EXCEPT !.gen = turn[u].gen]

\* After a load that nobody disturbed, in which nothing failed, until somebody
\* writes or the day changes, and between loads: every unit whose notice in the
\* report has run out has its turnover, no turnover waits On Notice within the
\* catch-up window, and each has a ready date
\* (run_board_reconciliation_for_property, "board-true").
LoadHeals ==
  quiet >= 1 /\ ~Busy("loop") =>
    \A u \in Units :
      /\ StatusIsOnNotice(report[u].status) /\ Arrived(report[u], today) =>
           turn[u].open \/ turn[u].gen = LastGen
      /\ turn[u].open => /\ turn[u].ready # None
                         /\ turn[u].manual = "On Notice" =>
                              today - turn[u].moveOut \notin 0..AutoTransitionMaxDV

\* After two such loads every open turnover of the report has the report's status,
\* unless it is overridden.  (One is not enough: a turnover that "ensure" makes is
\* "vacant not ready" until the next load finds the report saying "on notice".)
LoadFollowsReport ==
  quiet = 2 =>
    \A u \in Units :
      turn[u].open /\ ~turn[u].override /\ report[u].status # None =>
        turn[u].status = report[u].status

\* Loads settle: a third undisturbed load in a row changes no turnover, whatever
\* the import, the job, the operators and earlier loads have left, so refreshing
\* the board does not toggle a status.
LoadsSettle == [][quiet = 2 /\ (Load \/ LoadBegin) => turn' = turn]_vars

\* An overridden status changes only by an operator's PATCH or the automatic
\* transition that overrides it again -- or by a writer that was not alone and
\* decided before the override was set (the job: when it completes a turnover of
\* its own making).
OverrideSticks ==
  [][\A u \in Units :
       turn[u].override /\ turn'[u].open /\ turn'[u].gen = turn[u].gen
         /\ turn'[u].status # turn[u].status =>
           \/ operated'[u]
           \/ turn'[u] = Over(TransitionFields, turn[u])
           \/ proc["job"].step = "update" /\ proc'["job"] # proc["job"]
           \/ \E a \in {"loop", "import"} : Busy(a) /\ ~proc[a].alone /\ proc'[a] # proc[a]]_vars

\* A notice is not lost: it leaves the table only when the job, which had found one
\* of the unit due, has made a turnover of that, and completed it unless it has
\* ended since.  A job that dies or fails in between leaves the notice for the
\* next.  If nobody was at work since the job read the notices, the one it deletes
\* is the one it read, and the turnover has its date.  (Else an import may have
\* replaced the notice by one of another date, which goes with it, or changed the
\* turnover.)
NoticeKept ==
  [][\A u \in Units : notice[u] # NoNotice /\ notice'[u] = NoNotice =>
       LET p    == proc["job"]
           made == p.target[2]
       IN  /\ p.target[1] = u /\ Arrived(p.rows[u], p.day)
           /\ made \in 1..turn[u].gen
           /\ turn[u].open /\ turn[u].gen = made => turn[u].available # NoDate
           /\ p.alone =>
                /\ notice[u] = [available |-> p.rows[u].available, ready |-> p.rows[u].ready]
                /\ turn[u].open /\ turn[u].gen = made
                /\ turn[u].moveOut = notice[u].available /\ turn[u].available = notice[u].available]_vars

\* A notice that has come due does not wait for ever: the job makes the turnover,
\* or another writer does, or a later import moves the notice on.
NoticeServed ==
  \A u \in Units :
    Arrived(notice[u], today) ~> turn[u].open \/ turn[u].gen = LastGen \/ ~Arrived(notice[u], today)
=============================================================================
