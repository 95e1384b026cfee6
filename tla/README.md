# Verification of the Digital Make Ready Board

TLA+ models of the DMRB (apartment turnover operations: React over FastAPI over
PostgreSQL, raw SQL through psycopg2), checked by TLC and in part proved by TLAPS.
Paths are relative to `src/`.

## 1. The system

| Component | State it keeps | Operations | Talks to |
|---|---|---|---|
| Turnover service (`services/turnover_service.py`) | table `turnover` | create, update, close, cancel, W/D notify/install and their undos | task and risk service inside its calls; called by the API, imports, board loads, the nightly job |
| Risk synchronisation (`services/risk_service.py`, `db/repository/risk_repository.py`) | `risk_flag`, `sla_event` | evaluate the SLA, bring the two tables into line | tail of every turnover update |
| Connections (`db/connection.py`) | pool, autocommit flags, thread-local `_local.txn_conn` | `get_connection`, `transaction` | under every repository call |
| Import orchestrator (`services/imports/orchestrator.py`, `services/import_service.py`) | `import_batch`, `import_row` | duplicate detection, batch life cycle, one transaction around a report's service | report services, connections |
| Report services (`services/imports/`) | statuses, dates, overrides, `missing_moveout_count`, `unit_on_notice_snapshot` | row by row: unit, turnover, outcome; post-processing of what a report leaves out | turnover service (which opens a transaction of its own), units |
| Board reconciliation (`services/board_reconciliation.py`) | none | before each `GET /board`: reconcile, create, transition, backfill | turnover service, latest batch |
| Nightly automation (`services/automation/`) | none | transition by date, creation from snapshots | turnover service |
| Life-cycle transitions (`services/lifecycle_transition_service.py`) | `lifecycle_event` | one validated phase change, read back | turnover service |
| Task service (`services/task_service.py`) | `task`, `task_template` | status FSM, stamps, templates | turnover creation, API |
| Domain rules (`domain/`) | none | readiness, SLA, phase, overrides, priorities | all services |
| Read models (`services/board_service.py`, `api/presentation/`, Risk Radar) | none | board, metrics, flags, alerts, scores | API, exports |
| Exports (`services/exports/`), after `docs/export_reference` | none | DMRB Report, Final Report, weekly text, chart | board view |
| Structure (`services/unit_service.py`, `property_service.py`, `unit_master_import_plan.py`) | `phase`, `building`, `unit` | Unit Master import and its report, manual units, units of reports | imports, API |
| Phase scope, occupancy, missing move-outs | `phase_scope*`, `unit_occupancy_global`, `import_row` | save and read a scope, ingest, resolve | API |
| Report operations (`services/report_operations/`), batch diagnostics | `import_row.resolved_at`, `audit_log` entries of skipped fields | list conflicts, invalid rows, pending move-ins; keep or accept, correct, reconcile; three tallies of a batch | turnover service; called by the archived page, the list of conflicts and the tallies also by the API |
| Work orders, Active SR report | none | validate, classify, distribute over workbooks | occupancy |
| Frontend (`frontend/src`) | query caches, edits in progress | Board, Schedule, Detail pages | API |
| Audit, notes, settings, write guard, migrations, parsers, AI agent | their tables | single statements, pure functions | |

**What runs at once.** One uvicorn process (`nixpacks.toml`): most handlers are
`async def` over synchronous service code, so two of them never interleave; plain
`def` handlers (phase scope) run in a thread pool. An upload runs in an executor
thread (`api/routers/imports.py:24-36`) while the event loop serves other requests;
the nightly job (`scripts/run_midnight_automation.py`) is a process of its own; a
redeploy or a scaled service is a second server; a browser has several requests
under way. Outside `transaction()` each statement commits by itself.

**What is hard.** Check-then-act between statements; nested `transaction()` blocks;
risk tables that several statements bring into line; four writers of one status
(operators, board loads, imports, the job) with three override rules; retries of what
failed half-way; midnight between two reads of the clock; caches that a refetch begun
before a save may overwrite; a dozen views that each decide anew what is late.
`PROJECT.json` "hazards" lists each at its line, with the properties that cover it or
why none does.

**What makes each part correct.** Turnovers: at most one open per unit, ends are final
and exclusive. Risk: the tables say what the last undisturbed evaluation said.
Connections: none leaks but one that is lost inside a block, none goes back dirty, a block is all
or nothing. Imports: a file gets in at last, batch and rows agree, cancellation takes
two misses in a row. Board: undisturbed loads repair, settle and respect overrides;
notices are kept and served. Transitions reach their phase. Views and reports judge a unit alike,
and time alone never hides a breach. Tasks: completed once, both stamps, READY is kept.
Structure: units are placed, the announced import is the one done. Pages end up showing
what the server has.

## 2. Modules

| Module | Models | EXTENDS / INSTANCE |
|---|---|---|
| `TurnoverDomain` | the rules of `domain/` that the write paths use | |
| `TurnoverLedger` | what `turnover_service.py:3-6` promises: the abstract specification | |
| `TurnoverService` | the turnover and risk services over their tables | EXTENDS `TurnoverDomain`, INSTANCE `TurnoverLedger` with a refinement mapping |
| `Connection` | `db/connection.py` over a database of cells | |
| `ImportRun` | orchestrator and Move Outs import | EXTENDS `TurnoverDomain`, INSTANCE `Connection`: its steps are statements on those connections |
| `TaskRules`, `TaskService` | the task FSM; its callers | `TaskService` EXTENDS `TaskRules` |
| `BoardRules` | life-cycle rules and the read models over them, as operators | EXTENDS `TurnoverDomain` |
| `Exports`, `ReferencePipeline` | the reports; the pipeline they were written after | each EXTENDS the one before |
| `Lifecycle` | a turnover, its tasks and the day; the transition service; what all views say | EXTENDS `ReferencePipeline` |
| `Board` | board loads, Available Units import, nightly job, operators | EXTENDS `BoardRules` |
| `WorkOrders`, `Registry` | workbooks; structure, scope, occupancy, queue of move-ins | `Registry` EXTENDS `WorkOrders` |
| `ReportQueues` | the rows and queues an import leaves; the services that resolve them | EXTENDS `BoardRules` |
| `Operations` | `Registry` and `ReportQueues` as one system | EXTENDS `Registry`, INSTANCE `ReportQueues` |
| `Frontend` | one browser, its caches and requests, the handlers it calls | EXTENDS `TaskRules` |
| `TurnoverServiceProofs`, `ConnectionProofs`, `ImportRunProofs`, `TaskServiceProofs`, `LifecycleProofs`, `BoardProofs`, `OperationsProofs`, `FrontendProofs` | theorems | each EXTENDS its module |
| `MC*` | the instances TLC checks | |

**TurnoverService.** A service call is a program counter `call[c].step` and its locals;
each action is one repository call, that is one autocommitted statement. `CreateCheck` is
the part of `create_turnover` before its transaction; `CreateCommit` is the transaction,
one step because nobody sees it half done. `Begin` (PATCH, or the read and check of a
helper), `Lookup`, `Write`, `Evaluate` and the actions of `SyncRisk` are
`update_turnover` line by line. `Fail` is any statement raising: what was written stays.
The unique indexes and CHECKs of `db/schema.sql` are `IndexAllows`, `CheckAllows` and the
guards of the inserts. `synced` and `alone` are history.

**Connection.** `transaction()` is `Begin` ... `Commit` or `Rollback`; `Release` is its
`finally`. `Execute` is a statement under `get_connection()`: on the connection the thread
remembers, or on a borrowed one where it commits at once. `Raise` raises inside; the code
around may swallow it, so any step may follow. PostgreSQL is external (`Over`, `Locked`,
`aborted`). An inner `Begin` takes a second connection, and the inner `Release` sets
`txn_conn` to None although the outer block goes on, as in the code. `Lose` breaks a connection
at any moment; psycopg2 notices when it has something to send, and a block then ends in `Strand`
instead of `Release`: the `finally` raises at its first assignment, so `txn_conn` stays and
`putconn` is not called. A commit may succeed and lose its answer.

**ImportRun.** One action per step of `import_report_file` and of
`move_outs_service.apply`. A file is the sequence of its rows and stands for its checksum.
The database of `Connection` has a cell for each unit, each unit's latest turnover, each
batch and the rows of each batch. Foreign keys are tests of what the connection sees. Its
connections stay up (`Links`): losing one is Connection's, and fails an import as `Fail` does.

**TaskService.** `Read` is the read, the FSM and the stamps, `Write` the UPDATE by id.
`readiness_state` never returns its IN_PROGRESS (its `has_block` holds whenever it is
evaluated), and the clearing of `completed_date` at `task_service.py:206-211` is
unreachable: the FSM has no way out of COMPLETE.

**BoardRules, Exports, ReferencePipeline.** Pure functions of a row, its tasks and the
day; a view is the set of units it lists or counts, its wording and layout left out. A move-in
before 1990 stands for none where the code has that test (`ScheduledMoveIn`: `nvm_state`,
`days_to_be_ready`, `urgency_sort_key`) and is a date elsewhere. The
reference pipeline is a second, independent definition of the same reports
(`docs/export_reference`, which `export_excel.py` says it matches), weekdays included.

**Lifecycle.** `Begin`, `ApplyTransition`, `Reread` are the three accesses of
`transition_turnover_phase`; PATCHes, imports, tasks and days come between. An API update
is one step here: TurnoverService takes its statements apart. `board` is what
`get_board_view` would answer at any moment, and every view is evaluated on it; the views do not
depend on the call, so their properties look between calls only (`BetweenCalls`; `Fail` leads there
from every state of a call with the row, tasks and day unchanged).

**Board.** `proc[a]` holds the locals of each actor: the event loop in a `GET /board`, an
import thread, the job. A load goes through the four stages of
`run_board_reconciliation_for_property`, an exception ending its stage only; each read,
each create and each update is a step. The import reads everything first and writes in one
commit, so that what it decided may be stale. Ended turnovers keep only their number
(`gen`, which is `turnover_id`). Between these, handlers create, end, re-date and patch turnovers
(`CreateTurnover`, `EndTurnover`, `ChangeMoveOut`, `PatchStatus`, `PatchReady`); a PATCH of one status
column by itself, which no page sends, is in Lifecycle only. A report is looked up
among the last 200 batches in the code and without that limit here. `operated`, `alone` and `quiet` (undisturbed loads since
the last write) are history.

**Registry.** Three shared databases of small operations. Transactions (Unit Master,
report) keep what they have made apart until they commit; `Clash` is the unique key that
makes an insert wait. The plan is computed by its own definition, from
`unit_master_import_plan.py`, and the import by `unit_service.py`. `SaveUpsert`,
`SaveDelete` and `SaveInsert` are the autocommitted statements of a scope's save.
`DeskCreate` and `DeskResolve` are the two commits of a resolution; the row may have been resolved
or left the scope since the page listed it, for the handler checks neither. (Nor that the row is the
unit's: the page sends both from one line, and so does the model.) `WorkOrders` makes the
workbooks sets of orders.

**Frontend.** `cache` and `fetch` are the two queries of TanStack Query 5, `sent` the
PATCHes under way, which are handled and answered in any order or lost, `timer` the edit the
debounce holds back, one for all fields of the form, `form` what the user has put into the Detail page's
inputs, which are uncontrolled and keep it whatever the query brings, `pending` the Schedule's unsaved
edits. Two dates stand for the four debounced fields, the assignee for what saves at
once. `typed` (dates on their way), `raced` (inputs that may rightly differ from the server) and
`steady` are history. `Invalidated` and the options of `main.tsx` say which query is refetched.

**ReportQueues.** An import is one step, since the modules above take it apart; all it writes
bears `now`, the instant its transaction began, as `NOW()` does. An instant is five seconds, the
window in which `get_override_conflicts` joins rows with audit entries. `rows`, `batches`, `skips`
are `import_row`, `import_batch` and the audit entries of source `:override_skip`. `desk` is a
manager's call with its commits, `clerk` a `reconcile_pending_move_ins`; either fails between any
two. `of` and `served` of a row and `clerk.alone` are history. The only override live code
sets is the one on the status, so of the fields of a conflict only the status is there. A file that would create a
turnover is not imported here: that import fails (finding 1).

**Operations.** The two modules before it side by side: a behaviour is one of `Registry` in which
nothing is queued by `ReportQueues`, or the other way round, as its scenario says. Both have
`import_row` and turnovers, at different grains, which the code joins by tables that neither
disturbs: `Registry` resolves a missing move-out by making its turnover, `ReportQueues` what needs
none.

## 3. Runs

| Run | Instance | Shows |
|---|---|---|
| `TurnoverService` | 2 callers, 1 unit, 2 turnovers, date changes, close, cancel | `OneOpenTurnover`, `RiskTablesAgree`, `EndedIsLeft`, refinement of `TurnoverLedger` (`LedgerSpec`) |
| `Connection` | 2 threads, 3 connections that may be lost, 2 cells, depth 2 | `ConnectionsAccounted`, `IdleIsClean`, `FlatAllOrNothing` |
| `ImportRun` | 1 importer, 3 reports, 2 units | `CanceledAfterTwoAbsences`, and under fairness `EventuallyImported` |
| `ImportRace` | 2 importers, pool of 3, failures anywhere, a new unit, a unit without phase | `RowsMatchBatch` |
| `ImportAtomic` | 1 importer, no failures | **violated**: a nested transaction commits apart (finding 1) |
| `TaskService` | 2 callers, 1 task, 3 days | `CompletedIsStamped`, `CompletedOnce`, `ReadyStays` |
| `Lifecycle` | 1 turnover, 2 tasks, 3 of their statuses, days 0, 3, 13, 26, 49 | `TransitionSettles`, `BreachesOnlyRise`, `ViewsAgree`, `RiskAndAlertsMatchBoard`, `ReportsAgree`, `PortFollowsReference` |
| `Board` | 1 unit, 2 actors at a time, 2 report rows, days 0, 1, 12 | `LoadHeals`, `LoadFollowsReport`, `LoadsSettle`, `OverrideSticks`, `NoticeKept` |
| `Nightly` | all 3 actors, one notice | under fairness `NoticeServed` |
| `Frontend` | 2 PATCHes under way, 2 edits, 2 date fields, 2 dates | `PageFollows`, `EditKept`, and under fairness `EditArrives` |
| `TaskCompletes` | 1 edit | **violated**: no page can complete a task (finding 2) |
| `Operations` | one scenario at a time: structure, scope, work orders, queue (3 apartments, 4 files, 3 reports, 4 scopes, 42 orders); override conflicts, arrivals (2 units, 2 imports, 2 instants) | `OperationsTypeOK`, `UnitsArePlaced`, `PlanPredictsImport`, `ScopeIsLastSave`, `ResolvedHaveTurnovers`, `OrdersOnTheirSheets`, `SkippedIsListed`, `ResolvedWereServed`, `QueueHoldsOrphans` |

Type correctness is proved of every component; it is also checked in the main run of
`Lifecycle` and `Operations`.

**Bounds.** *TurnoverService*: `LastDay` 1 with `SlaThreshold` 1 gives BREACH on day 1 of a
day-0 move-out, WARNING on day 0, OK before a move-out: every branch of the sync. The code's
threshold is 14; the proofs hold for any. `EventBound` 2 lets a breach be resolved and opened
again; two turnovers of one unit are a turnover and its successor or its rival. *Connection*:
`MaxDepth` 2 is the deepest nesting in the code. *ImportRun*: `MaxBatches` 7 never binds where
liveness is checked (at most 6 imports start before all three files are in); in `ImportRace`
it is 3 and the system then stops. `OldTurnovers` starts each unit in every state earlier
imports leave. *Lifecycle*: the days and dates fall on both sides of every threshold (2, 3, 7,
10, 14, 24, 48), reached with different distances from two move-outs, two ready dates and a
move-in or one of 1900; the two tasks are an inspection and a blocking task with a due date; all seven
weekdays of the reference are tried in the property itself. *Board*: the day before a notice
runs out, that day, and one past the ten days of the automatic transition
(`AutoTransitionMaxDV`); `LastGen` 2 turnovers per unit, that is one and its successor;
`AtOnce` 2 of the three actors, each able to go wrong for the other, and 3 in `Nightly`.
Rows of different units share nothing but the report and an exception that ends a stage,
which `Fail` covers. `Patched` are a status the report may agree with and one it contradicts.
*Frontend*: `Slots` 2 and `MaxEdits` 2 are the smallest with an overlap and a reordering.
*Registry*: the files have a building in two phases, a line twice, a missing phase and a
prefixed code; `LastRow` 2, `LastUnit` 1 and `LastSave` 3 bound queued rows, manual units and
saves; `Scenarios` groups the operations that share tables and leaves apart those that do not
(structure; scope; orders; queue; conflicts; arrivals). Of *ReportQueues*, two units and two imports
are what a wrong pairing or a second report on one unit needs; the files have skips of both units,
with and without a date, empty and blank cells, lines without unit or date. `LastTurnover` 1: a
turnover may end under a call, and calls that began before then find none; a successor is met in
the theorems only, which hold for any number, as they do for more instants than the two.
Callers, threads and connections are symmetric where a
configuration says so; no liveness property is checked under symmetry.

`OrdersOnTheirSheets` is evaluated in the scenario with orders only, on units of each manager and of
neither report, assignees of each and none, and every status that has a table and one that has
not; in the other scenarios nothing of it changes, and the proof holds of any orders.

**Deadlock** is checked except in `ImportRun` and `Operations`, where the system stops once every
file is imported or no row, upload, turnover or instant is left.

**Fairness.** *ImportRun*: weak fairness of each importer. A thread that can run its next
statement does so, and the operator uploads a failed report again, as the orchestrator's
comment counts on. *Nightly*: weak fairness of the job (it is scheduled each night and is a
straight-line program), and its failures end some day; a notice a failed run leaves is not lost,
because the snapshot is forgotten only after the turnover is complete. *Frontend*: timers
fire, and a request is handled and answered or fails.

**Mutants.** Each property of a passing run has a mutant of a definition that models code
(`PROJECT.json` "mutants"): an index or CHECK dropped, a stale write, a connection not returned,
a count not reset, a stamp forgotten, an override not stamped, a day too late, a refetch that
joins the one under way, a call that ends at its first orphan, a threshold or a filter of one view changed. TLC finds the property
violated.

## 4. Findings

1. `ImportAtomic`: "batch + rows + turnover updates all commit together, or roll back
   entirely on any failure" (`orchestrator.py:124-125`). `create_turnover` opens a nested
   block, which commits the turnover and leaves the import outside its transaction; its next
   `import_row` does not find the batch and the import fails. A report with N turnovers to
   create takes N + 1 uploads.
2. `TaskCompletes`: "Complete a task → verify: Task status changes"
   (`docs/MANUAL_QA_CHECKLIST.md:258-259`). All pages send COMPLETED
   (`frontend/src/lib/constants.ts:38`, and `canonical_data_model.md:206` has that word), the
   service knows COMPLETE only (`task_service.py:24-36`) and answers 400.

### What else the models show

Seen in traces or in the exceptions the properties had to make; none has a run of its own.

*Connections.* A connection that is lost inside a `transaction()` block never comes back
(`connection.py:116-121`): the rollback raises, then `conn.autocommit = True` in the `finally` does, and
`putconn` is not reached, so the pool is one smaller for good; a restart of the database in the middle of
ten blocks empties it. The thread keeps the closed connection as its `txn_conn`, and each of its
statements raises, until its next block. That is the exception `ConnectionsAccounted` makes.

*Turnovers and imports.* An update that passed its check changes a turnover that was closed
meanwhile (`turnover_service.py:170`, against
`tests/services/test_turnover_service.py:228`); two uploads of one file at once both complete
(`import_service.py:45`, against `MIGRATION_HARDENING_PLAN.md:37`); a report that names an unknown
unit never gets in, because the turnover is inserted on a connection that does not see the unit
(`turnover_service.py:74`, against `DMRB_IMPORT_PIPELINE_SPEC.md:114-115`). An Available Units
import that must create a turnover fails once after committing it.

*Board.* A turnover that `ensure` makes is turned back to "on notice" by the next load and
settles with the one after (hence `quiet = 2`). A load or import that read before an
operator's PATCH or a transition writes over it. PATCH never sets
`status_manual_override_at`, so a status set by an operator is no override
(`MIGRATION_HARDENING_PLAN.md:42` says overrides beat imports). Ending a turnover that was made
from an on-notice row is undone by the next load. The job's `continue`
(`lifecycle_automation_service.py:168-169`) leaves stale snapshots that later create a turnover
with the old date. When it does serve a unit, it deletes the unit's snapshot whatever that is
by then (`unit_on_notice_snapshot_repository.py:50-59`): a newer one that an import has committed since
the job read goes with it, which is why `NoticeKept` promises the date only when nobody else was at
work. One unit that raises ends the reconcile stage for the rest.
`available_units_on_notice_calculation_service` has no caller although its docstring names two.

*Life cycle.* A move-in before 1990 is absent to `nvm_state` (`turnover_lifecycle.py:203-205`) and makes
the unit OCCUPIED to `lifecycle_phase`, so that one board row may say Vacant and Move-In; `ViewsAgree`
exempts it. Two edges of `transition_turnover_phase` write columns that cannot produce the
phase, so it raises with the row changed: back to VACANT_NOT_READY before the move-out, and
ON_NOTICE when the available date has come (the two disjuncts of `TransitionSettles`). Only tests
call it. A cleared status on the move-in day defeats rule 1 of `_evaluation_gate`
(`board_service.py:145-148`).

*Reports.* "SLA Breach (Turn Overdue Over 10 Days)" (`export_excel.py:997`) lists calendar day 14
and later, the reference business day 10. `_qc_status` waits for COMPLETED
(`export_service.py:105`). Gated units export 0 %, so Clean Turn never lists one. The reference's
weekly summary uses bucket names that its own Aging never produces; its spread of MR dates can
land on another task's day.

*Structure.* Unit Master and manual creation upper-case a code where imports normalise it, so
"Unit 1" and "1" may become two units; a Unit Master row without a phase makes a unit whose
turnovers cannot be created and whose conflicts are never listed. Scope saves are DELETE and
INSERTs that commit one by one: overlapping saves mix, a repeated phase id leaves half a scope,
a reader in between sees none. After a failure between create and resolve, the row stays and
its retry always fails.

*Work orders.* "WEST = Mabi phases 3/4/4c only" (`active_sr_report.py:3-4`) is not what all sections
do: eleven of WEST's have no phase filter (344-347, 364-407, 438-451, 498-511; the comments over most of them say it is
meant), so Mabi's report lists unassigned orders, and orders of her people, of
Robert's phases. `KeptToPhases` says what they leave. EAST's By tech does filter: an order
of one of Robert's technicians in a phase of Mabi's is on no sheet of people. In the validator's
workbook an assigned order that is neither in progress nor on hold is on nobody's sheet (`OnOneDesk`).
Orders of phase 4S are Mabi's there and in neither report.

*Queues.* `get_override_conflicts` joins rows with log entries on property and time only
(`import_repository.py:286`), and all an import writes has one time: two skipped units give four
pairs, where the docstring (262-264) says the entries are each row's, and a decision on one may be
written to the other's turnover. That is why `SkippedIsListed` says "is on the list" and not "is
the list". The import logs a skipped status as the text "import_skipped_due_to_manual_override"
(`available_units_service.py:321`), and accepting it ("apply report value",
`override_conflict_service.py:82`) writes that text into `availability_status`, also of a turnover
that has closed (100). `write_import_row` drops the reason of an OK row (`imports/common.py:83`), so
fields skipped while others were applied are never listed, which `import_repository.py:258-260`
promises. An empty status cell is NaN to pandas and "nan" to `str()` (`available_units_service.py:55`,
287), so it counts as present, against the comment at 273. Pending move-ins are served newest first
and each overwrites the date, so the oldest report has the last word. An invalid row without a unit,
or of a unit without an open turnover, cannot be corrected and stays.

*Pages.* One 400 ms debounce serves four fields of the Detail page (`TurnoverDetailPage.tsx:224-229`,
`hooks.ts:18-25`): a second field edited within it drops the first, which the page goes on showing;
leaving the page drops both. `EditKept` and `EditArrives` except these and a save that fails. The date
and assignee inputs are uncontrolled (322, 331, 340, 458): of two saves of one field that are handled in
the other order the server keeps the first, and the input shows the last until the page is left
(the exception `raced` of `PageFollows`). A refused grid edit stays on the screen. Saving the Schedule sends the fields of a stale row and drops what is typed
meanwhile.

## 5. Proofs

All constants are arbitrary under the named assumptions: `ConstantsOK` (units and turnovers
exist, operations are among the known ones, bounds are naturals), `ConnectionConstants`,
`DatesOK` (days are those Python's `date` can hold, `LastDay` = 3652059; a date is a day or
missing; statuses are known), `TasksOK` (from `db/schema.sql`: a turnover has finitely
many tasks, one of a type, with the five statuses, each scheduled on a day or not at all), `TaskConstants`
(there is a last day, and a task), `ImportConstants` (files are sequences of rows), `BoardConstants`
(report rows have the columns of a report), `RegistryConstants` (files are sequences of lines,
reports finite sets of rows, scopes sequences of phases), `OperationsConstants` (a unit is on one line
of a file, and a move-in without a unit has no date), `FrontendConstants` (edits start from
statuses of tasks). Those aside no set is assumed finite: units, callers, importers, connections,
days and requests may be any number. One theorem, marked below, speaks of behaviours in which
imports do not overlap, because with two at once the property is false.

The inductive invariants were checked by TLC before they were proved, on the instances of the runs
or a little smaller (`Board`'s on up to 3.4 million states;
`ImportRun`'s on 157 thousand with two importers, and 23 thousand with one; `Registry`'s
on 342 thousand; `ReportQueues`' in its two scenarios).

| Theorem | States | Argument |
|---|---|---|
| `TurnoverServiceProofs!TypeCorrect` | `TypeOK` | inductive as it stands |
| `OneOpen` | `OneOpenTurnover` | `TableInv`: it, and that no row is installed without notified or ended both ways (`RowsConsistent`). Only `CreateCommit` and `Write` touch the table, and the constraint they passed is what the invariant needs of the new row |
| `Implements` | `LedgerSpec` | an insert maps to `Open`, a write that ends a row to `End`, all else to a stutter. `RowsConsistent` and `OneOpenTurnover` are needed: without the first a close of a canceled row would reach a stage the ledger has not |
| `RiskAgrees` | `RiskTablesAgree` | `SyncInv`: what a call that runs alone has done so far (`ProgressInv`) at each step of the branch of its level (`BranchInv`), that two calls are never both alone on a turnover (`CallInv`), and the property (`Agree`), which is not inductive: it speaks only of calls that have returned |
| `EndedLeft` | `EndedIsLeft` | a call past the check of `update_turnover` touches the rows of its own turnover only and stays on it till it returns (`PassedStep`); a call before the check can pass it only on an open turnover (`LeftStep`) |
| `ConnectionTypes` | `TypeOK` of Connection | inductive |
| `Accounted`, `PoolIsClean` | `ConnectionsAccounted`, `IdleIsClean` | `PoolInv`: their conjunction is inductive. A block ends in one of two ways (`EndEffect`): its connection is `Returned`, or it is `Leaked`, and then closed, which nothing undoes |
| `FlatBlocks` | `FlatAllOrNothing` | `FlatInv`: a block that has opened no other runs on its own connection, and what is pending there is exactly what it wrote, if it is not aborted |
| `LifecycleProofs!TypeCorrect` | `TypeOK` of Lifecycle | inductive; the columns a transition writes are typed edge by edge (`AppliedTypes`) |
| `Settles` | `TransitionSettles` | `SettleInv`: the property speaks of a call about to read again, `Validated` of one about to write: as long as nobody disturbs it, its edge is allowed from the row's phase on the call's own day. `AppliedSettles` shows for each of the six target phases that what is written has that phase, by the order in which `lifecycle_phase` asks (`OpenPhase`) |
| `TaskServiceProofs!TypeCorrect` | `TypeOK` of TaskService | `Typed`: the fields of a call are known, of their types, and a stamp among them is never None (`FieldsOK`); `Merge` says what an update of the row with them gives |
| `CompletionsStamped` | `CompletedIsStamped` | `StampInv`: the property, and that a write under way that completes a task carries each stamp its row lacks at that moment (`WritesStamps`) -- it was computed from an older row, but no write clears a stamp (`StampsStay`) |
| `CompletionsStay`, `ReadinessStays` | `CompletedOnce`, `ReadyStays` | `AloneInv`: while nobody comes between, the stamps a call carries are for a task that is not COMPLETE and its status is one the row may still move to; COMPLETE and SKIPPED have no way out |
| `OperationsProofs!Placed` | `UnitsArePlaced` | `PlaceInv`: what each transaction has inserted fits what is committed together with itself (`Sound`), and the import's caches hold nothing that is not there; what is sound stays so when others commit (`StillSound`) and can be committed itself (`CommitFits`) |
| `ScopeSaved` | `ScopeIsLastSave` | `ScopeInv`: of a save that nobody overlaps, the scope's phases are those of the list that it has inserted so far (`AloneSaves`) |
| `Resolved` | `ResolvedHaveTurnovers` | `QueueInv`: rows are numbered without gap or repetition (`Numbered`), also across a report's that are to follow, so the number the desk remembers is the row whose turnover it has made |
| `PlanKept` | `PlanPredictsImport` | `ImportInv`: line by line, what the import has made is what the plan has of the lines so far (`MadeBefore`), and its cache is the database with that; a unit found on the way was in the database, for codes are distinct (`MadeUnits`) |
| `RegistryTypes` (a lemma) | `TypeOK` of Registry | `KeyInv`: no two of the units that are in the database or being inserted have one code, so a commit keeps codes distinct; `DateInv`: every date in the queue, the reports and the turnovers is a day of a report |
| `OrdersSorted` | `OrdersOnTheirSheets` | holds of any set of orders: the sections of a phase's sheet are apart (`AtMostOne`, `JoinedApart`, `PhasesApart`), an unassigned order is in one (`OnceUnassigned`), and what a sheet lists is within what each of its sections leaves (`ListedWithin`, `WestWithin`, `EastWithin`, `PhasesKept`) |
| `ImportRunProofs!ImportTypes` | `TypeOK` of ImportRun | `Structure`: each cell of the database, committed or pending, has a value of its own kind (`DbFits`), and the step of an import says how many blocks its thread is in (`Shape`). Each action is shown once (`...Step`) and cited by all that follows |
| `RowsMatch` | `RowsMatchBatch` | `Own`: a batch is one import's alone, is written on that import's outermost connection only, and nothing of it is committed before the end, nested commits included; `Progress`: what is pending there is the batch and the rows of the lines so far. An import makes seven kinds of moves (`Moves`), and the proof goes by these |
| `UsesConnections` | `CP!Spec`: ImportRun implements Connection | step by step: each action is one of Connection's or leaves its variables alone (`StepIsConnections`) |
| `SerialCancelsRightly` | `CanceledAfterTwoAbsences`, *of behaviours in which imports do not overlap* (`Serial`: at most one thread is in an import; there may be any number of threads) | `RowsGood`: the count of a row is that of the completed reports that missed it, pending rows counting their own batch too; `TalliesInv`: an update decided and not yet made still fits the row it was computed from. That the others rest (`OthersRest`) is what makes the row read the row written |
| `FrontendProofs!FrontendTypes` | `TypeOK` of Frontend | `TypeInv`: also what is in a request, by the page that sent it (what the API takes is what `FieldsSent` can make) |
| `PageShowsServer` | `PageFollows` | `FollowInv`: when no mutation is under way, a fetch has yet to read, or has read what the server has, or none is under way and the cache has it; a success drops the fetch that may have read before it. `InputInv`: an input that has not raced is `Right`: the timer, the server or a PATCH has its value, and no PATCH still to be handled has another (`HandleKeepsRight`, `TypeDateKeepsRight`) |
| `EditsKept` | `EditKept`: the safety half of `EditArrives` | inductive as it stands, with `TypeInv`: a PATCH takes a free slot (`MutateCarries`), an answer leaves the fields of the PATCH and the other slots alone (`AnswerLeaves`), and what puts a date out of the timer takes it from those the property speaks of (`KeptIs`) |
| `BoardProofs!BoardTypes` | `TypeOK` of Board | `TypeInv`: also the locals of each actor at each step (`LocalsOK`). One lemma per action (`...Is`) says what it does to the tables and to its actor; the rest cites these |
| `BoardHealed`, `BoardFollowsReport`, `BoardSettles` | `LoadHeals`, `LoadFollowsReport`, `LoadsSettle` | `LoadInv`, ten named parts. What a load read still holds while it is alone (`ReadInv`, `FieldsInv`); each stage has done its part and the later ones do not undo it (`EnsureInv`, `MoveInv`, `FollowInv`: `MovedOnFollows`, `BackfilledFollows`); between loads that makes the board true (`HealInv`); the next load finds little to do (`QuietInv`) and the one after nothing (`SettledInv`), for the report applied twice is the report applied once (`ReportTwice`). Whatever others do ends the quiet (`ElsewhereKeeps`) |
| `OverridesStick` | `OverrideSticks` | `ImportInv`: what an import that is alone has decided fits the turnovers it will write; with `LoadInv` no writer that is alone writes a status over an override |
| `NoticesKept` | `NoticeKept`: the safety half of `NoticeServed` | `ServeInv`: what the job knows of the notice it is at, statement by statement, up to the turnover it has made and completed; `Lasts`, of every step: no turnover is taken back or loses its available date, so that is still true after whatever the others do. `AloneInv`: while nobody else is at work the notice is the one it read and the turnover has its date (`Undisturbed`) |
| `LifecycleProofs!TimeHidesNothing` | `BreachesOnlyRise` | item by item (`DayPassesItem`): a gate once open stays open while only days pass (`GateOpens`), each agreement compares a day with a fixed date (`Reds`), each addend of the score rises with the day (`ScoreRises`) |
| `JudgesAgree` | `RiskAndAlertsMatchBoard` | one lemma per judge: `AlertsSpeak`, `RadarSees`, `BreachDay`, `DangerIsRed`, `OnlyOptional`, over the same account of an item (`Evaluated`, `Gated`, `Reds`) |
| `ViewsCount` | `ViewsAgree` | `Categories` says what each list of the sidebar holds; counts are then equal because the sets are (`CountsAre`, `BreachesAre`) |
| `DownloadsAgree` | `ReportsAgree` | `RowsAre`: what the board has of an item and what its export row has; then sheet by sheet (`Sheets`, `Weekly`, `AllBars`) |
| `PortKept` | `PortFollowsReference` | business days are counted by weekday: a weekend is two days, so of any six days four are working days (`Weeks`, `BusinessDaysAre`), which places each threshold in business days between two in calendar days; each task the reference gives a day moves the cursor past it (`NextDay`, `PlaceKeeps`, `DaysApart`). `ItemIs`, `RefIs` and `ColumnIs` say what either side has of an item, task by task, and then each sheet is compared with its table (`SameLists`, `FlowThere`, `StalledThere`, `SameAging`, `SameFills`) |
| `Composed` | a behaviour of Operations is one of Registry and one of ReportQueues | a step of one leaves the other's variables alone, so each lemma on a part becomes a theorem of the whole |
| `OperationsTypes` | `OperationsTypeOK` | `RegistryTypes`, and of the queues `TypeInv` in `QueuesInv`. Two facts hold of every step and carry the rest: no step drops a turnover, opens it again or takes a date from it (`TurnsKept`), and none changes a row but to resolve it (`RowsKept`) |
| `SkipsStayListed` | `SkippedIsListed` | `SkipInv`: each row skipped whole has an entry of its own instant and turnover; entries are never dropped (`StepSkips`) |
| `RowsLeaveServed` | `ResolvedWereServed` | `QueuesInv`: the property, and of each call under way that the turnover it has written has the date (`DeskServed`, `ClerkServed`), which `TurnsKept` keeps whatever ends meanwhile |
| `OnlyOrphansStay` | `QueueHoldsOrphans` | `OrphanInv`: while nobody else writes, a pending row outside the clerk's list has no open turnover; a match opens none (`MatchOpens`) |

Only model-checked: liveness (`EventuallyImported`, `NoticeServed`, `EditArrives`), which is out of the
prover's reach; of the last two the safety half is proved, that what is to arrive is never dropped
on the way (`NoticesKept`, `EditsKept`). Every other property of a passing run is a theorem for all values of the
constants; one of them, `CanceledAfterTwoAbsences`, of behaviours in which imports
do not overlap, because with two at once it is false (`move_outs_service.py:246`). The violated properties are TLC counterexamples.

Proving corrected five statements, each true on the run's instance only. `RiskAndAlertsMatchBoard` said
that a READY unit has no days left; that was true of the run's tasks, which all block, and is false with an optional task, whose
estimate `days_to_be_ready` counts. `DatesOK` had no last day; the port's "no date" is a number
that must lie beyond all of them. A misindented alternative in `SkippedRows` read as a conjunct and
left the list of conflicts empty; the lemma that a skipped row is on it could not be proved.
`PortFollowsReference` said that what is stalled here is stalled in the reference, which is false after
an inspection and a paint that were done without blocking anything (the reference then waits for
a later task's day), and that what flows here flows there, which is false where a required task of a type
that the reference has no column for is under way.

## 6. Not modelled, and the plan

Left out for good: parsers and file validation, layout and wording of exports, the AI agent
and the archived user interface (pure functions, external services, presentation); audit rows
(but for the skip entries) and notes (appended, never read back by the logic); the write guard, which without a Streamlit
session always lets writes through; migrations, which run before everything else.

Could follow: the upload handler's 60 s timeout and its look-up of the batch
(`api/routers/imports.py:50`); templates in
`TaskService`; the remaining pages of the frontend; waits between two importers that each hold
two connections. Theorems worth having next: that an Available Units import keeps
what a board load has healed, but for the units it moves; `Registry`'s structure as a refinement
of one table of placed units; that a decision on a conflict touches no third turnover.
