------------------------------ MODULE ImportRun ------------------------------
(***************************************************************************)
(* services/imports/orchestrator.py and move_outs_service.py: the import   *)
(* of Move Outs reports, by threads that may run at once (an upload runs   *)
(* in an executor thread and the event loop takes the next one), over the  *)
(* connections of Connection.                                              *)
(*                                                                         *)
(* A file is the sequence of its parsed rows and stands for its checksum.  *)
(* A unit's cell holds its latest turnover.  Abstracted: audit rows, tasks *)
(* and risk tables written with a turnover (TurnoverService has them), and *)
(* move_out_date, which follows the scheduled date.                        *)
(***************************************************************************)
EXTENDS Naturals, Sequences, FiniteSets, TurnoverDomain

CONSTANTS
  Threads, Conns, NoConn,
  Units,
  NewUnits,     \* units that need not be in the database yet
  NoPhase,      \* units whose code names no phase: no turnover can be created
  Files,        \* the reports that get uploaded
  LastDate,     \* bound: scheduled dates are 1..LastDate, 0 is none
  MaxBatches,   \* bound: imports started
  MayFail       \* do statements raise for reasons of their own?

Batches == 1..MaxBatches
Dates == 0..LastDate
FileRows == [unit : Units, date : Dates]

ASSUME ImportConstants ==
  /\ NoConn \notin Conns
  /\ NewUnits \subseteq Units /\ NoPhase \subseteq Units
  /\ Files \subseteq Seq(FileRows)
  /\ LastDate \in Nat /\ MaxBatches \in Nat
  /\ MayFail \in BOOLEAN

-----------------------------------------------------------------------------
(***************************************************************************)
(* The database: units, the latest turnover of each, batches, import rows. *)
(***************************************************************************)
UnitCell(u) == <<"unit", u>>
TurnoverCell(u) == <<"turnover", u>>
BatchCell(b) == <<"batch", b>>
RowsCell(b) == <<"rows", b>>

Cells == {UnitCell(u) : u \in Units} \cup {TurnoverCell(u) : u \in Units}
           \cup {BatchCell(b) : b \in Batches} \cup {RowsCell(b) : b \in Batches}

\* gen tells a unit's turnovers apart; absences is history: the imports that
\* have counted it missing since it was last seen.
TurnoverRows == [status : {"none", "open", "canceled"}, gen : 0..MaxBatches, sched : Dates,
                 override : BOOLEAN, missing : 0..CancelAfter, absences : SUBSET (0..MaxBatches)]

NoTurnover == [status |-> "none", gen |-> 0, sched |-> 0, override |-> FALSE,
               missing |-> 0, absences |-> {}]

NoBatch == [status |-> "none", file |-> <<>>]

Values == BOOLEAN \cup TurnoverRows \cup (SUBSET Nat)
            \cup [status : {"none", "PROCESSING", "COMPLETED"}, file : Files \cup {<<>>}]

\* What earlier imports have left of a unit: nothing, the unit, or an open
\* turnover, which Move Outs reports know or not, have missed once or not, and
\* whose date an operator has set or not.
OldTurnovers ==
  {t \in TurnoverRows :
     /\ t.status \in {"none", "open"} /\ t.gen = 0
     /\ t.missing < CancelAfter /\ t.absences = IF t.missing = 1 THEN {0} ELSE {}
     /\ t.sched = 0 => t.missing = 0 /\ ~t.override
     /\ t.status = "none" => t = NoTurnover}

Database(exists, turnover) ==
  [k \in Cells |->
     CASE k[1] = "unit"     -> exists[k[2]]
       [] k[1] = "turnover" -> turnover[k[2]]
       [] k[1] = "batch"    -> NoBatch
       [] k[1] = "rows"     -> {}]

Databases ==
  {Database(exists, turnover) :
     exists \in [Units -> BOOLEAN], turnover \in [Units -> OldTurnovers]}

VARIABLES
  idle, autocommit, aborted, pending, txnConn, blocks, committed, wrote, flat,
  started,   \* batch ids handed out so far
  run        \* the locals of each thread's import

dbVars == <<idle, autocommit, aborted, pending, txnConn, blocks, committed, wrote, flat>>
vars == <<dbVars, started, run>>

\* Here no connection is lost; Connection and ConnectionProofs lose them.
Links == [c \in Conns |-> "up"]

DB == INSTANCE Connection WITH Initial <- Databases, MaxDepth <- 2, link <- Links

Sees(t, cell) == DB!View(t)[cell]

\* One statement writing one cell.
Put(t, cell, value) == DB!Execute(t, [k \in {cell} |-> value])

-----------------------------------------------------------------------------
(***************************************************************************)
(* The locals: the file and the row reached, the batch, the turnover the   *)
(* row's unit was found to have, the update under way, the updates post-   *)
(* processing has yet to make, the units seen, the row's outcome.          *)
(***************************************************************************)
NoEdit == [unit |-> "none", gen |-> 0, op |-> "none", value |-> 0]

Idle == [step |-> "idle", file |-> <<>>, batch |-> 0, i |-> 0, found |-> NoTurnover,
         edit |-> NoEdit, todo |-> {}, seen |-> {}, outcome |-> "none"]

Set(t, locals) == run' = [run EXCEPT ![t] = locals]
Goto(t, step) == Set(t, [run[t] EXCEPT !.step = step])
AtStep(t, step) == run[t].step = step

\* The row reached, and its unit.
Row(t) == run[t].file[run[t].i]
RowUnit(t) == Row(t).unit

Init ==
  /\ DB!Init
  /\ \A u \in Units :
       ~committed[UnitCell(u)] => u \in NewUnits /\ committed[TurnoverCell(u)] = NoTurnover
  /\ started = 0
  /\ run = [t \in Threads |-> Idle]

\* get_existing_batch: has the file been imported, as far as the view tells?
Imported(view, file) ==
  \E b \in Batches : view[BatchCell(b)] = [status |-> "COMPLETED", file |-> file]

-----------------------------------------------------------------------------
(***************************************************************************)
(* import_report_file.                                                     *)
(***************************************************************************)

\* Duplicate detection, before the transaction.  A duplicate is a no-op.
Detect(t) ==
  /\ AtStep(t, "idle")
  /\ started < MaxBatches
  /\ \E file \in Files :
       /\ ~Imported(committed, file)
       /\ Set(t, [Idle EXCEPT !.step = "enter", !.file = file])
  /\ UNCHANGED <<dbVars, started>>

\* with transaction(): an exhausted pool raises.
Enter(t) ==
  /\ AtStep(t, "enter")
  /\ IF idle = {}
       THEN Set(t, Idle) /\ UNCHANGED dbVars
       ELSE DB!Begin(t) /\ Goto(t, "batch")
  /\ UNCHANGED started

\* start_batch, which checks for a duplicate once more, and mark_processing.
StartBatch(t) ==
  /\ AtStep(t, "batch")
  /\ IF Imported(DB!View(t), run[t].file) \/ started = MaxBatches
       THEN Goto(t, "leave_failed") /\ UNCHANGED <<dbVars, started>>
       ELSE /\ started' = started + 1
            /\ Put(t, BatchCell(started'), [status |-> "PROCESSING", file |-> run[t].file])
            /\ Set(t, [run[t] EXCEPT !.step = "row", !.batch = started', !.i = 1])

\* A mutant: the batch is left PROCESSING.
CompleteBatchNot(t) ==
  /\ AtStep(t, "complete")
  /\ Goto(t, "leave")
  /\ UNCHANGED <<dbVars, started>>

\* complete_batch.
CompleteBatch(t) ==
  /\ AtStep(t, "complete")
  /\ Put(t, BatchCell(run[t].batch), [status |-> "COMPLETED", file |-> run[t].file])
  /\ Goto(t, "leave")
  /\ UNCHANGED started

\* The end of the with block.
Leave(t) ==
  /\ AtStep(t, "leave")
  /\ DB!Commit(t)
  /\ Set(t, Idle)
  /\ UNCHANGED started

\* A mutant: a failed import commits what it has written.
LeaveFailedCommitting(t) ==
  /\ AtStep(t, "leave_failed")
  /\ DB!Commit(t)
  /\ Set(t, Idle)
  /\ UNCHANGED started

\* Its end by an exception, which import_report_file turns into a result.
LeaveFailed(t) ==
  /\ AtStep(t, "leave_failed")
  /\ DB!Rollback(t)
  /\ Set(t, Idle)
  /\ UNCHANGED started

-----------------------------------------------------------------------------
(***************************************************************************)
(* move_outs_service.apply, row by row.                                    *)
(***************************************************************************)

\* write_import_row, whose row must find its batch.
WriteRow(t, locals) ==
  IF Sees(t, BatchCell(run[t].batch)).status # "none"
    THEN /\ Put(t, RowsCell(run[t].batch), Sees(t, RowsCell(run[t].batch)) \cup {run[t].i})
         /\ Set(t, [locals EXCEPT !.step = "row", !.i = @ + 1,
                                  !.found = NoTurnover, !.outcome = "none"])
    ELSE DB!Raise(t) /\ Goto(t, "leave_failed")

\* A row without a date is INVALID.
InvalidRow(t) ==
  /\ AtStep(t, "row")
  /\ run[t].i <= Len(run[t].file)
  /\ Row(t).date = 0
  /\ WriteRow(t, run[t])
  /\ UNCHANGED started

\* resolve_or_create_unit.
ResolveUnit(t) ==
  /\ AtStep(t, "row")
  /\ run[t].i <= Len(run[t].file)
  /\ Row(t).date # 0
  /\ IF Sees(t, UnitCell(RowUnit(t)))
       THEN UNCHANGED dbVars
       ELSE Put(t, UnitCell(RowUnit(t)), TRUE)
  /\ Goto(t, "lookup")
  /\ UNCHANGED started

\* get_open_by_unit.
Lookup(t) ==
  /\ AtStep(t, "lookup")
  /\ LET turnover == Sees(t, TurnoverCell(RowUnit(t)))
     IN  Set(t, [run[t] EXCEPT !.step = IF turnover.status = "open" THEN "update" ELSE "create",
                               !.found = turnover])
  /\ UNCHANGED <<dbVars, started>>

\* _handle_create_turnover up to create_turnover's transaction: a check that
\* fails raises TurnoverError, which makes the row a CONFLICT.
Create(t) ==
  /\ AtStep(t, "create")
  /\ \/ /\ RowUnit(t) \in NoPhase \/ Sees(t, TurnoverCell(RowUnit(t))).status = "open"
        /\ Set(t, [run[t] EXCEPT !.step = "outcome", !.outcome = "CONFLICT"])
        /\ UNCHANGED dbVars
     \/ /\ RowUnit(t) \notin NoPhase /\ Sees(t, TurnoverCell(RowUnit(t))).status # "open"
        /\ IF idle = {}
             THEN Goto(t, "leave_failed") /\ UNCHANGED dbVars
             ELSE DB!Begin(t) /\ Goto(t, "insert")
  /\ UNCHANGED started

\* turnover_repository.insert in it: the foreign key and the one-open index decide.
Insert(t) ==
  LET u == RowUnit(t)
      last == Sees(t, TurnoverCell(u))
  IN  /\ AtStep(t, "insert")
      /\ IF Sees(t, UnitCell(u)) /\ last.status # "open"
           THEN /\ Put(t, TurnoverCell(u),
                       [NoTurnover EXCEPT !.status = "open", !.gen = run[t].batch,
                                          !.sched = Row(t).date])
                /\ Goto(t, "created")
           ELSE /\ TurnoverCell(u) \notin DB!Locked(t)
                /\ DB!Raise(t)
                /\ Goto(t, "create_failed")
      /\ UNCHANGED started

\* The end of create_turnover's block.
CommitCreate(t) ==
  /\ AtStep(t, "created")
  /\ DB!Commit(t)
  /\ Set(t, [run[t] EXCEPT !.step = "outcome", !.outcome = "OK"])
  /\ UNCHANGED started

\* Its end by an exception: TurnoverError (no active templates) is a CONFLICT,
\* and what the database raised ends the import.
CreateFailed(t) ==
  /\ AtStep(t, "create_failed")
  /\ DB!Rollback(t)
  /\ IF run[t].outcome = "CONFLICT" THEN Goto(t, "outcome") ELSE Goto(t, "leave_failed")
  /\ UNCHANGED started

\* create_turnover finds no active templates for the unit's phase.
NoTemplates(t) ==
  /\ MayFail
  /\ AtStep(t, "created")
  /\ Set(t, [run[t] EXCEPT !.step = "create_failed", !.outcome = "CONFLICT"])
  /\ UNCHANGED <<dbVars, started>>

\* _handle_update_turnover, with the row Lookup found: should_apply_import_value,
\* then an update if there is something to update.
Update(t) ==
  LET found == run[t].found
      date == Row(t).date
      applies == ShouldApplyImportValue(found.sched, found.override, date)
  IN  /\ AtStep(t, "update")
      /\ IF applies /\ (found.sched # date \/ found.override)
           THEN Set(t, [run[t] EXCEPT !.step = "check", !.outcome = "OK",
                          !.edit = [unit |-> RowUnit(t), gen |-> found.gen,
                                    op |-> "schedule", value |-> date]])
           ELSE Set(t, [run[t] EXCEPT !.step = "outcome",
                          !.outcome = IF applies THEN "OK" ELSE "SKIPPED_OVERRIDE"])
      /\ UNCHANGED <<dbVars, started>>

\* The row's outcome, and what it says of the unit.
Outcome(t) ==
  /\ AtStep(t, "outcome")
  /\ WriteRow(t, [run[t] EXCEPT !.seen =
                    IF run[t].outcome = "CONFLICT" THEN @ ELSE @ \cup {RowUnit(t)}])
  /\ UNCHANGED started

-----------------------------------------------------------------------------
(***************************************************************************)
(* update_turnover and cancel_turnover.                                    *)
(***************************************************************************)

\* The check that the turnover is open.
CheckOpen(t) ==
  LET now == Sees(t, TurnoverCell(run[t].edit.unit))
  IN  /\ AtStep(t, "check")
      /\ Goto(t, IF now.status = "open" /\ now.gen = run[t].edit.gen
                   THEN "write" ELSE "leave_failed")
      /\ UNCHANGED <<dbVars, started>>

\* A mutant: a unit seen again keeps its count.
EditedNoReset(row, edit, b) ==
  CASE edit.op = "schedule" -> [row EXCEPT !.sched = edit.value, !.override = FALSE]
    [] edit.op = "seen"     -> [row EXCEPT !.absences = {}]
    [] edit.op = "missing"  -> [row EXCEPT !.missing = edit.value, !.absences = @ \cup {b}]
    [] edit.op = "cancel"   -> [row EXCEPT !.status = "canceled", !.absences = @ \cup {b}]

\* What each update makes of the row.
Edited(row, edit, b) ==
  CASE edit.op = "schedule" -> [row EXCEPT !.sched = edit.value, !.override = FALSE]
    [] edit.op = "seen"     -> [row EXCEPT !.missing = 0, !.absences = {}]
    [] edit.op = "missing"  -> [row EXCEPT !.missing = edit.value, !.absences = @ \cup {b}]
    [] edit.op = "cancel"   -> [row EXCEPT !.status = "canceled", !.absences = @ \cup {b}]

\* The UPDATE, by turnover id.
Write(t) ==
  LET edit == run[t].edit
      cell == TurnoverCell(edit.unit)
      now == Sees(t, cell)
  IN  /\ AtStep(t, "write")
      /\ IF now.gen = edit.gen
           THEN Put(t, cell, Edited(now, edit, run[t].batch))
           ELSE UNCHANGED dbVars
      /\ Set(t, [run[t] EXCEPT !.step = IF edit.op = "schedule" THEN "outcome" ELSE "tally",
                               !.edit = NoEdit])
      /\ UNCHANGED started

-----------------------------------------------------------------------------
(***************************************************************************)
(* _post_process_missing_moveouts.                                         *)
(***************************************************************************)

\* The update one open turnover calls for: a unit seen has its count reset, one
\* absent has it raised, or is canceled when it would reach the threshold.
Tallies(u, turnover, seen) ==
  LET missing == turnover.missing + 1
      edit(op, value) == {[unit |-> u, gen |-> turnover.gen, op |-> op, value |-> value]}
  IN  IF turnover.status # "open" THEN {}
      ELSE IF u \in seen THEN (IF turnover.missing # 0 THEN edit("seen", 0) ELSE {})
      ELSE IF turnover.sched = 0 THEN {}
      ELSE IF ShouldCancelTurnover(missing) THEN edit("cancel", 0)
      ELSE edit("missing", missing)

\* get_open_by_property, after the last row.
FindMissing(t) ==
  /\ AtStep(t, "row")
  /\ run[t].i > Len(run[t].file)
  /\ Set(t, [run[t] EXCEPT !.step = "tally",
               !.todo = UNION {Tallies(u, Sees(t, TurnoverCell(u)), run[t].seen) : u \in Units}])
  /\ UNCHANGED <<dbVars, started>>

\* The loop over them.
Tally(t) ==
  /\ AtStep(t, "tally")
  /\ IF run[t].todo = {}
       THEN Goto(t, "complete")
       ELSE \E edit \in run[t].todo :
              Set(t, [run[t] EXCEPT !.step = "check", !.edit = edit, !.todo = @ \ {edit}])
  /\ UNCHANGED <<dbVars, started>>

-----------------------------------------------------------------------------
\* A statement raises for a reason of its own: a lost connection, a deadlock.
Fail(t) ==
  /\ MayFail
  /\ run[t].step \notin {"idle", "enter", "leave_failed", "create_failed"}
  /\ DB!Raise(t)
  /\ Set(t, [run[t] EXCEPT !.outcome = "none",
               !.step = IF Len(blocks[t]) = 2 THEN "create_failed" ELSE "leave_failed"])
  /\ UNCHANGED started

Import(t) ==
  \/ Enter(t) \/ StartBatch(t)
  \/ InvalidRow(t) \/ ResolveUnit(t) \/ Lookup(t) \/ Create(t) \/ Insert(t)
  \/ CommitCreate(t) \/ CreateFailed(t) \/ NoTemplates(t)
  \/ Update(t) \/ CheckOpen(t) \/ Write(t) \/ Outcome(t)
  \/ FindMissing(t) \/ Tally(t)
  \/ CompleteBatch(t) \/ Leave(t) \/ LeaveFailed(t)

Next == \E t \in Threads : Detect(t) \/ Import(t) \/ Fail(t)

Spec == Init /\ [][Next]_vars

\* The operator uploads what has not been imported, and an import runs on.
Fairness == \A t \in Threads : WF_vars(Detect(t) \/ Import(t))

FairSpec == Spec /\ Fairness

-----------------------------------------------------------------------------
(***************************************************************************)
(* Properties.                                                             *)
(***************************************************************************)

CellOK(k, v) ==
  CASE k[1] = "unit"     -> v \in BOOLEAN
    [] k[1] = "turnover" -> v \in TurnoverRows
    [] k[1] = "batch"    -> v.status \in {"none", "PROCESSING", "COMPLETED"}
    [] k[1] = "rows"     -> \A i \in v : \E file \in Files : i \in 1..Len(file)

TypeOK ==
  /\ \A k \in Cells : CellOK(k, committed[k])
  /\ \A c \in Conns : \A k \in DOMAIN pending[c] : k \in Cells /\ CellOK(k, pending[c][k])
  /\ started \in 0..MaxBatches
  /\ \A t \in Threads :
       /\ run[t].batch \in 0..MaxBatches
       /\ run[t].seen \subseteq Units
       /\ run[t].found \in TurnoverRows

\* A completed import has exactly one import_row per parsed row, and no import
\* that did not complete has any (invariant 3 of common.py), although creating a
\* turnover on the way takes the remaining rows out of the transaction.
RowsMatchBatch ==
  \A b \in Batches :
    LET batch == committed[BatchCell(b)]
    IN  committed[RowsCell(b)] = IF batch.status = "COMPLETED" THEN 1..Len(batch.file) ELSE {}

\* A turnover is auto-canceled only if two imports in a row that missed it have
\* completed since it was last seen (should_cancel_turnover: consecutive imports).
CanceledAfterTwoAbsences ==
  \A u \in Units :
    LET turnover == committed[TurnoverCell(u)]
    IN  turnover.status = "canceled" =>
          /\ Cardinality(turnover.absences) >= CancelAfter
          /\ \A b \in turnover.absences \ {0} : committed[BatchCell(b)].status = "COMPLETED"

\* Batch, rows and turnover updates commit together or not at all: a turnover an
\* import has created is there only if the import has completed.
ImportAtomic ==
  \A u \in Units :
    LET turnover == committed[TurnoverCell(u)]
    IN  turnover.gen # 0 => committed[BatchCell(turnover.gen)].status = "COMPLETED"

\* Uploaded again whenever it fails, a report gets imported in the end.
EventuallyImported == \A file \in Files : <>Imported(committed, file)
=============================================================================
