---------------------------- MODULE ReportQueues ----------------------------
(***************************************************************************)
(* What an import leaves for the manager: its rows, and the queues of      *)
(* override conflicts, invalid data and pending move-ins with the services *)
(* that resolve them (services/report_operations/,                         *)
(* services/import_service.py, db/repository/import_repository.py).        *)
(*                                                                         *)
(* An import is one step: ImportRun and Board take it apart.  All it       *)
(* writes bears the instant its transaction began, as NOW() does.  A file  *)
(* that needs a new turnover makes the import fail and leaves no row       *)
(* (ImportRun), so none does.  The only override live code sets is the     *)
(* one on availability_status, which the nightly transition stamps: the    *)
(* move-out, move-in and ready dates are never held, and of the four       *)
(* fields of _FIELD_MAP only the status is ever in conflict.               *)
(*                                                                         *)
(* The services commit statement by statement.  Their only caller in the   *)
(* repository is the archived Streamlit page, except for the list of       *)
(* override conflicts, which GET .../diagnostics returns.                  *)
(***************************************************************************)
EXTENDS BoardRules, Sequences

CONSTANTS
  Units,          \* units with a phase in scope
  NoUnit,         \* the unit of a line whose Unit cell holds only blanks
  AvailableFiles, \* Available Units files: sequences of [unit, cell, available]
  MoveInFiles,    \* Pending Move Ins files: sequences of [unit, moveIn]
  Patched,        \* the statuses operators set
  Dates,          \* the dates managers supply
  LastBatch,      \* bound: imports
  LastTurnover,   \* bound: turnovers per unit
  LastInstant     \* bound: instants, five seconds apart

\* A status cell with nothing in it is NaN to pandas, and str() of that is a word.
EmptyCell == "nan"
BlankCell == " "
\* What the Available Units import writes into audit_log for the value it skipped.
SkipText  == "import_skipped_due_to_manual_override"

OnePerUnit(file) == \A i, j \in DOMAIN file :
                      i # j => file[i].unit # file[j].unit \/ file[i].unit = NoUnit

\* Whether a unit is in a file, and its line.
Seen(file, u)   == \E i \in DOMAIN file : file[i].unit = u
LineOf(file, u) == file[CHOOSE i \in DOMAIN file : file[i].unit = u]

QueueConstants ==
  /\ NoUnit \notin Units /\ Dates \subseteq Nat
  /\ Patched \subseteq AvailabilityStatuses
  /\ LastBatch \in Nat /\ LastTurnover \in Nat /\ LastInstant \in Nat
  /\ \A f \in AvailableFiles :
       /\ f \in Seq([unit : Units \cup {NoUnit}, available : Dates \cup {NoDate},
                     cell : AvailabilityStatuses \cup {EmptyCell, BlankCell}])
       /\ OnePerUnit(f)
  \* (A dated line without a unit makes the import fail, on unit's CHECK.)
  /\ \A f \in MoveInFiles :
       /\ f \in Seq([unit : Units \cup {NoUnit}, moveIn : Dates \cup {NoDate}])
       /\ OnePerUnit(f)
       /\ \A i \in DOMAIN f : f[i].unit = NoUnit => f[i].moveIn = NoDate

VARIABLES
  turns,   \* table turnover: the turnovers of each unit, oldest first
  rows,    \* table import_row, by <<batch, line>>
  batches, \* table import_batch: the report's kind and its file
  skips,   \* table audit_log: the entries of source '...:override_skip'
  now,     \* the instant
  desk,    \* the manager's call to the conflict or the invalid-data service
  clerk    \* a call of reconcile_pending_move_ins

vars == <<turns, rows, batches, skips, now, desk, clerk>>

Statuses == AvailabilityStatuses \cup {None, EmptyCell, SkipText}
NewTurnover == [open |-> TRUE, status |-> None, manual |-> None, held |-> FALSE,
                available |-> NoDate, moveIn |-> NoDate]

\* A turnover's id is its unit and its place; <<NoUnit, 0>> is no turnover's.
NoTurnover == <<NoUnit, 0>>
TurnoverIds == {<<u, n>> : u \in Units, n \in 1..LastTurnover}
Turnover(id) == turns[id[1]][id[2]]

\* get_open_by_unit: at most one is open.
OpenOf(u) ==
  IF u \in Units /\ \E n \in DOMAIN turns[u] : turns[u][n].open
  THEN <<u, CHOOSE n \in DOMAIN turns[u] : turns[u][n].open>> ELSE NoTurnover

IdleDesk  == [step |-> "idle", row |-> <<0, 0>>, turnover |-> NoTurnover, value |-> None,
              date |-> NoDate]
IdleClerk == [step |-> "idle", todo |-> {}, row |-> <<0, 0>>, turnover |-> NoTurnover,
              alone |-> FALSE]

Init ==
  /\ turns = [u \in Units |-> <<>>]
  /\ rows = [r \in {} |-> 0]
  /\ batches = <<>>
  /\ skips = {}
  /\ now = 0
  /\ desk = IdleDesk
  /\ clerk = IdleClerk

\* Whoever else writes, a call of the clerk's is not alone.
Disturb == clerk' = [clerk EXCEPT !.alone = FALSE]

-----------------------------------------------------------------------------
(***************************************************************************)
(* The lines of a file: the outcome of each, and what it writes.           *)
(***************************************************************************)

\* import_row.validation_status.
Outcomes == {"OK", "INVALID", "CONFLICT", "IGNORED", "SKIPPED_OVERRIDE"}

\* conflict_reason, as the imports set it.
Reasons == {None, "NO_OPEN_TURNOVER_FOR_READY_DATE", "MISSING_AVAILABLE_DATE",
            "ON_NOTICE_PENDING_AVAILABLE_DATE", "PARTIAL_OVERRIDE_SKIP",
            "IMPORT_SKIPPED_DUE_TO_MANUAL_OVERRIDE", "MISSING_MOVE_IN_DATE",
            "MOVE_IN_WITHOUT_OPEN_TURNOVER"}

\* conflict_flag.
Flagged(status) == status \in {"CONFLICT", "SKIPPED_OVERRIDE"}

\* write_import_row and insert_row: a row without the flag keeps no reason.  of and
\* served are history: the turnover it was for, and the one it was resolved for.
Row(line, status, reason, moveIn, of) ==
  [unit |-> line.unit, status |-> status, reason |-> IF Flagged(status) THEN reason ELSE None,
   moveIn |-> moveIn, at |-> now, resolved |-> FALSE, of |-> of, served |-> NoTurnover]

\* raw_status.strip().lower().
NormStatus(cell) == IF cell = BlankCell THEN None ELSE cell

\* Whether the status of a line is skipped, and what the line changes otherwise.
Skips(t, line) == /\ NormStatus(line.cell) # None
                  /\ ~ShouldApplyImportValue(t.status, t.held, NormStatus(line.cell))
ChangesStatus(t, line) == /\ NormStatus(line.cell) # None /\ ~Skips(t, line)
                          /\ t.status # NormStatus(line.cell) \/ t.held
ChangesDate(t, line) == line.available \notin {NoDate, t.available}

\* available_units_service._handle_update_turnover.
Updated(t, line) ==
  LET s == NormStatus(line.cell)
      dated == IF ChangesDate(t, line) THEN [t EXCEPT !.available = line.available] ELSE t
  IN  IF ~ChangesStatus(t, line) THEN dated
      ELSE [dated EXCEPT !.status = s, !.held = FALSE,
                         !.manual = IF t.status = s \/ ManualReadyOf(s) = None THEN @
                                    ELSE ManualReadyOf(s)]

\* _post_process_missing_available_units: a vacant unit that has left the report.
Left(t) == IF StatusIsVacant(t.status) /\ ~t.held THEN [t EXCEPT !.status = None] ELSE t

\* _handle_no_turnover, but for the creation, which fails the import.
Creates(line) == StatusAllowsTurnoverCreation(line.cell) /\ line.available # NoDate
WithoutTurnover(line) ==
  IF ~StatusIsOnNotice(line.cell) /\ ~StatusAllowsTurnoverCreation(line.cell)
  THEN [status |-> "IGNORED", reason |-> "NO_OPEN_TURNOVER_FOR_READY_DATE"]
  ELSE IF line.available = NoDate THEN [status |-> "INVALID", reason |-> "MISSING_AVAILABLE_DATE"]
  ELSE [status |-> "IGNORED", reason |-> "ON_NOTICE_PENDING_AVAILABLE_DATE"]

WithTurnover(t, line) ==
  IF ~Skips(t, line) THEN [status |-> "OK", reason |-> None]
  ELSE IF ChangesDate(t, line) THEN [status |-> "OK", reason |-> "PARTIAL_OVERRIDE_SKIP"]
  ELSE [status |-> "SKIPPED_OVERRIDE", reason |-> "IMPORT_SKIPPED_DUE_TO_MANUAL_OVERRIDE"]

\* available_units_service.apply, a line.
AvailableRow(line) ==
  LET id == OpenOf(line.unit)
      outcome == IF line.unit = NoUnit
                 THEN [status |-> "IGNORED", reason |-> "NO_OPEN_TURNOVER_FOR_READY_DATE"]
                 ELSE IF id = NoTurnover THEN WithoutTurnover(line)
                 ELSE WithTurnover(Turnover(id), line)
  IN  Row(line, outcome.status, outcome.reason, NoDate, id)

\* move_ins_service.apply, a line.
MoveInRow(line) ==
  LET id == OpenOf(line.unit)
      row(status, reason) == Row(line, status, reason, line.moveIn, id)
  IN  IF line.moveIn = NoDate THEN row("INVALID", "MISSING_MOVE_IN_DATE")
      ELSE IF id = NoTurnover THEN row("CONFLICT", "MOVE_IN_WITHOUT_OPEN_TURNOVER")
      ELSE row("OK", None)

\* insert_batch, record_row for each line, complete_batch, committed as one.
Import(kind, file, new) ==
  /\ Len(batches) < LastBatch
  /\ batches' = Append(batches, [kind |-> kind, file |-> file])
  /\ rows' = [r \in DOMAIN rows \cup {<<Len(batches) + 1, i>> : i \in DOMAIN new} |->
                IF r \in DOMAIN rows THEN rows[r] ELSE new[r[2]]]
  /\ Disturb
  /\ UNCHANGED <<now, desk>>

\* available_units_service.apply.
ImportAvailable ==
  \E file \in AvailableFiles :
    LET skipped == {u \in Units : /\ Seen(file, u) /\ OpenOf(u) # NoTurnover
                                  /\ Skips(Turnover(OpenOf(u)), LineOf(file, u))}
    IN  /\ \A u \in Units : ~(Seen(file, u) /\ OpenOf(u) = NoTurnover /\ Creates(LineOf(file, u)))
        /\ turns' = [u \in Units |-> [n \in DOMAIN turns[u] |->
                       IF <<u, n>> # OpenOf(u) THEN turns[u][n]
                       ELSE IF Seen(file, u) THEN Updated(turns[u][n], LineOf(file, u))
                       ELSE Left(turns[u][n])]]
        /\ skips' = skips \cup {[turnover |-> OpenOf(u), value |-> SkipText, at |-> now] : u \in skipped}
        /\ Import("AVAILABLE_UNITS", file, [i \in DOMAIN file |-> AvailableRow(file[i])])

\* move_ins_service.apply; the same file a second time is refused.
ImportMoveIns ==
  \E file \in MoveInFiles :
    /\ \A b \in DOMAIN batches : batches[b].kind = "PENDING_MOVE_INS" => batches[b].file # file
    /\ turns' = [u \in Units |-> [n \in DOMAIN turns[u] |->
                   IF <<u, n>> # OpenOf(u) \/ ~Seen(file, u) THEN turns[u][n]
                   ELSE IF LineOf(file, u).moveIn = NoDate THEN turns[u][n]
                   ELSE [turns[u][n] EXCEPT !.moveIn = LineOf(file, u).moveIn]]]
    /\ Import("PENDING_MOVE_INS", file, [i \in DOMAIN file |-> MoveInRow(file[i])])
    /\ UNCHANGED skips

-----------------------------------------------------------------------------
(***************************************************************************)
(* The queues, as the repository's queries return them.                    *)
(***************************************************************************)
Unresolved(status) == {r \in DOMAIN rows : rows[r].status = status /\ ~rows[r].resolved}

\* A mutant: the window opens at the row.
NearAfter(a, b) == a \in (b + 1)..(b + 2)

\* Within INTERVAL '5 seconds' of one another.
Near(a, b) == a - b \in -1..1

\* Rows whose status was skipped, as WHERE has them.
SkippedRows ==
  {r \in DOMAIN rows :
     /\ ~rows[r].resolved
     /\ \/ rows[r].status = "SKIPPED_OVERRIDE"
        \/ rows[r].status = "OK" /\ rows[r].reason = "PARTIAL_OVERRIDE_SKIP"}

\* get_override_conflicts: what joins a row with an audit entry is the property
\* and the time.
OverrideConflicts ==
  {c \in [row : SkippedRows, entry : skips] : Near(rows[c.row].at, c.entry.at)}

\* get_invalid_import_rows and get_missing_move_out_rows.
InvalidRows    == Unresolved("INVALID")
PendingMoveIns == {r \in Unresolved("CONFLICT") : rows[r].reason = "MOVE_IN_WITHOUT_OPEN_TURNOVER"}

-----------------------------------------------------------------------------
(***************************************************************************)
(* The manager: resolve_override_conflict and resolve_invalid_row.         *)
(***************************************************************************)
SetTurnover(id, t) == turns' = [turns EXCEPT ![id[1]][id[2]] = t]

\* resolve_import_row: once resolved, a row stays as it is.
Resolve(r, id) ==
  rows' = [rows EXCEPT ![r] = IF @.resolved THEN @ ELSE [@ EXCEPT !.resolved = TRUE, !.served = id]]

\* keep_manual, and the call of accept_report, on the list as it is now.
KeepManual ==
  /\ desk.step = "idle"
  /\ \E c \in OverrideConflicts :
       desk' = [desk EXCEPT !.step = "resolve", !.row = c.row, !.turnover = c.entry.turnover]
  /\ UNCHANGED <<turns, rows, batches, skips, now, clerk>>

AcceptReport ==
  /\ desk.step = "idle"
  /\ \E c \in OverrideConflicts :
       desk' = [desk EXCEPT !.step = "accept", !.row = c.row, !.turnover = c.entry.turnover,
                            !.value = c.entry.value]
  /\ UNCHANGED <<turns, rows, batches, skips, now, clerk>>

\* It updates by id, whether or not the turnover is still open.
AcceptWrite ==
  /\ desk.step = "accept"
  /\ SetTurnover(desk.turnover, [Turnover(desk.turnover) EXCEPT !.status = desk.value, !.held = FALSE])
  /\ desk' = [desk EXCEPT !.step = "resolve"]
  /\ Disturb
  /\ UNCHANGED <<rows, batches, skips, now>>

\* resolve_invalid_row: without an open turnover of the unit it raises, and changes
\* nothing.  (A call without a unit code would resolve the row uncorrected.  There is
\* none: its one caller sends list_invalid_rows' unit, and that is a dash, which no
\* unit is called, for a row without one.)
Correct ==
  /\ desk.step = "idle"
  /\ \E r \in InvalidRows, d \in Dates :
       /\ OpenOf(rows[r].unit) # NoTurnover
       /\ desk' = [desk EXCEPT !.step = "correct", !.row = r,
                               !.turnover = OpenOf(rows[r].unit), !.date = d]
  /\ UNCHANGED <<turns, rows, batches, skips, now, clerk>>

\* A mutant: every correction is taken for a move-in date.
CorrectedOneField(kind, t, date) == [t EXCEPT !.moveIn = date]

\* _REPORT_FIELD_MAP.
Corrected(kind, t, date) ==
  IF kind = "PENDING_MOVE_INS" THEN [t EXCEPT !.moveIn = date] ELSE [t EXCEPT !.available = date]

\* update_turnover raises on a turnover that has ended since it was looked up.
CorrectWrite ==
  LET t == Turnover(desk.turnover)
  IN  /\ desk.step = "correct"
      /\ IF t.open
           THEN /\ SetTurnover(desk.turnover, Corrected(batches[desk.row[1]].kind, t, desk.date))
                /\ desk' = [desk EXCEPT !.step = "resolve"]
                /\ Disturb
           ELSE desk' = IdleDesk /\ UNCHANGED <<turns, clerk>>
      /\ UNCHANGED <<rows, batches, skips, now>>

DeskResolve ==
  /\ desk.step = "resolve"
  /\ Resolve(desk.row, desk.turnover)
  /\ desk' = IdleDesk
  /\ Disturb
  /\ UNCHANGED <<turns, batches, skips, now>>

\* The call ends between two commits.
DeskFail ==
  /\ desk.step # "idle"
  /\ desk' = IdleDesk
  /\ UNCHANGED <<turns, rows, batches, skips, now, clerk>>

-----------------------------------------------------------------------------
(***************************************************************************)
(* reconcile_pending_move_ins.                                             *)
(***************************************************************************)
ReconcileBegin ==
  /\ clerk.step = "idle"
  /\ clerk' = [IdleClerk EXCEPT !.step = "next", !.todo = PendingMoveIns, !.alone = TRUE]
  /\ UNCHANGED <<turns, rows, batches, skips, now, desk>>

\* A mutant: the first orphan ends the call.
MatchStops ==
  /\ clerk.step = "next"
  /\ \E r \in clerk.todo :
       /\ \A q \in clerk.todo : rows[q].at <= rows[r].at
       /\ clerk' = IF OpenOf(rows[r].unit) = NoTurnover THEN [clerk EXCEPT !.todo = {}]
                   ELSE [clerk EXCEPT !.todo = @ \ {r}, !.step = "write", !.row = r,
                                      !.turnover = OpenOf(rows[r].unit)]
  /\ UNCHANGED <<turns, rows, batches, skips, now, desk>>

\* The newest row first, rows of one instant in any order; an orphan stays.
Match ==
  /\ clerk.step = "next"
  /\ \E r \in clerk.todo :
       /\ \A q \in clerk.todo : rows[q].at <= rows[r].at
       /\ clerk' = IF OpenOf(rows[r].unit) = NoTurnover THEN [clerk EXCEPT !.todo = @ \ {r}]
                   ELSE [clerk EXCEPT !.todo = @ \ {r}, !.step = "write", !.row = r,
                                      !.turnover = OpenOf(rows[r].unit)]
  /\ UNCHANGED <<turns, rows, batches, skips, now, desk>>

\* A move-in date is never held, so it is always applied; a turnover that has
\* ended meanwhile raises and ends the call.
MatchWrite ==
  LET t == Turnover(clerk.turnover)
  IN  /\ clerk.step = "write"
      /\ IF t.open
           THEN /\ SetTurnover(clerk.turnover, [t EXCEPT !.moveIn = rows[clerk.row].moveIn])
                /\ clerk' = [clerk EXCEPT !.step = "resolve"]
           ELSE clerk' = IdleClerk /\ UNCHANGED turns
      /\ UNCHANGED <<rows, batches, skips, now, desk>>

MatchResolve ==
  /\ clerk.step = "resolve"
  /\ Resolve(clerk.row, clerk.turnover)
  /\ clerk' = [clerk EXCEPT !.step = "next", !.row = <<0, 0>>, !.turnover = NoTurnover]
  /\ UNCHANGED <<turns, batches, skips, now, desk>>

ReconcileEnd ==
  /\ clerk.step = "next" /\ clerk.todo = {}
  /\ clerk' = IdleClerk
  /\ UNCHANGED <<turns, rows, batches, skips, now, desk>>

ReconcileFail ==
  /\ clerk.step \in {"next", "write", "resolve"}
  /\ clerk' = IdleClerk
  /\ UNCHANGED <<turns, rows, batches, skips, now, desk>>

-----------------------------------------------------------------------------
(***************************************************************************)
(* The rest of the system, and the clock.                                  *)
(***************************************************************************)
Elsewhere == Disturb /\ UNCHANGED <<rows, batches, skips, now, desk>>

OpenTurnover ==
  \E u \in Units :
    /\ OpenOf(u) = NoTurnover /\ Len(turns[u]) < LastTurnover
    /\ turns' = [turns EXCEPT ![u] = Append(@, NewTurnover)]
    /\ Elsewhere

EndTurnover ==
  \E u \in Units :
    /\ OpenOf(u) # NoTurnover
    /\ SetTurnover(OpenOf(u), [Turnover(OpenOf(u)) EXCEPT !.open = FALSE])
    /\ Elsewhere

PatchStatus ==
  \E u \in Units, s \in Patched :
    /\ OpenOf(u) # NoTurnover
    /\ SetTurnover(OpenOf(u), [Turnover(OpenOf(u)) EXCEPT !.status = s, !.manual = ManualReadyOf(s)])
    /\ Elsewhere

\* run_available_date_transition, when the move-out has come: the only override.
NightTransition ==
  \E u \in Units :
    /\ OpenOf(u) # NoTurnover /\ Turnover(OpenOf(u)).manual = "On Notice"
    /\ SetTurnover(OpenOf(u), [Turnover(OpenOf(u)) EXCEPT
                     !.status = "vacant not ready", !.manual = "Vacant Not Ready", !.held = TRUE])
    /\ Elsewhere

Tick ==
  /\ now < LastInstant
  /\ now' = now + 1
  /\ UNCHANGED <<turns, rows, batches, skips, desk, clerk>>

Desk  == \/ KeepManual \/ AcceptReport \/ AcceptWrite \/ Correct \/ CorrectWrite
         \/ DeskResolve \/ DeskFail
Clerk == \/ ReconcileBegin \/ Match \/ MatchWrite \/ MatchResolve \/ ReconcileEnd \/ ReconcileFail

Next == \/ ImportAvailable \/ ImportMoveIns \/ Desk \/ Clerk
        \/ OpenTurnover \/ EndTurnover \/ PatchStatus \/ NightTransition \/ Tick

Spec == Init /\ [][Next]_vars

-----------------------------------------------------------------------------
(***************************************************************************)
(* Properties.                                                             *)
(***************************************************************************)
TurnoverType ==
  [open : BOOLEAN, status : Statuses, manual : ManualStatuses \cup {None}, held : BOOLEAN,
   available : Dates \cup {NoDate}, moveIn : Dates \cup {NoDate}]

RowType ==
  [unit : Units \cup {NoUnit}, status : Outcomes, reason : Reasons, moveIn : Dates \cup {NoDate},
   at : 0..LastInstant, resolved : BOOLEAN,
   of : TurnoverIds \cup {NoTurnover}, served : TurnoverIds \cup {NoTurnover}]

\* The tables hold what their columns admit, and a reason comes with the flag
\* (import_row_conflict_reason_requires_conflict).
TypeOK ==
  /\ turns \in [Units -> Seq(TurnoverType)]
  /\ \A u \in Units : Len(turns[u]) <= LastTurnover
  /\ Len(batches) <= LastBatch
  /\ DOMAIN rows = UNION {{b} \X DOMAIN batches[b].file : b \in DOMAIN batches}
  /\ \A r \in DOMAIN rows : /\ rows[r] \in RowType
                            /\ rows[r].reason # None => Flagged(rows[r].status)
  /\ \A e \in skips : e \in [turnover : TurnoverIds, value : {SkipText}, at : 0..LastInstant]
  /\ now \in 0..LastInstant
  /\ desk.row \in (DOMAIN rows) \cup {<<0, 0>>} /\ desk.turnover \in TurnoverIds \cup {NoTurnover}
  /\ clerk.todo \subseteq DOMAIN rows /\ clerk.turnover \in TurnoverIds \cup {NoTurnover}

\* No skip is lost: a row that was skipped whole is on the list of override
\* conflicts, with the turnover it was for, until somebody resolves it, whatever
\* becomes of the turnover (get_override_conflicts).
SkippedIsListed ==
  \A r \in Unresolved("SKIPPED_OVERRIDE") :
    \E c \in OverrideConflicts : c.row = r /\ c.entry.turnover = rows[r].of

\* A row leaves its queue for a reason: a resolved invalid row has given its
\* unit's turnover the date it lacked, a resolved pending move-in has given its
\* unit's the move-in, and no row outside the queues is ever resolved, whatever
\* raised or ended in between (resolve_invalid_row, reconcile_pending_move_ins).
ResolvedWereServed ==
  \A r \in DOMAIN rows : rows[r].resolved =>
    LET id == rows[r].served
    IN  /\ rows[r].status \in {"SKIPPED_OVERRIDE", "INVALID", "CONFLICT"}
        /\ id # NoTurnover
        /\ rows[r].status = "CONFLICT" =>
             id[1] = rows[r].unit /\ Turnover(id).moveIn # NoDate
        /\ rows[r].status = "INVALID" =>
             /\ id[1] = rows[r].unit
             /\ IF batches[r[1]].kind = "PENDING_MOVE_INS"
                THEN Turnover(id).moveIn # NoDate ELSE Turnover(id).available # NoDate

\* A reconciliation that nothing disturbed leaves only true orphans: every pending
\* move-in whose unit has an open turnover has been matched.
QueueHoldsOrphans ==
  [][ReconcileEnd /\ clerk.alone =>
       \A r \in PendingMoveIns : OpenOf(rows[r].unit) = NoTurnover]_vars
=============================================================================
