------------------------------ MODULE Registry ------------------------------
(***************************************************************************)
(* The property's structure and what hangs on it: units with their phases  *)
(* and buildings, created by the Unit Master import, by hand and by the    *)
(* report imports; the saved phase scope; the move-in dates of the work    *)
(* orders; and the queue of move-ins that found no open turnover.          *)
(*                                                                         *)
(* async handlers run one at a time on the event loop (the Unit Master     *)
(* import between its statements, too); a report import runs in an         *)
(* executor thread and the phase scope's handlers, which are plain         *)
(* functions, in threads of their own.  The Unit Master import and a       *)
(* report import are transactions under READ COMMITTED: the unique keys of *)
(* unit, phase and building make an INSERT wait for the transaction that   *)
(* has inserted the key before, and fail if that commits.  A statement     *)
(* outside a transaction commits by itself.                                *)
(***************************************************************************)
EXTENDS WorkOrders, SequencesExt, FiniteSetsExt

CONSTANTS
  Apartments,   \* what there is to be let
  PhaseOf,      \* what parse_unit_parts makes of an apartment's code,
  BuildingOf,   \*   functions on Apartments
  MasterFiles,  \* Unit Master files: sequences of [code, phase, building]
  Reports,      \* the units that a report lists: sets of codes
  Saves,        \* lists of phases a PUT of the phase scope may carry
  Savers,       \* threads of the phase scope's handlers
  Activity,     \* Resident Activity files: sets of [code, moveIn, current]
  Orders,       \* rows of the Service Request file: [number, code, area, created, assigned, status]
  Days,         \* dates of move-ins
  LastRow,      \* bound: rows of Move Ins and Pending FAS reports
  LastUnit,     \* bound: units there are when one is created by hand
  LastSave,     \* bound: saves of the phase scope
  Scenarios     \* bound: the kinds of calls that one behaviour has

None == "none"
NoDate == -100

Codes == [apartment : Apartments, prefixed : BOOLEAN]
Phases == {PhaseOf[a] : a \in Apartments} \cup {"_DEFAULT"}

ASSUME RegistryConstants ==
  /\ PhaseOf \in [Apartments -> STRING] /\ BuildingOf \in [Apartments -> STRING]
  /\ Days \subseteq Nat /\ {LastRow, LastUnit} \subseteq Nat /\ LastSave \in Nat
  /\ MasterFiles \subseteq Seq([code : Codes, phase : STRING, building : STRING])
  /\ Saves \subseteq Seq(Phases)
  /\ \A codes \in Reports : codes \subseteq Codes
  /\ \A file \in Activity : /\ IsFiniteSet(file)
                            /\ \A r \in file : r.code \in Codes /\ r.moveIn \in Days

VARIABLES
  db,        \* what is committed: [phases, buildings, units]
  master,    \* the handler of POST unit-master/import
  report,    \* the report import in its thread
  scope,     \* phase_scope and phase_scope_phase of the anonymous user
  saver,     \* the threads of PUT phase-scope
  lastSave,  \* history: the save that ended last
  saves,     \* bound: PUTs begun
  occupancy, \* unit_occupancy_global: unit code |-> move-in date
  open,      \* unit code |-> move-in date of its open turnover
  rows,      \* import_row of Move Ins and Pending FAS reports; turnover: made out of it
  desk,      \* the handler that resolves a missing move-out
  scenario   \* bound: one of Scenarios

vars == <<db, master, report, scope, saver, lastSave, saves, occupancy, open, rows, desk, scenario>>

structure == <<db, master>>
scoping   == <<scope, saver, lastSave, saves>>
queue     == <<open, rows, desk>>

-----------------------------------------------------------------------------
(* Units, phases and buildings *)

\* normalize_unit_code: spacing, case and a leading "Unit " do not tell codes apart.
Norm(code) == [code EXCEPT !.prefixed = FALSE]

\* parse_unit_parts of a normalized code; <<None, None>> when it does not match.
Parts(code) == <<PhaseOf[code.apartment], BuildingOf[code.apartment]>>

NoRows == [phases |-> {}, buildings |-> {}, units |-> {}]

Merged(a, b) == [table \in DOMAIN a |-> a[table] \cup b[table]]

Has(tables, code) == \E u \in tables.units : u.code = code
UnitOf(tables, code) == CHOOSE u \in tables.units : u.code = code

\* The rows that a unit needs: itself, and its phase and building.
RowsFor(code, phase, building) ==
  [phases    |-> {phase} \ {None},
   buildings |-> IF building = None THEN {} ELSE {<<phase, building>>},
   units     |-> {[code |-> code, phase |-> phase, building |-> building]}]

\* Those of them that are still to be inserted.
Missing(wanted, known) == [table \in DOMAIN wanted |-> wanted[table] \ known[table]]

\* Mutant: the schema without unit_property_unit_code_unique.
ClashOfPlaces(a, b) ==
  a.phases \cap b.phases # {} \/ a.buildings \cap b.buildings # {}

\* Keys that one transaction has inserted and another would insert.
Clash(a, b) ==
  \/ a.phases \cap b.phases # {} \/ a.buildings \cap b.buildings # {}
  \/ \E u \in a.units : Has(b, u.code)

-----------------------------------------------------------------------------
(* build_unit_master_import_report: what an import of the file would do *)

\* A building without a phase goes to the phase _DEFAULT.
PhaseFor(r) == IF r.phase = None /\ r.building # None THEN "_DEFAULT" ELSE r.phase

Plan(file, strict, tables) ==
  LET First(i) == \A j \in 1..(i - 1) : file[j].code # file[i].code
      new == {i \in 1..Len(file) : First(i) /\ ~Has(tables, file[i].code)}
      wanted == {RowsFor(file[i].code, PhaseFor(file[i]), file[i].building) : i \in new}
  IN  [has_blocking_errors |-> (\E i \in 1..Len(file) : ~First(i)) \/ (strict /\ new # {}),
       actions |-> Missing([table \in DOMAIN NoRows |-> UNION {w[table] : w \in wanted}], tables),
       skips   |-> Len(file) - Cardinality(new)]

-----------------------------------------------------------------------------
(* POST unit-master/import: import_unit_master_csv and import_unit_master *)

Idle == [step |-> "idle", file |-> <<>>, i |-> 1, known |-> NoRows, made |-> NoRows,
         skipped |-> 0, plan |-> Plan(<<>>, FALSE, NoRows), alone |-> TRUE]

\* The report comes first: a dry run ends with it and so does a file with
\* errors.  Then import_unit_master checks the file again before it writes.
MasterBegin ==
  /\ "master" \in scenario /\ master.step = "idle" /\ desk.step = "idle"
  /\ \E file \in MasterFiles, strict \in BOOLEAN :
       LET plan == Plan(file, strict, db)
       IN  /\ ~plan.has_blocking_errors
           /\ master' = [Idle EXCEPT !.step = "checked", !.file = file, !.plan = plan]
  /\ UNCHANGED <<db, report, scoping, occupancy, queue, scenario>>

\* The transaction begins by caching the phases and buildings there are.
MasterCache ==
  /\ master.step = "checked"
  /\ master' = [master EXCEPT !.step = "rows", !.known = [db EXCEPT !.units = {}]]
  /\ UNCHANGED <<db, report, scoping, occupancy, queue, scenario>>

\* Mutant: the cache of buildings is keyed by their code alone.
MasterInsertsAnyPhase(r) ==
  LET rest == Missing(RowsFor(r.code, PhaseFor(r), r.building), master.known)
  IN  [rest EXCEPT !.buildings =
         {b \in @ : \A c \in master.known.buildings : c[2] # b[2]}]

\* What a row inserts, by the caches: a phase (with its templates), a building, a unit.
MasterInserts(r) == Missing(RowsFor(r.code, PhaseFor(r), r.building), master.known)

MasterRow ==
  /\ master.step = "rows" /\ master.i <= Len(master.file)
  /\ LET r == master.file[master.i]
     IN  IF Has(Merged(db, master.made), r.code)
         THEN master' = [master EXCEPT !.i = @ + 1, !.skipped = @ + 1]
         ELSE /\ ~Clash(MasterInserts(r), report.made)
              /\ ~Clash(MasterInserts(r), db)
              /\ master' = [master EXCEPT !.i = @ + 1,
                                          !.made = Merged(@, MasterInserts(r)),
                                          !.known = Merged(@, MasterInserts(r))]
  /\ UNCHANGED <<db, report, scoping, occupancy, queue, scenario>>

MasterCommit ==
  /\ master.step = "rows" /\ master.i > Len(master.file)
  /\ db' = Merged(db, master.made)
  /\ master' = [master EXCEPT !.step = "done"]
  /\ UNCHANGED <<report, scoping, occupancy, queue, scenario>>

\* The answer; or whatever raises, a clash of keys among it, and rolls back.
MasterEnd ==
  /\ master.step # "idle"
  /\ master' = Idle
  /\ UNCHANGED <<db, report, scoping, occupancy, queue, scenario>>

\* Mutant: the handler before it looked at the building's phase.
PlacementPhaseGiven(phase, building) == phase

\* _validate_create_placement: the phase that a unit created by hand gets.
PlacementPhase(phase, building) == IF building[2] = None THEN phase ELSE building[1]

\* POST unit-master: create_unit_manual.
CreateUnit ==
  /\ "manual" \in scenario /\ master.step = "idle" /\ desk.step = "idle"
  /\ Cardinality(db.units) <= LastUnit
  /\ \E code \in Codes, phase \in db.phases \cup {None} :
     \E building \in {b \in db.buildings : phase \in {None, b[1]}} \cup {<<phase, None>>} :
       LET unit == [code |-> code, phase |-> PlacementPhase(phase, building),
                    building |-> building[2]]
       IN  /\ ~Has(db, code) /\ ~Has(report.made, code)
           /\ db' = [db EXCEPT !.units = @ \cup {unit}]
  /\ UNCHANGED <<master, report, scoping, occupancy, queue, scenario>>

-----------------------------------------------------------------------------
(* Report imports: resolve_or_create_unit, and the Move Ins and Pending FAS rows *)

Quiet == [step |-> "idle", kind |-> None, todo |-> {}, made |-> NoRows, rows |-> {}, moveIns |-> {}]

NextRow == Cardinality(rows) + Cardinality(report.rows) + 1

ReportBegin ==
  /\ "report" \in scenario /\ report.step = "idle"
  /\ \E kind \in {"AVAILABLE_UNITS"}
                   \cup (IF "queue" \in scenario THEN {"PENDING_MOVE_INS", "PENDING_FAS"} ELSE {}) :
     \E todo \in Reports :
       report' = [Quiet EXCEPT !.step = "rows", !.kind = kind, !.todo = todo]
  /\ UNCHANGED <<structure, scoping, occupancy, queue, scenario>>

\* resolve_or_create_unit of a normalized code: what it inserts.
Creates(code) ==
  IF Has(Merged(db, report.made), code) THEN NoRows
  ELSE Missing(RowsFor(code, Parts(code)[1], Parts(code)[2]), Merged(db, report.made))

\* A row of Available Units resolves its unit, and so does one of Move Ins before
\* it applies its date, or is put down as a conflict for want of an open turnover.
\* A row of Pending FAS is only recorded.  (Move Ins without a date are INVALID.)
ReportRow ==
  /\ report.step = "rows"
  /\ \E raw \in report.todo :
       LET code == Norm(raw)
           made == IF report.kind = "PENDING_FAS" THEN NoRows ELSE Creates(code)
           fine == report.kind = "PENDING_FAS" \/ code \in DOMAIN open
       IN  /\ ~Clash(made, master.made)
           /\ \E day \in IF report.kind = "PENDING_MOVE_INS" THEN Days ELSE {NoDate} :
                report' = [report EXCEPT
                  !.todo = @ \ {raw},
                  !.made = Merged(@, made),
                  !.rows = IF report.kind = "AVAILABLE_UNITS" THEN @ ELSE @ \cup
                    {[id |-> NextRow, kind |-> report.kind, code |-> code, day |-> day,
                      status |-> IF fine THEN "OK" ELSE "CONFLICT",
                      resolved |-> FALSE, turnover |-> FALSE]},
                  !.moveIns = IF fine /\ day # NoDate THEN @ \cup {<<code, day>>} ELSE @]
           /\ report.kind # "AVAILABLE_UNITS" => NextRow <= LastRow
  /\ UNCHANGED <<structure, scoping, occupancy, queue, scenario>>

\* The whole import commits at once; a master import that read before is told.
ReportCommit ==
  /\ report.step = "rows" /\ report.todo = {}
  /\ db' = Merged(db, report.made)
  /\ master' = IF report.made = NoRows THEN master
               ELSE [master EXCEPT !.alone = (master.step = "idle")]
  /\ rows' = rows \cup report.rows
  /\ open' = [c \in DOMAIN open |->
                IF \E m \in report.moveIns : m[1] = c
                THEN (CHOOSE m \in report.moveIns : m[1] = c)[2] ELSE open[c]]
  /\ report' = Quiet
  /\ UNCHANGED <<scoping, occupancy, desk, scenario>>

\* A row's turnover was closed under it, a wait ended in a deadlock, or anything
\* else raised: everything is rolled back.
ReportFail ==
  /\ report.step = "rows"
  /\ report' = Quiet
  /\ UNCHANGED <<structure, scoping, occupancy, queue, scenario>>

-----------------------------------------------------------------------------
(* GET and PUT phase-scope: scope_service, phase_scope_repository *)

Unsaved == [saved |-> FALSE, phases |-> {}]

\* get_phase_scope: every phase until a scope has been saved.
GetPhaseScope(s, tables) ==
  IF s.saved THEN s.phases \cap tables.phases ELSE tables.phases

Waiting == [step |-> "idle", ask |-> <<>>, i |-> 1, alone |-> TRUE]

Saving(t) == saver[t].step # "idle"

\* update_phase_scope: each phase belongs to the property, or nothing is done.
SaveBegin(t) ==
  /\ "scope" \in scenario /\ ~Saving(t) /\ saves < LastSave
  /\ \E ask \in Saves :
       /\ ToSet(ask) \subseteq db.phases
       /\ saver' = [w \in Savers |->
            IF w = t THEN [Waiting EXCEPT !.step = "upsert", !.ask = ask,
                                          !.alone = \A x \in Savers : ~Saving(x)]
            ELSE [saver[w] EXCEPT !.alone = ~Saving(w)]]
  /\ saves' = saves + 1
  /\ UNCHANGED <<structure, report, scope, lastSave, occupancy, queue, scenario>>

\* upsert_for_user: the row that says there is a saved scope.
SaveUpsert(t) ==
  /\ saver[t].step = "upsert"
  /\ scope' = [scope EXCEPT !.saved = TRUE]
  /\ saver' = [saver EXCEPT ![t].step = "delete"]
  /\ UNCHANGED <<structure, report, lastSave, saves, occupancy, queue, scenario>>

\* Mutant: the new phases are added to the old.
SaveDeleteNot(t) ==
  /\ saver[t].step = "delete"
  /\ saver' = [saver EXCEPT ![t].step = "insert"]
  /\ UNCHANGED <<structure, report, scope, lastSave, saves, occupancy, queue, scenario>>

\* set_phases deletes the phases and inserts the new ones, outside a transaction.
SaveDelete(t) ==
  /\ saver[t].step = "delete"
  /\ scope' = [scope EXCEPT !.phases = {}]
  /\ saver' = [saver EXCEPT ![t].step = "insert"]
  /\ UNCHANGED <<structure, report, lastSave, saves, occupancy, queue, scenario>>

SaveInsert(t) ==
  /\ saver[t].step = "insert" /\ saver[t].i <= Len(saver[t].ask)
  /\ saver[t].ask[saver[t].i] \notin scope.phases
  /\ scope' = [scope EXCEPT !.phases = @ \cup {saver[t].ask[saver[t].i]}]
  /\ saver' = [saver EXCEPT ![t].i = @ + 1]
  /\ UNCHANGED <<structure, report, lastSave, saves, occupancy, queue, scenario>>

\* The answer: saved, or refused at a phase that is there already (because the
\* list has it twice, or another save has inserted it) or by any other failure.
SaveEnd(t) ==
  /\ Saving(t)
  /\ lastSave' = [phases |-> ToSet(saver[t].ask),
                  clean  |-> saver[t].alone /\ saver[t].step = "insert"
                               /\ saver[t].i > Len(saver[t].ask)]
  /\ saver' = [saver EXCEPT ![t] = Waiting]
  /\ UNCHANGED <<structure, report, scope, saves, occupancy, queue, scenario>>

-----------------------------------------------------------------------------
(* Work orders: occupancy_service, and what validate makes of a file *)

\* ingest_resident_activity: of a unit's records a current resident's wins, and
\* of those the latest.
Kept(file, code) ==
  LET all     == {r \in file : r.code = code}
      current == {r \in all : r.current}
  IN  Max({r.moveIn : r \in IF current = {} THEN all ELSE current})

\* ingest: the units that are known by the code in the file, normalized.  Two
\* spellings of a code are kept apart until here, and either may come last.
IngestActivity ==
  /\ "orders" \in scenario /\ master.step = "idle"
  /\ \E file \in Activity :
       LET codes == {r.code : r \in file}
           known == {Norm(c) : c \in {d \in codes : Has(db, Norm(d))}}
       IN  \E spelling \in [known -> codes] :
             /\ \A c \in known : Norm(spelling[c]) = c
             /\ occupancy' = [c \in DOMAIN occupancy \cup known |->
                  IF c \in known THEN Kept(file, spelling[c]) ELSE occupancy[c]]
  /\ UNCHANGED <<structure, report, scoping, queue, scenario>>

\* A location is a unit's code, or else an area.
InUnit(o) == o.area = None

\* _extract_phase: the phase of the code, or the whole location without one.
ExtractPhase(o) ==
  IF InUnit(o) /\ Parts(o.code)[1] # None THEN Parts(o.code)[1] ELSE o.area

\* validate: one row of the file.
ValidatedRow(o) ==
  LET code      == Norm(o.code)
      known     == InUnit(o) /\ Has(db, code) /\ code \in DOMAIN occupancy
      daysSince == IF known /\ o.created # NoDate
                   THEN o.created - occupancy[code] ELSE NoDate
      class     == Classify(daysSince, NoDate)
  IN  [number   |-> o.number,
       ph       |-> ExtractPhase(o),
       assigned |-> CellText(o.assigned),
       status   |-> CellText(o.status),
       wo_classification |->
         IF class = "Make Ready" \/ (InUnit(o) /\ Parts(code)[1] # None)
         THEN class ELSE AreaLabel(o.area)]

Validate == {ValidatedRow(o) : o \in Orders}

-----------------------------------------------------------------------------
(* The queue of missing move-outs: missing_move_out_service *)

AtRest == [step |-> "idle", row |-> 0]

\* The conflicts of known units.  get_missing_move_out_rows lists those that are not
\* resolved, of the scope's phases; but the page may have its list from before a row
\* was resolved or the scope was saved.
MissingMoveOuts ==
  {r \in rows : r.kind = "PENDING_MOVE_INS" /\ r.status = "CONFLICT" /\ Has(db, r.code)}

\* Mutant: the row is resolved before its turnover is there.
DeskCreateLate ==
  /\ desk.step = "idle" /\ master.step = "idle"
  /\ \E r \in MissingMoveOuts :
       /\ r.code \notin DOMAIN open /\ UnitOf(db, r.code).phase # None
       /\ desk' = [step |-> "created", row |-> r.id]
  /\ UNCHANGED <<structure, report, scoping, occupancy, open, rows, scenario>>

\* resolve_missing_move_out first has create_turnover make the turnover: the unit
\* needs a phase and no open turnover.  It checks nothing of the row.  (Nor that the
\* row is that unit's: the row and the unit are what the page has on one line.)
DeskCreate ==
  /\ desk.step = "idle" /\ master.step = "idle"
  /\ \E r \in MissingMoveOuts : \E day \in {NoDate, r.day} :
       /\ r.code \notin DOMAIN open /\ UnitOf(db, r.code).phase # None
       /\ open' = [c \in DOMAIN open \cup {r.code} |-> IF c = r.code THEN day ELSE open[c]]
       /\ rows' = (rows \ {r}) \cup {[r EXCEPT !.turnover = TRUE]}
       /\ desk' = [step |-> "created", row |-> r.id]
  /\ UNCHANGED <<structure, report, scoping, occupancy, scenario>>

\* resolve_import_row.
DeskResolve ==
  /\ desk.step = "created"
  /\ rows' = {[r EXCEPT !.resolved = @ \/ r.id = desk.row] : r \in rows}
  /\ desk' = AtRest
  /\ UNCHANGED <<structure, report, scoping, occupancy, open, scenario>>

\* The process ends, or a statement raises, between the two: the row stays.
DeskFail ==
  /\ desk.step = "created"
  /\ desk' = AtRest
  /\ UNCHANGED <<structure, report, scoping, occupancy, open, rows, scenario>>

\* A turnover ends (TurnoverService and Board have the many ways).
TurnoverEnds ==
  /\ "queue" \in scenario /\ desk.step = "idle" /\ master.step = "idle"
  /\ \E c \in DOMAIN open : open' = [d \in DOMAIN open \ {c} |-> open[d]]
  /\ UNCHANGED <<structure, report, scoping, occupancy, rows, desk, scenario>>

-----------------------------------------------------------------------------
Init ==
  /\ db = NoRows /\ master = Idle /\ report = Quiet
  /\ scope = Unsaved /\ saver = [t \in Savers |-> Waiting]
  /\ lastSave = [phases |-> {}, clean |-> FALSE] /\ saves = 0
  /\ occupancy = <<>> /\ open = <<>> /\ rows = {} /\ desk = AtRest
  /\ scenario \in Scenarios

Next ==
  \/ MasterBegin \/ MasterCache \/ MasterRow \/ MasterCommit \/ MasterEnd \/ CreateUnit
  \/ ReportBegin \/ ReportRow \/ ReportCommit \/ ReportFail
  \/ \E t \in Savers : \/ SaveBegin(t) \/ SaveUpsert(t) \/ SaveDelete(t)
                       \/ SaveInsert(t) \/ SaveEnd(t)
  \/ IngestActivity
  \/ DeskCreate \/ DeskResolve \/ DeskFail \/ TurnoverEnds

Spec == Init /\ [][Next]_vars

-----------------------------------------------------------------------------
\* What a phase or a building is called, in a file or in a code.
Names == {None, "_DEFAULT"} \cup {PhaseOf[a] : a \in Apartments} \cup {BuildingOf[a] : a \in Apartments}
           \cup UNION {{r.phase, r.building} : r \in UNION {ToSet(file) : file \in MasterFiles}}

Tables == [phases    : SUBSET (Names \ {None}),
           buildings : SUBSET (Names \X (Names \ {None})),
           units     : SUBSET [code : Codes, phase : Names, building : Names]]

\* The rows of the tables, and that a unit code is one row (unit_code_norm is
\* unique) and a report's row one import_row.
TypeOK ==
  /\ db \in Tables /\ master.made \in Tables /\ report.made \in Tables
  /\ \A u, v \in db.units : u.code = v.code => u = v
  /\ \A r, q \in rows : r.id = q.id => r = q
  /\ scope.phases \subseteq db.phases
  /\ \A c \in DOMAIN occupancy : occupancy[c] \in Days
  /\ \A c \in DOMAIN open : open[c] \in Days \cup {NoDate}
  /\ scenario \in Scenarios

\* Whoever placed it, a unit's building is one of its phase and both exist: the
\* schema only has two independent foreign keys (unit, schema.sql).
UnitsArePlaced ==
  \A u \in db.units :
    /\ u.phase # None => u.phase \in db.phases
    /\ u.building # None => <<u.phase, u.building>> \in db.buildings

\* "Behavior must stay aligned" (unit_master_import_plan.py): an import of the
\* Unit Master that no other commit came between creates exactly what the report
\* that let it through announced, and skips as many rows.
PlanPredictsImport ==
  master.step = "done" /\ master.alone =>
    /\ master.made = master.plan.actions
    /\ master.skipped = master.plan.skips

\* Saves that overlap mix (set_phases is no transaction); but the phases that a
\* save answered for, when nobody else was saving, are the scope until the next.
ScopeIsLastSave ==
  (\A t \in Savers : ~Saving(t)) /\ lastSave.clean
    => GetPhaseScope(scope, db) = lastSave.phases

\* A move-in leaves the queue only for a turnover made out of it, whatever fails
\* between the statements of resolve_missing_move_out.
ResolvedHaveTurnovers == \A r \in rows : r.resolved => r.turnover

\* Wherever orders are validated, the workbooks agree on whose an order is.  In the
\* validator's, an order that is unassigned, in progress or on hold is on one sheet of
\* its manager's people; in the reports none is twice on a sheet, an unassigned one is
\* on one manager's sheet of those, and a Make Ready one, whose unit a resident has
\* moved into lately, on its manager's alone.  Of other phases than Robert's the EAST
\* report lists Mabi's side of its overview and nothing else; of other phases than
\* Mabi's the WEST report, eleven of whose sections have no phase filter, lists orders
\* that are unassigned or that one of her people has.
OrdersOnTheirSheets ==
  "orders" \in scenario =>
    LET orders   == Validate
        workbook == BuildWorkOrderReport(orders)
    IN  /\ OnOneDesk(orders, workbook.Robert) /\ OnOneDesk(orders, workbook.Mabi)
        /\ PhaseSheetsDisjoint(orders)
        /\ MakeReadyOnce(orders) /\ UnassignedOnce(orders)
        /\ KeptToPhases(orders)
=============================================================================
