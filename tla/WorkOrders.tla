----------------------------- MODULE WorkOrders -----------------------------
(***************************************************************************)
(* The Active Service Request reports: which rows of the uploaded file the *)
(* validator's workbook and the WEST and EAST workbooks put on which       *)
(* sheet.  A validated row is [number, ph, assigned, status,               *)
(* wo_classification]; sorting, columns and colours are left out.          *)
(*                                                                         *)
(* The file is read by pandas, so an empty cell is a NaN, and NaN or ""    *)
(* is the NaN: str() makes it the text "nan".  Only a cell of blanks comes *)
(* out as the empty text.                                                  *)
(***************************************************************************)
EXTENDS Integers, FiniteSets, Sequences

\* str(row.get(column) or "").strip() of a cell of the file.
CellText(cell) == CASE cell = "empty" -> "nan" [] cell = "blanks" -> "" [] OTHER -> cell

-----------------------------------------------------------------------------
(* work_order_validator_service.py *)

MAKE_READY_MIN_DAYS == -7
MAKE_READY_MAX_DAYS == 15

\* _classify: NoDays stands for an unknown unit, move-in or creation date.
Classify(daysSince, NoDays) ==
  IF daysSince # NoDays /\ daysSince \in MAKE_READY_MIN_DAYS..MAKE_READY_MAX_DAYS
  THEN "Make Ready" ELSE "Service Technician"

AmenityLocations == {"FITNESS", "CLUBHOUSE", "GAME ROOM", "DINING"}
CommonAreaLocations == {"POOL", "GROUNDS", "EXTERIOR"}

\* _refine_service_technician_label, of a location without the pattern of a unit.
AreaLabel(location) ==
  CASE location \in AmenityLocations    -> "Service Tech - Amenities"
    [] location \in CommonAreaLocations -> "Service Tech - Common Area"
    [] OTHER                            -> "Service Technician"

GetSummary(rows) ==
  LET makeReady == Cardinality({r \in rows : r.wo_classification = "Make Ready"})
  IN  [total |-> Cardinality(rows), make_ready |-> makeReady,
       service_tech |-> Cardinality(rows) - makeReady]

-----------------------------------------------------------------------------
(* Filters: _filter_rows of active_sr_report.py, one per field of FilterParams. *)

In(rows, phases)    == {r \in rows : r.ph \in phases}
Of(rows, who)       == {r \in rows : r.assigned = who}
Having(rows, value) == {r \in rows : r.status = value}
Broad(rows)         == {r \in rows : r.assigned \in {"Unassigned", ""}}
Strict(rows)        == Of(rows, "Unassigned")

\* Mutant: a section copied from another keeps its status.
DeskTwice(rows, who) ==
  <<Having(Of(rows, who), "In progress"), Having(Of(rows, who), "In progress")>>

\* The two tables of a technician on a phase's sheet.
Desk(rows, who) == <<Having(Of(rows, who), "In progress"), Having(Of(rows, who), "On hold")>>

\* What the technicians of a "By tech" sheet have in progress, after their manager.
ByTech(rows, manager, techs) ==
  <<Of(rows, manager)>> \o [i \in 1..Len(techs) |-> Having(Of(rows, techs[i]), "In progress")]

MakeReady(rows) == {r \in rows : r.wo_classification = "Make Ready"}

-----------------------------------------------------------------------------
(* work_order_excel.build_work_order_report: the validator's own workbook *)

MABI_PHASES   == {"3", "4", "4C", "4S"}
ROBERT_PHASES == {"5", "7", "8"}

GroupForPhase(ph) ==
  IF ph \in ROBERT_PHASES THEN "Robert" ELSE IF ph \in MABI_PHASES THEN "Mabi" ELSE "Other"

Group(rows, manager) == {r \in rows : GroupForPhase(r.ph) = manager}

\* The sheets of one manager: all, unassigned, and one for each assignee.
GroupSheets(rows, manager) ==
  LET mine == Group(rows, manager)
  IN  [all        |-> mine,
       unassigned |-> Broad(mine),
       assignee   |-> [who \in {r.assigned : r \in mine \ Broad(mine)} |-> Desk(mine, who)]]

BuildWorkOrderReport(rows) ==
  [Robert |-> GroupSheets(rows, "Robert"),
   Mabi   |-> GroupSheets(rows, "Mabi"),
   Other  |-> Group(rows, "Other")]

-----------------------------------------------------------------------------
(* active_sr_report.py: the sections of each sheet, from left to right *)

PHASES_WEST == {"3", "4", "4C"}
PHASES_EAST == {"5", "7", "8"}

\* WEST_CONFIG (Mabi).  The sections of her technicians and one of the
\* unassigned ones have no phase filter.
WestOverview(rows) ==
  [ServiceRequest |-> <<In(rows, PHASES_WEST)>>,
   FullUnassign   |-> <<In(rows, PHASES_WEST), Strict(rows), Broad(In(rows, {"3"})),
                        Broad(In(rows, {"4"})), Broad(In(rows, {"4C"}))>>,
   ByTech         |-> ByTech(rows, "Mabi",
                        <<"Dennis", "Rayniel", "Alexander", "Diego", "Victor">>),
   Unassign       |-> <<Broad(In(rows, {"3"})), Broad(In(rows, {"4"})), Broad(In(rows, {"4C"}))>>]

WestPhases(rows) ==
  LET Here(ph) == In(rows, {ph})
  IN  [Phase3    |-> Desk(rows, "Alexander") \o <<Strict(Here("3"))>>
                       \o Desk(Here("3"), "Victor") \o Desk(Here("3"), "Dennis"),
       Phase4    |-> Desk(rows, "Rayniel") \o <<Strict(Here("4"))>>
                       \o Desk(Here("4"), "Diego") \o Desk(Here("4"), "Dennis"),
       Phase4c   |-> Desk(Here("4C"), "Victor") \o <<Strict(Here("4C"))>>,
       MakeReady |-> <<MakeReady(In(rows, PHASES_WEST))>>]

\* EAST_CONFIG (Robert).  Every section keeps to some phases.
EastOverview(rows) ==
  LET east == In(rows, PHASES_EAST)
      west == In(rows, PHASES_WEST)
  IN  [ServiceRequest |-> <<east>>,
       FullUnassign   |-> <<east, Strict(east), east, Broad(east), west, Broad(west)>>,
       ByTech         |-> ByTech(east, "Roberto", <<"Latrell", "Yomar", "Barron", "Antonio">>),
       Unassign       |-> [i \in 1..3 |-> Broad(In(rows, {<<"5", "7", "8">>[i]}))]]

EastPhases(rows) ==
  LET Here(ph) == In(rows, {ph})
  IN  [Phase5    |-> Desk(Here("5"), "Latrell") \o <<Strict(Here("5"))>>
                       \o Desk(Here("5"), "Yomar"),
       Phase7    |-> Desk(Here("7"), "Barron") \o <<Strict(Here("7"))>>,
       Phase8    |-> Desk(Here("8"), "Antonio") \o <<Strict(Here("8"))>>,
       MakeReady |-> <<MakeReady(In(rows, PHASES_EAST))>>]

-----------------------------------------------------------------------------
(* What the three workbooks make of a set of rows *)

\* How many of the sections list a row.
Listed(r, sections) == Cardinality({i \in 1..Len(sections) : r \in sections[i]})

\* The validator's workbook has a manager's orders that are unassigned, in progress
\* or on hold on one of their sheets, and once; the others, which are assigned and
\* have another status, on nobody's.
OnOneDesk(rows, sheets) ==
  \A r \in sheets.all :
    LET desks == {who \in DOMAIN sheets.assignee : Listed(r, sheets.assignee[who]) # 0}
    IN  /\ \A who \in desks : Listed(r, sheets.assignee[who]) = 1
        /\ Cardinality(desks) + (IF r \in sheets.unassigned THEN 1 ELSE 0)
             = IF r \in sheets.unassigned \/ r.status \in {"In progress", "On hold"} THEN 1 ELSE 0

\* No row is twice on a phase's sheet, nor on a sheet of unassigned orders.
PhaseSheetsDisjoint(rows) ==
  LET west == WestPhases(rows)
      east == EastPhases(rows)
  IN  \A sheet \in {west.Phase3, west.Phase4, west.Phase4c, east.Phase5, east.Phase7, east.Phase8}
                     \cup {o[s] : o \in {WestOverview(rows), EastOverview(rows)},
                                 s \in {"ByTech", "Unassign"}} :
        \A r \in rows : Listed(r, sheet) <= 1

\* A Make Ready order is on the Make Ready sheet of the manager whose group the
\* validator's workbook gives it to, and on nobody else's.  Phase 4S is the
\* exception: it is Mabi's in that workbook and in neither report.
MakeReadyOnce(rows) ==
  LET west == WestPhases(rows).MakeReady[1]
      east == EastPhases(rows).MakeReady[1]
  IN  \A r \in MakeReady(rows) :
        (IF r \in west THEN {"Mabi"} ELSE {}) \cup (IF r \in east THEN {"Robert"} ELSE {})
          = IF r.ph = "4S" THEN {} ELSE {GroupForPhase(r.ph)} \ {"Other"}

\* An unassigned order of a phase of the reports is in one section of one manager's
\* sheet of them.
UnassignedOnce(rows) ==
  LET west == WestOverview(rows).Unassign
      east == EastOverview(rows).Unassign
  IN  \A r \in Broad(rows) :
        Listed(r, west) + Listed(r, east) = IF r.ph \in PHASES_WEST \cup PHASES_EAST THEN 1 ELSE 0

\* Whose orders the WEST report lists without a phase filter.
MabisPeople == {"Mabi", "Dennis", "Rayniel", "Alexander", "Diego", "Victor"}

Shows(sheets, r) == \E s \in DOMAIN sheets : Listed(r, sheets[s]) # 0

\* What of other phases a report lists.  The EAST report, Robert's: what its overview
\* shows of Mabi's side, and no more.  The WEST report, Mabi's: orders of any phase
\* that are unassigned or that one of her people has.
KeptToPhases(rows) ==
  LET west == {WestOverview(rows), WestPhases(rows)}
      over == EastOverview(rows)
      east == EastPhases(rows)
  IN  \A r \in rows :
        /\ \A o \in west : Shows(o, r) => r.ph \in PHASES_WEST \/ r.assigned \in MabisPeople \cup {"Unassigned"}
        /\ Shows(east, r) => r.ph \in PHASES_EAST
        /\ \A s \in DOMAIN over :
             Listed(r, over[s]) # 0 => r.ph \in PHASES_EAST \/ (s = "FullUnassign" /\ r.ph \in PHASES_WEST)
=============================================================================
