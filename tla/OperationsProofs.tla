--------------------------- MODULE OperationsProofs ---------------------------
(***************************************************************************)
(* Theorems about Operations and its two parts, for any property, files,   *)
(* reports, savers and bounds: first those of Registry, then those of      *)
(* ReportQueues, last that a behaviour of the whole is one of each.        *)
(***************************************************************************)
EXTENDS Operations, FiniteSetTheorems, SequenceTheorems,
        WellFoundedInduction, TLAPS

-----------------------------------------------------------------------------
(* Tables of units, phases and buildings *)

Tabled(x) == x = [phases |-> x.phases, buildings |-> x.buildings, units |-> x.units]

\* What x has can be found in base: a unit's phase and building, a building's phase.
Fits(x, base) ==
  /\ Tabled(x)
  /\ \A u \in x.units : /\ u.phase # None => u.phase \in base.phases
                        /\ u.building # None => <<u.phase, u.building>> \in base.buildings
  /\ \A b \in x.buildings : b = <<b[1], b[2]>> /\ (b[1] # None => b[1] \in base.phases)

\* What a transaction has inserted fits what is committed, together with itself.
Sound(made, base) == Tabled(made) /\ Fits(made, Merged(base, made))

LEMMA MergedIs ==
  ASSUME NEW a, NEW b, Tabled(a)
  PROVE  /\ Tabled(Merged(a, b))
         /\ Merged(a, b).phases = a.phases \cup b.phases
         /\ Merged(a, b).buildings = a.buildings \cup b.buildings
         /\ Merged(a, b).units = a.units \cup b.units
<1>1. DOMAIN a = {"phases", "buildings", "units"}
  BY DEF Tabled
<1>2. Merged(a, b) = [table \in {"phases", "buildings", "units"} |-> a[table] \cup b[table]]
  BY <1>1 DEF Merged
<1> QED BY <1>2 DEF Tabled

\* What is inserted for a unit that the tables known do not have all of.
LEMMA InsertsAre ==
  ASSUME NEW code, NEW phase, NEW building, NEW known
  PROVE  LET made == Missing(RowsFor(code, phase, building), known)
         IN  /\ Tabled(made)
             /\ made.phases = ({phase} \ {None}) \ known.phases
             /\ made.buildings = (IF building = None THEN {} ELSE {<<phase, building>>}) \ known.buildings
             /\ made.units = {[code |-> code, phase |-> phase, building |-> building]} \ known.units
<1>1. DOMAIN RowsFor(code, phase, building) = {"phases", "buildings", "units"}
  BY DEF RowsFor
<1>2. Missing(RowsFor(code, phase, building), known) =
        [table \in {"phases", "buildings", "units"} |-> RowsFor(code, phase, building)[table] \ known[table]]
  BY <1>1 DEF Missing
<1> QED BY <1>2 DEF Tabled, RowsFor

\* A unit inserted with what known lacks is sound, if all known has is there.
LEMMA InsertSound ==
  ASSUME NEW base, Tabled(base), NEW made, Sound(made, base), NEW known,
         known.phases \subseteq base.phases \cup made.phases,
         known.buildings \subseteq base.buildings \cup made.buildings,
         NEW code, NEW phase, NEW building
  PROVE  Sound(Merged(made, Missing(RowsFor(code, phase, building), known)), base)
<1> DEFINE new == Missing(RowsFor(code, phase, building), known)
           more == Merged(made, new)
           all == Merged(base, made)
           now == Merged(base, more)
<1>1. /\ Tabled(new)
      /\ new.phases = ({phase} \ {None}) \ known.phases
      /\ new.buildings = (IF building = None THEN {} ELSE {<<phase, building>>}) \ known.buildings
      /\ new.units = {[code |-> code, phase |-> phase, building |-> building]} \ known.units
  BY InsertsAre
<1>2. /\ Tabled(more)
      /\ more.phases = made.phases \cup new.phases
      /\ more.buildings = made.buildings \cup new.buildings
      /\ more.units = made.units \cup new.units
  BY MergedIs DEF Sound
<1>3. /\ all.phases = base.phases \cup made.phases
      /\ all.buildings = base.buildings \cup made.buildings
  BY MergedIs
<1>4. /\ now.phases = base.phases \cup more.phases
      /\ now.buildings = base.buildings \cup more.buildings
  BY MergedIs
<1>5. Fits(made, all)
  BY DEF Sound
<1> HIDE DEF new, more, all, now
<1>6. \A u \in more.units : /\ u.phase # None => u.phase \in now.phases
                            /\ u.building # None => <<u.phase, u.building>> \in now.buildings
  <2>1. ASSUME NEW u \in made.units
        PROVE  /\ u.phase # None => u.phase \in now.phases
               /\ u.building # None => <<u.phase, u.building>> \in now.buildings
    BY <1>2, <1>3, <1>4, <1>5 DEF Fits
  <2>2. ASSUME NEW u \in new.units
        PROVE  /\ u.phase # None => u.phase \in now.phases
               /\ u.building # None => <<u.phase, u.building>> \in now.buildings
    <3>1. u = [code |-> code, phase |-> phase, building |-> building]
      BY <1>1
    <3>2. phase # None => phase \in now.phases
      BY <1>1, <1>2, <1>4
    <3>3. building # None => <<phase, building>> \in now.buildings
      BY <1>1, <1>2, <1>4
    <3> QED BY <3>1, <3>2, <3>3
  <2> QED BY <1>2, <2>1, <2>2
<1>7. \A b \in more.buildings : b = <<b[1], b[2]>> /\ (b[1] # None => b[1] \in now.phases)
  <2>1. ASSUME NEW b \in made.buildings
        PROVE  b = <<b[1], b[2]>> /\ (b[1] # None => b[1] \in now.phases)
    BY <1>2, <1>3, <1>4, <1>5 DEF Fits
  <2>2. ASSUME NEW b \in new.buildings
        PROVE  b = <<b[1], b[2]>> /\ (b[1] # None => b[1] \in now.phases)
    <3>1. b = <<phase, building>>
      BY <1>1
    <3>2. phase # None => phase \in now.phases
      BY <1>1, <1>2, <1>4
    <3> QED BY <3>1, <3>2
  <2> QED BY <1>2, <2>1, <2>2
<1> QED BY <1>2, <1>6, <1>7 DEF Sound, Fits, more, now, new

\* What was sound is still, when more has been committed; and it may be committed.
LEMMA StillSound ==
  ASSUME NEW base, Tabled(base), NEW more, Tabled(more),
         base.phases \subseteq more.phases, base.buildings \subseteq more.buildings,
         NEW made, Sound(made, base)
  PROVE  Sound(made, more)
<1>1. /\ Tabled(made) /\ Fits(made, Merged(base, made))
  BY DEF Sound
<1>2. /\ Merged(base, made).phases \subseteq Merged(more, made).phases
      /\ Merged(base, made).buildings \subseteq Merged(more, made).buildings
  BY MergedIs
<1> QED BY <1>1, <1>2 DEF Sound, Fits

LEMMA CommitFits ==
  ASSUME NEW base, Fits(base, base), NEW made, Sound(made, base)
  PROVE  Fits(Merged(base, made), Merged(base, made))
<1> DEFINE all == Merged(base, made)
<1>1. /\ Tabled(all)
      /\ all.phases = base.phases \cup made.phases
      /\ all.buildings = base.buildings \cup made.buildings
      /\ all.units = base.units \cup made.units
  BY MergedIs DEF Fits
<1>2. Fits(made, all)
  BY DEF Sound
<1> HIDE DEF all
<1> QED BY <1>1, <1>2 DEF Fits, all

LEMMA NothingSound ==
  ASSUME NEW base, Tabled(base)
  PROVE  Sound(NoRows, base)
BY DEF NoRows, Sound, Fits, Tabled

-----------------------------------------------------------------------------
(* Placement *)

MasterShape ==
  /\ master = [step |-> master.step, file |-> master.file, i |-> master.i, known |-> master.known,
               made |-> master.made, skipped |-> master.skipped, plan |-> master.plan,
               alone |-> master.alone]

ReportShape ==
  /\ report = [step |-> report.step, kind |-> report.kind, todo |-> report.todo,
               made |-> report.made, rows |-> report.rows, moveIns |-> report.moveIns]

\* Each part of the database refers only to what is there: what is committed, what
\* each transaction has inserted so far, and what the master import has cached.
PlaceInv ==
  /\ MasterShape /\ ReportShape
  /\ Tabled(db) /\ Fits(db, db) /\ Sound(master.made, db) /\ Sound(report.made, db)
  /\ Tabled(master.known)
  /\ master.known.phases \subseteq db.phases \cup master.made.phases
  /\ master.known.buildings \subseteq db.buildings \cup master.made.buildings

LEMMA InitPlaced == Init => PlaceInv
<1> SUFFICES ASSUME Init PROVE PlaceInv
  OBVIOUS
<1>1. db = NoRows /\ master = Idle /\ report = Quiet
  BY DEF Init
<1>2. Tabled(NoRows) /\ Fits(NoRows, NoRows)
  BY DEF Tabled, Fits, NoRows
<1>3. Idle.made = NoRows /\ Idle.known = NoRows /\ Quiet.made = NoRows
  BY DEF Idle, Quiet
<1>4. MasterShape /\ ReportShape
  BY <1>1 DEF MasterShape, ReportShape, Idle, Quiet
<1> QED BY <1>1, <1>2, <1>3, <1>4, NothingSound DEF PlaceInv

\* When rows are added to the database and neither transaction has moved.
LEMMA Grown ==
  ASSUME PlaceInv, UNCHANGED <<master, report>>, Fits(db', db'),
         db.phases \subseteq db'.phases, db.buildings \subseteq db'.buildings
  PROVE  PlaceInv'
<1>1. Tabled(db')
  BY DEF Fits
<1>2. Sound(master.made, db') /\ Sound(report.made, db')
  BY <1>1, StillSound DEF PlaceInv
<1> QED BY <1>1, <1>2 DEF PlaceInv, MasterShape, ReportShape

LEMMA StepPlaced == PlaceInv /\ [Next]_vars => PlaceInv'
<1> SUFFICES ASSUME PlaceInv, [Next]_vars PROVE PlaceInv'
  OBVIOUS
<1>1. ASSUME UNCHANGED <<db, master, report>> PROVE PlaceInv'
  BY <1>1 DEF PlaceInv, MasterShape, ReportShape
<1>2. ASSUME UNCHANGED <<db, report>>, MasterShape',
             master'.made = master.made \/ master'.made = NoRows,
             (master'.known = master.known /\ master'.made = master.made)
               \/ master'.known = NoRows \/ master'.known = [db EXCEPT !.units = {}]
      PROVE  PlaceInv'
  <2>1. Sound(master'.made, db)
    BY <1>2, NothingSound DEF PlaceInv
  <2>2. /\ Tabled(master'.known)
        /\ master'.known.phases \subseteq db.phases \cup master'.made.phases
        /\ master'.known.buildings \subseteq db.buildings \cup master'.made.buildings
    BY <1>2 DEF PlaceInv, Tabled, NoRows
  <2> QED BY <1>2, <2>1, <2>2 DEF PlaceInv, ReportShape
<1>3. CASE MasterBegin \/ MasterCache \/ MasterEnd
  <2>1. MasterShape'
    BY <1>3 DEF MasterBegin, MasterCache, MasterEnd, MasterShape, Idle, PlaceInv
  <2>2. CASE MasterBegin
    BY <2>1, <2>2, <1>2 DEF MasterBegin, Idle
  <2>3. CASE MasterCache
    BY <2>1, <2>3, <1>2 DEF MasterCache, PlaceInv, MasterShape
  <2>4. CASE MasterEnd
    BY <2>1, <2>4, <1>2 DEF MasterEnd, Idle
  <2> QED BY <1>3, <2>2, <2>3, <2>4
<1>4. CASE MasterRow
  <2> DEFINE r == master.file[master.i]
             new == MasterInserts(r)
  <2>1. CASE Has(Merged(db, master.made), r.code)
    <3>1. MasterShape' /\ master'.made = master.made /\ master'.known = master.known
      BY <1>4, <2>1 DEF MasterRow, MasterShape, PlaceInv
    <3> QED BY <1>2, <1>4, <3>1 DEF MasterRow
  <2>2. CASE ~Has(Merged(db, master.made), r.code)
    <3>1. /\ MasterShape' /\ UNCHANGED <<db, report>>
          /\ master'.made = Merged(master.made, new) /\ master'.known = Merged(master.known, new)
      BY <1>4, <2>2 DEF MasterRow, MasterShape, PlaceInv
    <3>2. Sound(Merged(master.made, new), db)
      BY InsertSound DEF PlaceInv, MasterInserts
    <3>3. /\ Tabled(Merged(master.known, new))
          /\ Merged(master.known, new).phases = master.known.phases \cup new.phases
          /\ Merged(master.known, new).buildings = master.known.buildings \cup new.buildings
      BY MergedIs DEF PlaceInv
    <3>4. /\ Merged(master.made, new).phases = master.made.phases \cup new.phases
          /\ Merged(master.made, new).buildings = master.made.buildings \cup new.buildings
      BY MergedIs DEF PlaceInv, Sound
    <3> HIDE DEF new
    <3> QED BY <3>1, <3>2, <3>3, <3>4 DEF PlaceInv, ReportShape
  <2> QED BY <2>1, <2>2
<1>5. CASE MasterCommit
  <2>1. /\ db' = Merged(db, master.made) /\ UNCHANGED report
        /\ MasterShape' /\ master'.made = master.made /\ master'.known = master.known
    BY <1>5 DEF MasterCommit, MasterShape, PlaceInv
  <2>2. Fits(db', db') /\ Tabled(db')
    BY <2>1, CommitFits DEF PlaceInv, Fits
  <2>3. db.phases \subseteq db'.phases /\ db.buildings \subseteq db'.buildings
    BY <2>1, MergedIs DEF PlaceInv
  <2>4. Sound(master.made, db') /\ Sound(report.made, db')
    BY <2>2, <2>3, StillSound DEF PlaceInv
  <2> QED BY <2>1, <2>2, <2>3, <2>4 DEF PlaceInv, ReportShape
<1>6. CASE CreateUnit
  <2>1. PICK code \in Codes, phase \in db.phases \cup {None} :
        \E building \in {b \in db.buildings : phase \in {None, b[1]}} \cup {<<phase, None>>} :
          db' = [db EXCEPT !.units = @ \cup {[code |-> code, phase |-> PlacementPhase(phase, building),
                                              building |-> building[2]]}]
    BY <1>6 DEF CreateUnit
  <2>2. PICK building \in {b \in db.buildings : phase \in {None, b[1]}} \cup {<<phase, None>>} :
          db' = [db EXCEPT !.units = @ \cup {[code |-> code, phase |-> PlacementPhase(phase, building),
                                              building |-> building[2]]}]
    BY <2>1
  <2> DEFINE u == [code |-> code, phase |-> PlacementPhase(phase, building), building |-> building[2]]
  <2>3. /\ db' = [phases |-> db.phases, buildings |-> db.buildings, units |-> db.units \cup {u}]
    BY <2>2 DEF PlaceInv, Tabled
  <2>4. /\ u.phase # None => u.phase \in db.phases
        /\ u.building # None => <<u.phase, u.building>> \in db.buildings
    <3>1. CASE building[2] = None
      BY <3>1, <2>1 DEF PlacementPhase
    <3>2. CASE building[2] # None
      <4>1. building \in db.buildings
        BY <3>2
      <4>2. /\ building[1] # None => building[1] \in db.phases
            /\ building = <<building[1], building[2]>>
        BY <4>1 DEF PlaceInv, Fits
      <4> QED BY <3>2, <4>1, <4>2 DEF PlacementPhase
    <3> QED BY <3>1, <3>2
  <2>5. Fits(db', db')
    <3> HIDE DEF u
    <3> QED BY <2>3, <2>4 DEF PlaceInv, Fits, Tabled
  <2> QED BY <1>6, <2>3, <2>5, Grown DEF CreateUnit
<1>7. CASE ReportBegin \/ ReportFail
  <2>1. UNCHANGED <<db, master>> /\ ReportShape' /\ report'.made = NoRows
    <3>1. CASE ReportBegin
      <4>1. PICK kind, todo : report' = [Quiet EXCEPT !.step = "rows", !.kind = kind, !.todo = todo]
        BY <3>1 DEF ReportBegin
      <4>2. report' = [step |-> "rows", kind |-> kind, todo |-> todo, made |-> NoRows,
                       rows |-> {}, moveIns |-> {}]
        BY <4>1 DEF Quiet
      <4> QED BY <3>1, <4>2 DEF ReportBegin, structure, ReportShape
    <3>2. CASE ReportFail
      BY <3>2 DEF ReportFail, Quiet, structure, ReportShape
    <3> QED BY <1>7, <3>1, <3>2
  <2> QED BY <2>1, NothingSound DEF PlaceInv, MasterShape
<1>8. CASE ReportRow
  <2>1. PICK raw \in report.todo :
          /\ ReportShape' /\ UNCHANGED <<db, master>>
          /\ report'.made = Merged(report.made,
               IF report.kind = "PENDING_FAS" THEN NoRows ELSE Creates(Norm(raw)))
    BY <1>8 DEF ReportRow, ReportShape, PlaceInv, structure
  <2> DEFINE code == Norm(raw)
  <2>2. CASE report'.made = Merged(report.made, NoRows)
    <3>1. report'.made = report.made
      <4>1. Tabled(report.made)
        BY DEF PlaceInv, Sound
      <4>2. /\ Tabled(report'.made)
            /\ report'.made.phases = report.made.phases /\ report'.made.buildings = report.made.buildings
            /\ report'.made.units = report.made.units
        <5> DEFINE same == Merged(report.made, NoRows)
        <5>1. /\ Tabled(same)
              /\ same.phases = report.made.phases \cup NoRows.phases
              /\ same.buildings = report.made.buildings \cup NoRows.buildings
              /\ same.units = report.made.units \cup NoRows.units
          BY <4>1, MergedIs
        <5>2. NoRows.phases = {} /\ NoRows.buildings = {} /\ NoRows.units = {}
          BY DEF NoRows
        <5>3. report'.made = same
          BY <2>2
        <5> HIDE DEF same
        <5> QED BY <5>1, <5>2, <5>3
      <4> QED BY <4>1, <4>2 DEF Tabled
    <3> QED BY <2>1, <3>1 DEF PlaceInv, MasterShape
  <2>3. CASE report'.made = Merged(report.made,
                  Missing(RowsFor(code, Parts(code)[1], Parts(code)[2]), Merged(db, report.made)))
    <3>1. /\ Merged(db, report.made).phases = db.phases \cup report.made.phases
          /\ Merged(db, report.made).buildings = db.buildings \cup report.made.buildings
      BY MergedIs DEF PlaceInv
    <3>2. Sound(report'.made, db)
      BY <2>3, <3>1, InsertSound DEF PlaceInv
    <3> QED BY <2>1, <3>2 DEF PlaceInv, MasterShape
  <2> QED BY <2>1, <2>2, <2>3 DEF Creates
<1>9. CASE ReportCommit
  <2>1. /\ db' = Merged(db, report.made) /\ ReportShape' /\ report'.made = NoRows
        /\ MasterShape' /\ master'.made = master.made /\ master'.known = master.known
    BY <1>9 DEF ReportCommit, MasterShape, ReportShape, PlaceInv, Quiet
  <2>2. Fits(db', db') /\ Tabled(db')
    BY <2>1, CommitFits DEF PlaceInv, Fits
  <2>3. db.phases \subseteq db'.phases /\ db.buildings \subseteq db'.buildings
    BY <2>1, MergedIs DEF PlaceInv
  <2>4. Sound(master.made, db') /\ Sound(NoRows, db')
    BY <2>2, <2>3, StillSound, NothingSound DEF PlaceInv
  <2> QED BY <2>1, <2>2, <2>3, <2>4 DEF PlaceInv
<1>10. CASE \E t \in Savers : \/ SaveBegin(t) \/ SaveUpsert(t) \/ SaveDelete(t)
                              \/ SaveInsert(t) \/ SaveEnd(t)
  BY <1>1, <1>10 DEF SaveBegin, SaveUpsert, SaveDelete, SaveInsert, SaveEnd, structure
<1>11. CASE IngestActivity
  BY <1>1, <1>11 DEF IngestActivity, structure
<1>12. CASE DeskCreate \/ DeskResolve \/ DeskFail \/ TurnoverEnds
  BY <1>1, <1>12 DEF DeskCreate, DeskResolve, DeskFail, TurnoverEnds, structure
<1>13. CASE UNCHANGED vars
  BY <1>1, <1>13 DEF vars
<1> QED BY <1>3, <1>4, <1>5, <1>6, <1>7, <1>8, <1>9, <1>10, <1>11, <1>12, <1>13 DEF Next

\* UnitsArePlaced: whoever creates units, phases and buildings at once, a unit's
\* phase and building exist, and the building is one of the phase.
THEOREM Placed == Spec => []UnitsArePlaced
<1>1. PlaceInv => UnitsArePlaced
  BY DEF PlaceInv, Fits, UnitsArePlaced
<1> QED BY <1>1, InitPlaced, StepPlaced, PTL DEF Spec

-----------------------------------------------------------------------------
(* The phase scope *)

LEMMA DbGrows == PlaceInv /\ [Next]_vars => db.phases \subseteq db'.phases
<1> SUFFICES ASSUME PlaceInv, [Next]_vars PROVE db.phases \subseteq db'.phases
  OBVIOUS
<1>1. ASSUME UNCHANGED db PROVE db.phases \subseteq db'.phases
  BY <1>1
<1>2. CASE MasterCommit \/ ReportCommit
  BY <1>2, MergedIs DEF MasterCommit, ReportCommit, PlaceInv
<1>3. CASE CreateUnit
  <2>1. PICK units : db' = [db EXCEPT !.units = units]
    BY <1>3 DEF CreateUnit
  <2> QED BY <2>1 DEF PlaceInv, Tabled
<1>4. CASE MasterBegin \/ MasterCache \/ MasterRow \/ MasterEnd
  BY <1>1, <1>4 DEF MasterBegin, MasterCache, MasterRow, MasterEnd
<1>5. CASE ReportBegin \/ ReportRow \/ ReportFail
  BY <1>1, <1>5 DEF ReportBegin, ReportRow, ReportFail, structure
<1>6. CASE \E t \in Savers : \/ SaveBegin(t) \/ SaveUpsert(t) \/ SaveDelete(t)
                             \/ SaveInsert(t) \/ SaveEnd(t)
  BY <1>1, <1>6 DEF SaveBegin, SaveUpsert, SaveDelete, SaveInsert, SaveEnd, structure
<1>7. CASE IngestActivity \/ DeskCreate \/ DeskResolve \/ DeskFail \/ TurnoverEnds
  BY <1>1, <1>7 DEF IngestActivity, DeskCreate, DeskResolve, DeskFail, TurnoverEnds, structure
<1>8. CASE UNCHANGED vars
  BY <1>1, <1>8 DEF vars
<1> QED BY <1>2, <1>3, <1>4, <1>5, <1>6, <1>7, <1>8 DEF Next

\* What a thread saves: phases there are, one by one.
SaverOK(s, phases) ==
  /\ s = [step |-> s.step, ask |-> s.ask, i |-> s.i, alone |-> s.alone]
  /\ s.step \in {"idle", "upsert", "delete", "insert"}
  /\ s.ask \in Seq(Phases) /\ ToSet(s.ask) \subseteq phases
  /\ s.i \in 1..(Len(s.ask) + 1) /\ (s.step \in {"upsert", "delete"} => s.i = 1)

\* What a save that nobody overlaps has done so far.
AloneSaves(t) ==
  Saving(t) /\ saver[t].alone =>
    /\ \A x \in Savers \ {t} : ~Saving(x)
    /\ saver[t].step \in {"delete", "insert"} => scope.saved
    /\ saver[t].step = "insert" => scope.phases = {saver[t].ask[j] : j \in 1..(saver[t].i - 1)}

SaversOK == /\ saver = [t \in Savers |-> saver[t]]
            /\ \A t \in Savers : SaverOK(saver[t], db.phases)

\* ScopeIsLastSave, and how a save gets there.
ScopeInv ==
  /\ SaversOK
  /\ scope = [saved |-> scope.saved, phases |-> scope.phases]
  /\ scope.phases \subseteq db.phases
  /\ \A t \in Savers : AloneSaves(t)
  /\ (\A t \in Savers : ~Saving(t)) /\ lastSave.clean
       => scope.saved /\ scope.phases = lastSave.phases

LEMMA SaverIs ==
  ASSUME NEW step \in {"idle", "upsert", "delete", "insert"},
         NEW ask \in Seq(Phases), NEW phases, ToSet(ask) \subseteq phases,
         NEW i \in 1..(Len(ask) + 1), step \in {"upsert", "delete"} => i = 1, NEW alone
  PROVE  SaverOK([step |-> step, ask |-> ask, i |-> i, alone |-> alone], phases)
BY DEF SaverOK

LEMMA SaverExcept ==
  ASSUME NEW s, s = [step |-> s.step, ask |-> s.ask, i |-> s.i, alone |-> s.alone], NEW x
  PROVE  /\ [s EXCEPT !.step = x] = [step |-> x, ask |-> s.ask, i |-> s.i, alone |-> s.alone]
         /\ [s EXCEPT !.i = x] = [step |-> s.step, ask |-> s.ask, i |-> x, alone |-> s.alone]
         /\ [s EXCEPT !.alone = x] = [step |-> s.step, ask |-> s.ask, i |-> s.i, alone |-> x]
<1>1. DOMAIN s = {"step", "ask", "i", "alone"}
  OBVIOUS
<1> QED BY <1>1

LEMMA WaitingOK == Waiting.step = "idle" /\ \A phases : SaverOK(Waiting, phases)
<1>1. <<>> \in Seq(Phases) /\ ToSet(<<>>) = {} /\ Len(<<>>) = 0
  BY DEF ToSet
<1> QED BY <1>1 DEF Waiting, SaverOK

LEMMA InitScope == Init => ScopeInv
<1> SUFFICES ASSUME Init PROVE ScopeInv
  OBVIOUS
<1>1. saver = [t \in Savers |-> Waiting]
  BY DEF Init
<1>2. SaversOK /\ \A t \in Savers : ~Saving(t)
  BY <1>1, WaitingOK DEF SaversOK, Saving
<1>3. scope = [saved |-> FALSE, phases |-> {}] /\ ~lastSave.clean
  BY DEF Init, Unsaved
<1> QED BY <1>2, <1>3 DEF ScopeInv, AloneSaves

LEMMA StepScope == ScopeInv /\ PlaceInv /\ [Next]_vars => ScopeInv'
<1> SUFFICES ASSUME ScopeInv, PlaceInv, [Next]_vars PROVE ScopeInv'
  OBVIOUS
<1>1. db.phases \subseteq db'.phases
  BY DbGrows
<1>2. ASSUME NEW s, SaverOK(s, db.phases) PROVE SaverOK(s, db'.phases)
  BY <1>1, <1>2 DEF SaverOK
<1>3. ASSUME UNCHANGED <<scope, saver, lastSave>> PROVE ScopeInv'
  BY <1>1, <1>2, <1>3 DEF ScopeInv, SaversOK, AloneSaves, Saving
<1>4. ASSUME NEW t \in Savers, SaveBegin(t) PROVE ScopeInv'
  <2>1. PICK ask \in Saves :
          /\ ToSet(ask) \subseteq db.phases
          /\ saver' = [w \in Savers |->
               IF w = t THEN [Waiting EXCEPT !.step = "upsert", !.ask = ask,
                                             !.alone = \A x \in Savers : ~Saving(x)]
               ELSE [saver[w] EXCEPT !.alone = ~Saving(w)]]
    BY <1>4 DEF SaveBegin
  <2>2. /\ saver'[t].step = "upsert" /\ saver'[t].ask = ask /\ saver'[t].i = 1
        /\ saver'[t].alone <=> \A x \in Savers : ~Saving(x)
    BY <2>1 DEF Waiting
  <2>3. SaverOK(saver'[t], db.phases)
    <3>1. ask \in Seq(Phases)
      BY RegistryConstants
    <3> DEFINE b == \A x \in Savers : ~Saving(x)
    <3>2. saver'[t] = [Waiting EXCEPT !.step = "upsert", !.ask = ask, !.alone = b]
      BY <2>1
    <3> HIDE DEF b
    <3>3. saver'[t] = [step |-> "upsert", ask |-> ask, i |-> 1, alone |-> b]
      BY <3>2 DEF Waiting
    <3>4. 1 \in 1..(Len(ask) + 1)
      BY <3>1
    <3>5. SaverOK([step |-> "upsert", ask |-> ask, i |-> 1, alone |-> b], db.phases)
      <4>1. ToSet(ask) \subseteq db.phases
        BY <2>1
      <4> QED BY <3>1, <3>4, <4>1 DEF SaverOK
    <3> QED BY <3>3, <3>5
  <2>4. ASSUME NEW w \in Savers \ {t}
        PROVE  /\ saver'[w].step = saver[w].step /\ SaverOK(saver'[w], db.phases)
               /\ saver'[w].alone <=> ~Saving(w)
    <3>1. SaverOK(saver[w], db.phases)
      BY DEF ScopeInv, SaversOK
    <3> DEFINE b == ~Saving(w)
    <3>2. saver'[w] = [saver[w] EXCEPT !.alone = b]
      BY <2>1
    <3> HIDE DEF b
    <3>3. saver'[w] = [step |-> saver[w].step, ask |-> saver[w].ask, i |-> saver[w].i, alone |-> b]
      BY <3>1, <3>2, SaverExcept DEF SaverOK
    <3>4. SaverOK(saver'[w], db.phases)
      BY <3>1, <3>3, SaverIs DEF SaverOK
    <3>5. saver'[w].step = saver[w].step /\ saver'[w].alone = b
      BY <3>3
    <3> QED BY <3>4, <3>5 DEF b
  <2>5. SaversOK'
    BY <1>2, <2>1, <2>3, <2>4 DEF SaversOK
  <2>6. UNCHANGED <<scope, lastSave>>
    BY <1>4 DEF SaveBegin
  <2>7. \A w \in Savers : AloneSaves(w)'
    BY <2>2, <2>4, <2>6 DEF AloneSaves, Saving
  <2>8. Saving(t)'
    BY <2>2 DEF Saving
  <2> QED BY <1>1, <2>5, <2>6, <2>7, <2>8 DEF ScopeInv
<1>5. ASSUME NEW t \in Savers, Saving(t), NEW s, saver' = [saver EXCEPT ![t] = s],
             SaverOK(s, db.phases), s.alone = saver[t].alone, s.step # "idle",
             scope' = [saved |-> scope'.saved, phases |-> scope'.phases],
             scope'.phases \subseteq db.phases,
             s.alone =>
               /\ s.step \in {"delete", "insert"} => scope'.saved
               /\ s.step = "insert" => scope'.phases = {s.ask[j] : j \in 1..(s.i - 1)}
      PROVE  ScopeInv'
  <2>1. saver'[t] = s /\ \A w \in Savers \ {t} : saver'[w] = saver[w]
    BY <1>5 DEF ScopeInv, SaversOK
  <2>2. SaversOK'
    BY <1>2, <1>5, <2>1 DEF ScopeInv, SaversOK
  <2>3. \A w \in Savers : AloneSaves(w)'
    <3>1. AloneSaves(t)'
      <4>1. AloneSaves(t)
        BY DEF ScopeInv
      <4>2. s.alone => \A x \in Savers \ {t} : ~Saving(x)'
        BY <1>5, <2>1, <4>1 DEF AloneSaves, Saving
      <4> QED BY <1>5, <2>1, <4>2 DEF AloneSaves
    <3>2. ASSUME NEW w \in Savers \ {t} PROVE ~(Saving(w)' /\ saver'[w].alone)
      BY <1>5, <2>1, <3>2 DEF ScopeInv, AloneSaves, Saving
    <3> QED BY <3>1, <3>2 DEF AloneSaves
  <2>4. Saving(t)'
    BY <1>5, <2>1 DEF Saving
  <2> QED BY <1>1, <1>5, <2>2, <2>3, <2>4 DEF ScopeInv
<1>6. ASSUME NEW t \in Savers
      PROVE  /\ saver[t] = [step |-> saver[t].step, ask |-> saver[t].ask, i |-> saver[t].i,
                            alone |-> saver[t].alone]
             /\ SaverOK(saver[t], db.phases) /\ AloneSaves(t)
  BY DEF ScopeInv, SaversOK, SaverOK
<1>7. ASSUME NEW t \in Savers, SaveUpsert(t) PROVE ScopeInv'
  <2> DEFINE s == [saver[t] EXCEPT !.step = "delete"]
  <2>1. saver' = [saver EXCEPT ![t] = s] /\ scope' = [saved |-> TRUE, phases |-> scope.phases]
    BY <1>7 DEF SaveUpsert, ScopeInv, SaversOK
  <2>2. s = [step |-> "delete", ask |-> saver[t].ask, i |-> saver[t].i, alone |-> saver[t].alone]
    BY <1>6, SaverExcept
  <2>3. Saving(t) /\ saver[t].step = "upsert"
    BY <1>7 DEF SaveUpsert, Saving
  <2>4. SaverOK(s, db.phases)
    BY <1>6, <2>2, <2>3 DEF SaverOK
  <2>5. s.alone = saver[t].alone /\ s.step = "delete"
    BY <2>2
  <2>6. scope'.saved /\ scope'.phases = scope.phases /\ scope.phases \subseteq db.phases
    BY <2>1 DEF ScopeInv
  <2>7. scope' = [saved |-> scope'.saved, phases |-> scope'.phases]
    BY <2>1
  <2> HIDE DEF s
  <2> QED BY <1>5, <2>1, <2>3, <2>4, <2>5, <2>6, <2>7
<1>8. ASSUME NEW t \in Savers, SaveDelete(t) PROVE ScopeInv'
  <2> DEFINE s == [saver[t] EXCEPT !.step = "insert"]
  <2>1. saver' = [saver EXCEPT ![t] = s] /\ scope' = [saved |-> scope.saved, phases |-> {}]
    BY <1>8 DEF SaveDelete, ScopeInv, SaversOK
  <2>2. s = [step |-> "insert", ask |-> saver[t].ask, i |-> saver[t].i, alone |-> saver[t].alone]
    BY <1>6, SaverExcept
  <2>3. Saving(t) /\ saver[t].step = "delete" /\ saver[t].i = 1
    BY <1>6, <1>8 DEF SaveDelete, Saving, SaverOK
  <2>4. SaverOK(s, db.phases)
    BY <1>6, <2>2, <2>3 DEF SaverOK
  <2>5. s.alone => scope.saved
    BY <1>6, <2>2, <2>3 DEF AloneSaves
  <2>6. {s.ask[j] : j \in 1..(s.i - 1)} = {}
    BY <2>2, <2>3
  <2>7. s.alone = saver[t].alone /\ s.step = "insert"
    BY <2>2
  <2>8. scope' = [saved |-> scope'.saved, phases |-> scope'.phases]
    BY <2>1
  <2>9. scope'.saved = scope.saved /\ scope'.phases = {}
    BY <2>1
  <2> HIDE DEF s
  <2> QED BY <1>5, <2>1, <2>3, <2>4, <2>5, <2>6, <2>7, <2>8, <2>9
<1>9. ASSUME NEW t \in Savers, SaveInsert(t) PROVE ScopeInv'
  <2> DEFINE k == saver[t].i
             ask == saver[t].ask
             s == [saver[t] EXCEPT !.i = @ + 1]
  <2>1. /\ saver' = [saver EXCEPT ![t] = s]
        /\ scope' = [saved |-> scope.saved, phases |-> scope.phases \cup {ask[k]}]
    BY <1>9 DEF SaveInsert, ScopeInv, SaversOK
  <2>2. s = [step |-> saver[t].step, ask |-> ask, i |-> k + 1, alone |-> saver[t].alone]
    <3>1. s = [saver[t] EXCEPT !.i = k + 1]
      OBVIOUS
    <3> HIDE DEF s
    <3> QED BY <1>6, <3>1, SaverExcept
  <2>3. Saving(t) /\ saver[t].step = "insert" /\ k <= Len(ask)
    BY <1>9 DEF SaveInsert, Saving
  <2>4. ask \in Seq(Phases) /\ ToSet(ask) \subseteq db.phases /\ k \in 1..Len(ask)
    <3>1. ask \in Seq(Phases) /\ ToSet(ask) \subseteq db.phases /\ k \in 1..(Len(ask) + 1)
      BY <1>6 DEF SaverOK
    <3> HIDE DEF ask, k
    <3> QED BY <2>3, <3>1
  <2>5. SaverOK(s, db.phases)
    BY <2>2, <2>3, <2>4 DEF SaverOK
  <2>6. ask[k] \in db.phases
    BY <2>4 DEF ToSet
  <2>7. s.alone => scope.saved /\ scope.phases \cup {ask[k]} = {s.ask[j] : j \in 1..(s.i - 1)}
    <3> SUFFICES ASSUME s.alone
                 PROVE  scope.saved /\ scope.phases \cup {ask[k]} = {s.ask[j] : j \in 1..(s.i - 1)}
      OBVIOUS
    <3>1. scope.saved /\ scope.phases = {ask[j] : j \in 1..(k - 1)}
      BY <1>6, <2>2, <2>3 DEF AloneSaves
    <3>2. 1..k = 1..(k - 1) \cup {k}
      BY <2>4
    <3>3. s.ask = ask /\ s.i - 1 = k
      BY <2>2, <2>4
    <3> HIDE DEF s, ask, k
    <3> QED BY <3>1, <3>2, <3>3
  <2>8. scope.phases \cup {ask[k]} \subseteq db.phases
    BY <2>6 DEF ScopeInv
  <2>9. s.alone = saver[t].alone /\ s.step = "insert"
    BY <2>2, <2>3
  <2> HIDE DEF s, ask, k
  <2> QED BY <1>5, <2>1, <2>3, <2>5, <2>7, <2>8, <2>9
<1>10. ASSUME NEW t \in Savers, SaveEnd(t) PROVE ScopeInv'
  <2> DEFINE s == saver[t]
  <2>1. /\ saver' = [saver EXCEPT ![t] = Waiting] /\ scope' = scope
        /\ lastSave' = [phases |-> ToSet(s.ask),
                        clean |-> s.alone /\ s.step = "insert" /\ s.i > Len(s.ask)]
    BY <1>10 DEF SaveEnd
  <2>2. saver'[t] = Waiting /\ \A w \in Savers \ {t} : saver'[w] = saver[w]
    BY <2>1 DEF ScopeInv, SaversOK
  <2>3. SaverOK(Waiting, db.phases) /\ Waiting.step = "idle"
    BY DEF SaverOK, Waiting, ToSet
  <2>4. SaversOK'
    BY <1>2, <2>1, <2>2, <2>3 DEF ScopeInv, SaversOK
  <2>5. \A w \in Savers : AloneSaves(w)'
    BY <2>1, <2>2, <2>3 DEF ScopeInv, AloneSaves, Saving
  <2>6. lastSave'.clean => scope'.saved /\ scope'.phases = lastSave'.phases
    <3> SUFFICES ASSUME lastSave'.clean PROVE scope.saved /\ scope.phases = ToSet(s.ask)
      BY <2>1
    <3>1. s.alone /\ s.step = "insert" /\ s.i > Len(s.ask)
      BY <2>1
    <3>2. s.ask \in Seq(Phases) /\ s.i - 1 = Len(s.ask)
      <4>1. s.ask \in Seq(Phases) /\ s.i \in 1..(Len(s.ask) + 1)
        BY <1>6 DEF SaverOK
      <4>2. Len(s.ask) \in Nat
        BY <4>1
      <4> QED BY <3>1, <4>1, <4>2
    <3>3. scope.saved /\ scope.phases = {s.ask[j] : j \in 1..(s.i - 1)}
      BY <1>6, <3>1 DEF AloneSaves, Saving
    <3>4. DOMAIN s.ask = 1..(s.i - 1)
      BY <3>2
    <3> QED BY <3>3, <3>4 DEF ToSet
  <2> QED BY <1>1, <2>1, <2>4, <2>5, <2>6 DEF ScopeInv
<1>11. CASE MasterBegin \/ MasterCache \/ MasterRow \/ MasterCommit \/ MasterEnd \/ CreateUnit
  BY <1>3, <1>11 DEF MasterBegin, MasterCache, MasterRow, MasterCommit, MasterEnd, CreateUnit, scoping
<1>12. CASE ReportBegin \/ ReportRow \/ ReportCommit \/ ReportFail
  BY <1>3, <1>12 DEF ReportBegin, ReportRow, ReportCommit, ReportFail, scoping
<1>13. CASE IngestActivity \/ DeskCreate \/ DeskResolve \/ DeskFail \/ TurnoverEnds
  BY <1>3, <1>13 DEF IngestActivity, DeskCreate, DeskResolve, DeskFail, TurnoverEnds, scoping
<1>14. CASE UNCHANGED vars
  BY <1>3, <1>14 DEF vars
<1> QED BY <1>4, <1>7, <1>8, <1>9, <1>10, <1>11, <1>12, <1>13, <1>14 DEF Next

\* ScopeIsLastSave: the statements of a save that nobody overlaps end in its phases.
THEOREM ScopeSaved == Spec => []ScopeIsLastSave
<1>1. Init => ScopeInv /\ PlaceInv
  BY InitScope, InitPlaced
<1>2. ScopeInv /\ PlaceInv /\ [Next]_vars => (ScopeInv /\ PlaceInv)'
  BY StepScope, StepPlaced
<1>3. ScopeInv => ScopeIsLastSave
  BY DEF ScopeInv, ScopeIsLastSave, GetPhaseScope
<1> QED BY <1>1, <1>2, <1>3, PTL DEF Spec

-----------------------------------------------------------------------------
(* The queue of missing move-outs *)

RowIs(r) == r = [id |-> r.id, kind |-> r.kind, code |-> r.code, day |-> r.day, status |-> r.status,
                 resolved |-> r.resolved, turnover |-> r.turnover]

LEMMA RowExcept ==
  ASSUME NEW r, RowIs(r), NEW x
  PROVE  [r EXCEPT !.turnover = x] =
           [id |-> r.id, kind |-> r.kind, code |-> r.code, day |-> r.day,
            status |-> r.status, resolved |-> r.resolved, turnover |-> x]
<1>1. DOMAIN r = {"id", "kind", "code", "day", "status", "resolved", "turnover"}
  BY DEF RowIs
<1> QED BY <1>1

\* Rows numbered lo + 1 and on, each once.
Numbered(set, lo) ==
  /\ IsFiniteSet(set) /\ Cardinality(set) \in Nat
  /\ \A r \in set : RowIs(r) /\ r.id \in (lo + 1)..(lo + Cardinality(set))
  /\ \A r, q \in set : r.id = q.id => r = q

\* A row number names one row, also across those a report is about to add; so the
\* row that a resolution has marked is the one that its turnover was made out of.
QueueInv ==
  /\ ReportShape
  /\ Numbered(rows, 0) /\ Numbered(report.rows, Cardinality(rows))
  /\ \A r \in report.rows : r.resolved = FALSE
  /\ desk.step = "created" =>
       /\ desk.row \in 1..Cardinality(rows)
       /\ \A r \in rows : r.id = desk.row => r.turnover
  /\ ResolvedHaveTurnovers

LEMMA NoneNumbered == \A lo \in Nat : Numbered({}, lo)
BY FS_EmptySet DEF Numbered

\* A row of the next number is a new one.
LEMMA OneMore ==
  ASSUME NEW lo \in Nat, NEW set, Numbered(set, lo), NEW r, RowIs(r),
         r.id = lo + Cardinality(set) + 1
  PROVE  Numbered(set \cup {r}, lo)
<1>1. \A q \in set : q.id # r.id /\ q # r
  BY DEF Numbered
<1>2. IsFiniteSet(set \cup {r}) /\ Cardinality(set \cup {r}) = Cardinality(set) + 1
  BY <1>1, FS_AddElement DEF Numbered
<1>3. \A q \in set \cup {r} : RowIs(q) /\ q.id \in (lo + 1)..(lo + Cardinality(set \cup {r}))
  BY <1>2 DEF Numbered
<1> QED BY <1>1, <1>2, <1>3 DEF Numbered

\* The rows of a report follow on.
LEMMA Appended ==
  ASSUME NEW set, Numbered(set, 0), NEW more, Numbered(more, Cardinality(set))
  PROVE  Numbered(set \cup more, 0)
<1>1. set \cap more = {}
  BY DEF Numbered
<1>2. /\ IsFiniteSet(set \cup more)
      /\ Cardinality(set \cup more) = Cardinality(set) + Cardinality(more)
  <2>1. Cardinality(set \cap more) = 0
    BY <1>1, FS_EmptySet
  <2>2. /\ IsFiniteSet(set) /\ Cardinality(set) \in Nat
        /\ IsFiniteSet(more) /\ Cardinality(more) \in Nat
    BY DEF Numbered
  <2>3. /\ IsFiniteSet(set \cup more)
        /\ Cardinality(set \cup more) = Cardinality(set) + Cardinality(more) - Cardinality(set \cap more)
    BY <2>2, FS_Union
  <2> QED BY <2>1, <2>2, <2>3
<1>3. \A r \in set \cup more : RowIs(r) /\ r.id \in 1..Cardinality(set \cup more)
  BY <1>2 DEF Numbered
<1>4. \A r \in set, q \in more : r.id # q.id
  BY DEF Numbered
<1> QED BY <1>2, <1>3, <1>4 DEF Numbered

\* A change of rows that leaves their numbers leaves as many.
LEMMA Renewed ==
  ASSUME NEW set, Numbered(set, 0), NEW f, f = [r \in set |-> f[r]],
         \A r \in set : RowIs(f[r]) /\ f[r].id = r.id
  PROVE  LET new == {f[r] : r \in set}
         IN  Numbered(new, 0) /\ Cardinality(new) = Cardinality(set)
<1> DEFINE new == {f[r] : r \in set}
<1>1. f \in Bijection(set, new)
  BY DEF Bijection, Injection, Surjection, IsInjective, Numbered
<1>2. IsFiniteSet(new) /\ Cardinality(new) = Cardinality(set)
  BY <1>1, FS_Bijection DEF ExistsBijection, Numbered
<1>3. \A r \in new : RowIs(r) /\ r.id \in 1..Cardinality(new)
  BY <1>2 DEF Numbered
<1>4. \A r, q \in new : r.id = q.id => r = q
  BY DEF Numbered
<1>5. Cardinality(new) \in Nat
  BY <1>2 DEF Numbered
<1> HIDE DEF new
<1>6. Numbered(new, 0)
  BY <1>2, <1>3, <1>4, <1>5 DEF Numbered
<1> QED BY <1>2, <1>6 DEF new

LEMMA InitQueue == Init => QueueInv
<1> SUFFICES ASSUME Init PROVE QueueInv
  OBVIOUS
<1>1. rows = {} /\ report.rows = {} /\ desk.step = "idle" /\ ReportShape
  BY DEF Init, Quiet, AtRest, ReportShape
<1>2. Cardinality(rows) = 0
  BY <1>1, FS_EmptySet
<1> QED BY <1>1, <1>2, NoneNumbered DEF QueueInv, ResolvedHaveTurnovers

LEMMA StepQueue == QueueInv /\ [Next]_vars => QueueInv'
<1> SUFFICES ASSUME QueueInv, [Next]_vars PROVE QueueInv'
  OBVIOUS
<1> USE DEF QueueInv
<1>0. Cardinality(rows) \in Nat
  BY DEF Numbered
<1>1. ASSUME UNCHANGED <<report, rows, desk>> PROVE QueueInv'
  BY <1>1 DEF ReportShape, ResolvedHaveTurnovers
<1>2. CASE ReportBegin \/ ReportFail
  <2>1. ReportShape' /\ report'.rows = {}
    <3>1. CASE ReportBegin
      <4>1. PICK kind, todo : report' = [Quiet EXCEPT !.step = "rows", !.kind = kind, !.todo = todo]
        BY <3>1 DEF ReportBegin
      <4>2. report' = [step |-> "rows", kind |-> kind, todo |-> todo, made |-> NoRows,
                       rows |-> {}, moveIns |-> {}]
        BY <4>1 DEF Quiet
      <4> QED BY <4>2 DEF ReportShape
    <3>2. CASE ReportFail
      BY <3>2 DEF ReportFail, Quiet, ReportShape
    <3> QED BY <1>2, <3>1, <3>2
  <2>2. UNCHANGED <<rows, desk>>
    BY <1>2 DEF ReportBegin, ReportFail, queue
  <2> QED BY <1>0, <2>1, <2>2, NoneNumbered DEF ResolvedHaveTurnovers
<1>3. CASE ReportRow
  <2>1. UNCHANGED <<rows, desk>> /\ ReportShape'
    BY <1>3 DEF ReportRow, queue, ReportShape
  <2>2. CASE report'.rows = report.rows
    BY <2>1, <2>2 DEF ResolvedHaveTurnovers
  <2>3. CASE \E r : /\ report'.rows = report.rows \cup {r} /\ RowIs(r)
                    /\ r.id = NextRow /\ r.resolved = FALSE
    <3>1. PICK r : /\ report'.rows = report.rows \cup {r} /\ RowIs(r)
                   /\ r.id = NextRow /\ r.resolved = FALSE
      BY <2>3
    <3>2. Numbered(report'.rows, Cardinality(rows))
      BY <1>0, <3>1, OneMore DEF NextRow
    <3> QED BY <2>1, <3>1, <3>2 DEF ResolvedHaveTurnovers
  <2>4. CASE report.kind # "AVAILABLE_UNITS"
    <3>1. PICK code, day, fine :
            report'.rows = report.rows \cup
              {[id |-> NextRow, kind |-> report.kind, code |-> code, day |-> day,
                status |-> IF fine THEN "OK" ELSE "CONFLICT", resolved |-> FALSE, turnover |-> FALSE]}
      BY <1>3, <2>4 DEF ReportRow, ReportShape
    <3> QED BY <2>3, <3>1 DEF RowIs
  <2>5. CASE report.kind = "AVAILABLE_UNITS"
    <3>1. report'.rows = report.rows
      BY <1>3, <2>5 DEF ReportRow, ReportShape
    <3> QED BY <2>2, <3>1
  <2> QED BY <2>4, <2>5
<1>4. CASE ReportCommit
  <2>1. rows' = rows \cup report.rows /\ UNCHANGED desk /\ ReportShape' /\ report'.rows = {}
    BY <1>4 DEF ReportCommit, Quiet, ReportShape
  <2>2. Numbered(rows', 0)
    BY <2>1, Appended
  <2>3. Cardinality(rows') \in Nat /\ Cardinality(rows) <= Cardinality(rows')
    <3>1. IsFiniteSet(rows') /\ rows \subseteq rows'
      BY <2>1, <2>2 DEF Numbered
    <3> QED BY <2>2, <3>1, FS_Subset DEF Numbered
  <2>4. ResolvedHaveTurnovers'
    BY <2>1 DEF ResolvedHaveTurnovers
  <2>5. desk.step = "created" => \A r \in report.rows : r.id # desk.row
    BY <1>0 DEF Numbered
  <2>6. desk.step = "created" => desk.row \in 1..Cardinality(rows')
    BY <1>0, <2>3
  <2> QED BY <2>1, <2>2, <2>3, <2>4, <2>5, <2>6, NoneNumbered
<1>5. CASE DeskCreate
  <2>1. PICK r \in rows :
          /\ rows' = (rows \ {r}) \cup {[r EXCEPT !.turnover = TRUE]}
          /\ desk' = [step |-> "created", row |-> r.id]
    BY <1>5 DEF DeskCreate, MissingMoveOuts
  <2> DEFINE new == [r EXCEPT !.turnover = TRUE]
             f == [q \in rows |-> IF q = r THEN new ELSE q]
  <2>2. new.id = r.id /\ new.turnover = TRUE /\ new.resolved = r.resolved /\ RowIs(new)
    <3>1. RowIs(r)
      BY DEF Numbered
    <3>3. new = [id |-> r.id, kind |-> r.kind, code |-> r.code, day |-> r.day,
                 status |-> r.status, resolved |-> r.resolved, turnover |-> TRUE]
      BY <3>1, RowExcept
    <3> HIDE DEF new
    <3> QED BY <3>3 DEF RowIs
  <2>3. rows' = {f[q] : q \in rows}
    BY <2>1
  <2>4. \A q \in rows : RowIs(f[q]) /\ f[q].id = q.id
    BY <2>2 DEF Numbered
  <2>5. f = [q \in rows |-> f[q]]
    OBVIOUS
  <2> HIDE DEF f, new
  <2>6. Numbered(rows', 0) /\ Cardinality(rows') = Cardinality(rows)
    BY <2>3, <2>4, <2>5, Renewed
  <2>7. UNCHANGED report /\ ReportShape'
    BY <1>5 DEF DeskCreate, ReportShape
  <2>8. r.id \in 1..Cardinality(rows) /\ \A q \in rows : q.id = r.id => q = r
    BY DEF Numbered
  <2>9. \A q \in rows' : q = new \/ (q \in rows /\ q # r)
    BY <2>1 DEF new
  <2> QED BY <2>1, <2>2, <2>6, <2>7, <2>8, <2>9 DEF ResolvedHaveTurnovers
<1>6. CASE DeskResolve
  <2> DEFINE new(r) == [r EXCEPT !.resolved = @ \/ r.id = desk.row]
             f == [r \in rows |-> new(r)]
  <2>1. desk.step = "created" /\ rows' = {new(r) : r \in rows} /\ desk' = AtRest
    BY <1>6 DEF DeskResolve
  <2>2. ASSUME NEW r \in rows
        PROVE  /\ RowIs(new(r)) /\ new(r).id = r.id /\ new(r).turnover = r.turnover
               /\ new(r).resolved => r.turnover
    <3>1. RowIs(r)
      BY DEF Numbered
    <3>2. DOMAIN r = {"id", "kind", "code", "day", "status", "resolved", "turnover"}
      BY <3>1 DEF RowIs
    <3>3. new(r).resolved = (r.resolved \/ r.id = desk.row)
      BY <3>2
    <3>4. RowIs(new(r)) /\ new(r).id = r.id /\ new(r).turnover = r.turnover
      BY <3>1, <3>2 DEF RowIs
    <3> QED BY <2>1, <3>3, <3>4 DEF ResolvedHaveTurnovers
  <2> HIDE DEF new
  <2>3. rows' = {f[r] : r \in rows} /\ f = [r \in rows |-> f[r]]
    BY <2>1
  <2>4. \A r \in rows : RowIs(f[r]) /\ f[r].id = r.id
    BY <2>2
  <2> HIDE DEF f
  <2>5. Numbered(rows', 0) /\ Cardinality(rows') = Cardinality(rows)
    BY <2>3, <2>4, Renewed
  <2>6. UNCHANGED report /\ ReportShape'
    BY <1>6 DEF DeskResolve, ReportShape
  <2>7. ResolvedHaveTurnovers'
    BY <2>1, <2>2 DEF ResolvedHaveTurnovers
  <2> QED BY <2>1, <2>5, <2>6, <2>7 DEF AtRest
<1>7. CASE DeskFail
  BY <1>7 DEF DeskFail, AtRest, ReportShape, ResolvedHaveTurnovers
<1>8. CASE TurnoverEnds \/ IngestActivity
  BY <1>1, <1>8 DEF TurnoverEnds, IngestActivity, queue
<1>9. CASE MasterBegin \/ MasterCache \/ MasterRow \/ MasterCommit \/ MasterEnd \/ CreateUnit
  BY <1>1, <1>9 DEF MasterBegin, MasterCache, MasterRow, MasterCommit, MasterEnd, CreateUnit, queue
<1>10. CASE \E t \in Savers : \/ SaveBegin(t) \/ SaveUpsert(t) \/ SaveDelete(t)
                              \/ SaveInsert(t) \/ SaveEnd(t)
  BY <1>1, <1>10 DEF SaveBegin, SaveUpsert, SaveDelete, SaveInsert, SaveEnd, queue
<1>11. CASE UNCHANGED vars
  BY <1>1, <1>11 DEF vars
<1> QED BY <1>2, <1>3, <1>4, <1>5, <1>6, <1>7, <1>8, <1>9, <1>10, <1>11 DEF Next

\* ResolvedHaveTurnovers: a move-in leaves the queue only for a turnover made out of
\* it, though turnover and row commit apart and either may fail.
THEOREM Resolved == Spec => []ResolvedHaveTurnovers
<1>1. QueueInv => ResolvedHaveTurnovers
  BY DEF QueueInv
<1> QED BY <1>1, InitQueue, StepQueue, PTL DEF Spec

-----------------------------------------------------------------------------
(* The plan and the import *)

Lines == [code : Codes, phase : STRING, building : STRING]

LEMMA FilesAre == MasterFiles \subseteq Seq(Lines)
BY RegistryConstants DEF Lines

\* Each code is on one line.
Distinct(file) == \A i \in 1..Len(file) : \A j \in 1..(i - 1) : file[j].code # file[i].code

\* The lines before i whose unit is new to base, and what is inserted for them.
NewBefore(file, i, base) == {j \in 1..(i - 1) : ~Has(base, file[j].code)}

Wanted(r) == RowsFor(r.code, PhaseFor(r), r.building)

MadeBefore(file, i, base) ==
  [table \in {"phases", "buildings", "units"} |->
     (UNION {Wanted(file[j])[table] : j \in NewBefore(file, i, base)}) \ base[table]]

\* The plan of a file with nothing wrong is what is made of all its lines.
LEMMA PlanIs ==
  ASSUME NEW file \in Seq(Lines), NEW strict, NEW base, ~Plan(file, strict, base).has_blocking_errors
  PROVE  LET plan == Plan(file, strict, base)
             all == NewBefore(file, Len(file) + 1, base)
         IN  /\ Distinct(file)
             /\ plan.actions = MadeBefore(file, Len(file) + 1, base)
             /\ plan.skips = Len(file) - Cardinality(all)
<1> DEFINE First(i) == \A j \in 1..(i - 1) : file[j].code # file[i].code
           new == {i \in 1..Len(file) : First(i) /\ ~Has(base, file[i].code)}
           wanted == {RowsFor(file[i].code, PhaseFor(file[i]), file[i].building) : i \in new}
           all == NewBefore(file, Len(file) + 1, base)
<1>1. Plan(file, strict, base) =
        [has_blocking_errors |-> (\E i \in 1..Len(file) : ~First(i)) \/ (strict /\ new # {}),
         actions |-> Missing([table \in DOMAIN NoRows |-> UNION {w[table] : w \in wanted}], base),
         skips   |-> Len(file) - Cardinality(new)]
  BY DEF Plan
<1>2. \A i \in 1..Len(file) : First(i)
  <2> DEFINE errors == (\E i \in 1..Len(file) : ~First(i)) \/ (strict /\ new # {})
  <2>1. Plan(file, strict, base).has_blocking_errors = errors
    BY <1>1
  <2>2. ~errors
    BY <2>1
  <2> QED BY <2>2
<1>3. new = all
  <2>1. Len(file) \in Nat
    OBVIOUS
  <2>2. 1..(Len(file) + 1 - 1) = 1..Len(file)
    BY <2>1
  <2> QED BY <1>2, <2>2 DEF NewBefore
<1>4. Distinct(file)
  BY <1>2 DEF Distinct
<1>5. DOMAIN NoRows = {"phases", "buildings", "units"}
  BY DEF NoRows
<1>6. \A table : UNION {w[table] : w \in wanted} = UNION {Wanted(file[j])[table] : j \in new}
  BY DEF Wanted
<1> HIDE DEF new
<1>7. Missing([table \in DOMAIN NoRows |-> UNION {w[table] : w \in wanted}], base)
        = MadeBefore(file, Len(file) + 1, base)
  <2> DEFINE union == [table \in DOMAIN NoRows |-> UNION {w[table] : w \in wanted}]
  <2>1. Missing(union, base) = [table \in {"phases", "buildings", "units"} |-> union[table] \ base[table]]
    BY <1>5 DEF Missing
  <2>2. \A table \in {"phases", "buildings", "units"} :
          union[table] = UNION {Wanted(file[j])[table] : j \in all}
    BY <1>3, <1>5, <1>6
  <2> HIDE DEF union, wanted, all
  <2>3. MadeBefore(file, Len(file) + 1, base) =
          [table \in {"phases", "buildings", "units"} |->
             (UNION {Wanted(file[j])[table] : j \in all}) \ base[table]]
    BY DEF MadeBefore, all
  <2> QED BY <2>1, <2>2, <2>3 DEF union
<1>8. /\ Plan(file, strict, base).actions = MadeBefore(file, Len(file) + 1, base)
      /\ Plan(file, strict, base).skips = Len(file) - Cardinality(new)
  BY <1>1, <1>7
<1> HIDE DEF all
<1> QED BY <1>3, <1>4, <1>8 DEF all

\* The lines before the first, and the step from one to the next.
LEMMA BeforeFirst ==
  ASSUME NEW file, NEW base
  PROVE  /\ Cardinality(NewBefore(file, 1, base)) = 0
         /\ MadeBefore(file, 1, base) = NoRows
<1>1. NewBefore(file, 1, base) = {}
  BY DEF NewBefore
<1>2. \A table : UNION {Wanted(file[j])[table] : j \in {}} = {}
  OBVIOUS
<1>3. MadeBefore(file, 1, base) = [table \in {"phases", "buildings", "units"} |-> {}]
  BY <1>1, <1>2 DEF MadeBefore
<1>4. NoRows = [table \in {"phases", "buildings", "units"} |-> {}]
  BY DEF NoRows
<1> QED BY <1>1, <1>3, <1>4, FS_EmptySet

LEMMA NextLine ==
  ASSUME NEW file, NEW base, NEW i \in Nat \ {0}
  PROVE  LET before == NewBefore(file, i, base)
             after == NewBefore(file, i + 1, base)
         IN  /\ after = IF Has(base, file[i].code) THEN before ELSE before \cup {i}
             /\ Cardinality(before) \in Nat
             /\ Cardinality(after) = Cardinality(before) + (IF Has(base, file[i].code) THEN 0 ELSE 1)
<1> DEFINE before == NewBefore(file, i, base)
           after == NewBefore(file, i + 1, base)
<1>1. 1..(i + 1 - 1) = (1..(i - 1)) \cup {i} /\ i \notin 1..(i - 1)
  OBVIOUS
<1>2. after = IF Has(base, file[i].code) THEN before ELSE before \cup {i}
  BY <1>1 DEF NewBefore
<1>3. i \notin before /\ before \subseteq 1..(i - 1)
  BY <1>1 DEF NewBefore
<1>4. IsFiniteSet(1..(i - 1))
  BY FS_Interval
<1>5. IsFiniteSet(before)
  BY <1>3, <1>4, FS_Subset
<1>6. Cardinality(before) \in Nat
  BY <1>5, FS_CardinalityType
<1>7. Cardinality(before \cup {i}) = Cardinality(before) + 1
  BY <1>3, <1>5, FS_AddElement
<1> HIDE DEF before, after
<1> QED BY <1>2, <1>6, <1>7 DEF before, after

LEMMA MadeNext ==
  ASSUME NEW file, NEW base, NEW i \in Nat \ {0}
  PROVE  MadeBefore(file, i + 1, base) =
           IF Has(base, file[i].code) THEN MadeBefore(file, i, base)
           ELSE Merged(MadeBefore(file, i, base), Missing(Wanted(file[i]), base))
<1> DEFINE before == NewBefore(file, i, base)
           after == NewBefore(file, i + 1, base)
           made == MadeBefore(file, i, base)
<1>1. after = IF Has(base, file[i].code) THEN before ELSE before \cup {i}
  BY NextLine
<1>2. CASE Has(base, file[i].code)
  BY <1>1, <1>2 DEF MadeBefore
<1>3. CASE ~Has(base, file[i].code)
  <2>1. \A table : UNION {Wanted(file[j])[table] : j \in before \cup {i}}
                     = (UNION {Wanted(file[j])[table] : j \in before}) \cup Wanted(file[i])[table]
    OBVIOUS
  <2>2. DOMAIN Wanted(file[i]) = {"phases", "buildings", "units"}
    BY DEF Wanted, RowsFor
  <2>3. Merged(made, Missing(Wanted(file[i]), base)) =
          [table \in {"phases", "buildings", "units"} |->
             made[table] \cup (Wanted(file[i])[table] \ base[table])]
    BY <2>2 DEF Merged, Missing, MadeBefore
  <2>4. \A table \in {"phases", "buildings", "units"} :
          made[table] = (UNION {Wanted(file[j])[table] : j \in before}) \ base[table]
    BY DEF MadeBefore
  <2>5. MadeBefore(file, i + 1, base) =
          [table \in {"phases", "buildings", "units"} |->
             (UNION {Wanted(file[j])[table] : j \in before \cup {i}}) \ base[table]]
    BY <1>1, <1>3 DEF MadeBefore
  <2>6. \A table \in {"phases", "buildings", "units"} :
          (UNION {Wanted(file[j])[table] : j \in before \cup {i}}) \ base[table]
            = made[table] \cup (Wanted(file[i])[table] \ base[table])
    BY <2>1, <2>4
  <2> HIDE DEF made, before, after
  <2> QED BY <1>3, <2>3, <2>5, <2>6 DEF made
<1> QED BY <1>2, <1>3

\* The units made so far are those of new lines.
LEMMA MadeUnits ==
  ASSUME NEW file, NEW base, NEW i, NEW u \in MadeBefore(file, i, base).units
  PROVE  \E j \in NewBefore(file, i, base) : u.code = file[j].code
<1>1. MadeBefore(file, i, base).units =
        (UNION {Wanted(file[j]).units : j \in NewBefore(file, i, base)}) \ base.units
  BY DEF MadeBefore
<1>2. \A r : Wanted(r).units = {[code |-> r.code, phase |-> PhaseFor(r), building |-> r.building]}
  BY DEF Wanted, RowsFor
<1> QED BY <1>1, <1>2

\* While no other commit comes between, what the import has made and skipped is what
\* the plan has of the lines so far, and the cache is what there was with what it made.
ImportInv ==
  LET file == master.file
      all == Len(file) + 1
  IN  /\ MasterShape
      /\ Tabled(db)
      /\ master.step \in {"idle", "checked", "rows", "done"}
      /\ master.step # "idle" => file \in Seq(Lines)
      /\ master.step \in {"checked", "rows"} /\ master.alone =>
           /\ Distinct(file)
           /\ master.plan.actions = MadeBefore(file, all, db)
           /\ master.plan.skips = Len(file) - Cardinality(NewBefore(file, all, db))
           /\ master.i \in 1..all /\ (master.step = "checked" => master.i = 1)
           /\ master.made = MadeBefore(file, master.i, db)
           /\ master.skipped = master.i - 1 - Cardinality(NewBefore(file, master.i, db))
           /\ master.step = "rows" =>
                master.known = [phases    |-> db.phases \cup master.made.phases,
                                buildings |-> db.buildings \cup master.made.buildings,
                                units     |-> master.made.units]
      /\ PlanPredictsImport

LEMMA InitImport == Init => ImportInv
<1> SUFFICES ASSUME Init PROVE ImportInv
  OBVIOUS
<1>1. master.step = "idle" /\ MasterShape /\ Tabled(db)
  BY DEF Init, Idle, MasterShape, NoRows, Tabled
<1> QED BY <1>1 DEF ImportInv, PlanPredictsImport

\* An import that has begun; one that reads what there is; one whose rows are in.
LEMMA MasterBegins == ImportInv /\ MasterBegin => ImportInv'
<1> SUFFICES ASSUME ImportInv, MasterBegin PROVE ImportInv'
  OBVIOUS
<1>1. PICK file \in MasterFiles, strict \in BOOLEAN :
        /\ ~Plan(file, strict, db).has_blocking_errors
        /\ master' = [Idle EXCEPT !.step = "checked", !.file = file, !.plan = Plan(file, strict, db)]
  BY DEF MasterBegin
<1>2. master' = [step |-> "checked", file |-> file, i |-> 1, known |-> NoRows, made |-> NoRows,
                 skipped |-> 0, plan |-> Plan(file, strict, db), alone |-> TRUE]
  BY <1>1 DEF Idle
<1>3. file \in Seq(Lines) /\ Len(file) \in Nat
  BY FilesAre
<1>4. /\ Distinct(file)
      /\ master'.plan.actions = MadeBefore(file, Len(file) + 1, db)
      /\ master'.plan.skips = Len(file) - Cardinality(NewBefore(file, Len(file) + 1, db))
  BY <1>1, <1>2, <1>3, PlanIs
<1>5. /\ Cardinality(NewBefore(file, 1, db)) = 0
      /\ MadeBefore(file, 1, db) = NoRows
  BY BeforeFirst
<1>6. UNCHANGED db /\ MasterShape' /\ Tabled(db)
  BY <1>2 DEF MasterBegin, MasterShape, ImportInv
<1>7. /\ master'.step = "checked" /\ master'.file = file /\ master'.i = 1
      /\ master'.made = NoRows /\ master'.skipped = 0
  BY <1>2
<1> QED BY <1>3, <1>4, <1>5, <1>6, <1>7 DEF ImportInv, PlanPredictsImport

LEMMA MasterReads == ImportInv /\ MasterCache => ImportInv'
<1> SUFFICES ASSUME ImportInv, MasterCache PROVE ImportInv'
  OBVIOUS
<1> DEFINE known == [db EXCEPT !.units = {}]
<1>1. /\ master.step = "checked" /\ UNCHANGED db
      /\ master' = [master EXCEPT !.step = "rows", !.known = known]
  BY DEF MasterCache
<1>2. master' = [step |-> "rows", file |-> master.file, i |-> master.i, known |-> known,
                 made |-> master.made, skipped |-> master.skipped, plan |-> master.plan,
                 alone |-> master.alone]
  <2>1. DOMAIN master = {"step", "file", "i", "known", "made", "skipped", "plan", "alone"}
    BY DEF ImportInv, MasterShape
  <2> HIDE DEF known
  <2> QED BY <1>1, <2>1 DEF ImportInv, MasterShape
<1>3. known = [phases |-> db.phases, buildings |-> db.buildings, units |-> {}]
  <2>1. DOMAIN db = {"phases", "buildings", "units"}
    BY DEF ImportInv, Tabled
  <2> QED BY <2>1
<1>4. master.alone => master.made = NoRows
  BY <1>1, BeforeFirst DEF ImportInv
<1>5. MasterShape'
  BY <1>2 DEF MasterShape
<1>6. master.alone =>
        master'.known = [phases    |-> db.phases \cup master.made.phases,
                         buildings |-> db.buildings \cup master.made.buildings,
                         units     |-> master.made.units]
  <2>1. NoRows.phases = {} /\ NoRows.buildings = {} /\ NoRows.units = {}
    BY DEF NoRows
  <2> QED BY <1>2, <1>3, <1>4, <2>1
<1>7. /\ master'.step = "rows" /\ master'.file = master.file /\ master'.i = master.i
      /\ master'.made = master.made /\ master'.skipped = master.skipped
      /\ master'.plan = master.plan /\ master'.alone = master.alone
  BY <1>2
<1> QED BY <1>1, <1>5, <1>6, <1>7 DEF ImportInv, PlanPredictsImport

\* One line: it is skipped just when the plan skips it, and what the caches lack of
\* it is what the plan has of it, but for what an earlier line has brought.
LEMMA MasterLine == ImportInv /\ MasterRow => ImportInv'
<1> SUFFICES ASSUME ImportInv, MasterRow PROVE ImportInv'
  OBVIOUS
<1> DEFINE file == master.file
           i == master.i
           r == file[i]
           new == MasterInserts(r)
           found == Has(Merged(db, master.made), r.code)
<1>1. master.step = "rows" /\ i <= Len(file) /\ UNCHANGED db /\ file \in Seq(Lines)
  BY DEF MasterRow, ImportInv
<1>2. master' = [step |-> "rows", file |-> file, i |-> i + 1,
                 known |-> IF found THEN master.known ELSE Merged(master.known, new),
                 made |-> IF found THEN master.made ELSE Merged(master.made, new),
                 skipped |-> IF found THEN master.skipped + 1 ELSE master.skipped,
                 plan |-> master.plan, alone |-> master.alone]
  <2>1. DOMAIN master = {"step", "file", "i", "known", "made", "skipped", "plan", "alone"}
    BY DEF ImportInv, MasterShape
  <2>2. master = [step |-> "rows", file |-> master.file, i |-> master.i, known |-> master.known,
                  made |-> master.made, skipped |-> master.skipped, plan |-> master.plan,
                  alone |-> master.alone]
    BY <1>1 DEF ImportInv, MasterShape
  <2>3. CASE found
    <3>1. master' = [master EXCEPT !.i = @ + 1, !.skipped = @ + 1]
      BY <2>3 DEF MasterRow
    <3> HIDE DEF found, new, file, i, r
    <3>2. master' = [step |-> master.step, file |-> master.file, i |-> master.i + 1,
                     known |-> master.known,
                     made |-> master.made, skipped |-> master.skipped + 1,
                     plan |-> master.plan, alone |-> master.alone]
      BY <2>1, <3>1
    <3> QED BY <1>1, <2>3, <3>2 DEF file, i
  <2>4. CASE ~found
    <3>1. master' = [master EXCEPT !.i = @ + 1, !.made = Merged(@, new), !.known = Merged(@, new)]
      BY <2>4 DEF MasterRow
    <3> HIDE DEF found, new, file, i, r
    <3>2. master' = [step |-> master.step, file |-> master.file, i |-> master.i + 1,
                     known |-> Merged(master.known, new),
                     made |-> Merged(master.made, new), skipped |-> master.skipped,
                     plan |-> master.plan, alone |-> master.alone]
      BY <2>1, <3>1
    <3> QED BY <1>1, <2>4, <3>2 DEF file, i
  <2> QED BY <2>3, <2>4
<1>3. MasterShape' /\ master'.step = "rows" /\ master'.file = file /\ master'.plan = master.plan
      /\ master'.alone = master.alone /\ master'.i = i + 1
  BY <1>2 DEF MasterShape
<1>4. CASE ~master.alone
  BY <1>1, <1>3, <1>4 DEF ImportInv, PlanPredictsImport
<1>5. CASE master.alone
  <2>1. /\ Distinct(file) /\ i \in 1..Len(file) /\ Len(file) \in Nat
        /\ master.made = MadeBefore(file, i, db)
        /\ master.skipped = i - 1 - Cardinality(NewBefore(file, i, db))
        /\ master.known = [phases    |-> db.phases \cup master.made.phases,
                           buildings |-> db.buildings \cup master.made.buildings,
                           units     |-> master.made.units]
    <3>1. Len(file) \in Nat
      BY <1>1
    <3> QED BY <1>1, <1>5, <3>1 DEF ImportInv
  <2>2. Tabled(master.made) /\ Tabled(db)
    BY <2>1 DEF ImportInv, Tabled, MadeBefore
  <2>3. found <=> Has(db, r.code)
    <3>1. Merged(db, master.made).units = db.units \cup master.made.units
      BY <2>2, MergedIs
    <3>2. ~\E u \in master.made.units : u.code = r.code
      <4>1. ASSUME NEW u \in master.made.units PROVE u.code # r.code
        <5>1. PICK j \in NewBefore(file, i, db) : u.code = file[j].code
          BY <2>1, MadeUnits
        <5>2. j \in 1..(i - 1)
          BY DEF NewBefore
        <5> QED BY <2>1, <5>1, <5>2 DEF Distinct
      <4> QED BY <4>1
    <3> QED BY <3>1, <3>2 DEF Has
  <2>4. LET before == NewBefore(file, i, db)
            after == NewBefore(file, i + 1, db)
        IN  /\ Cardinality(before) \in Nat
            /\ Cardinality(after) = Cardinality(before) + (IF Has(db, r.code) THEN 0 ELSE 1)
    <3>1. i \in Nat \ {0}
      BY <2>1
    <3> HIDE DEF i, file
    <3> QED BY <3>1, NextLine DEF r
  <2>5. master'.skipped = i + 1 - 1 - Cardinality(NewBefore(file, i + 1, db))
    <3>1. master'.skipped = IF Has(db, r.code) THEN master.skipped + 1 ELSE master.skipped
      BY <1>2, <2>3
    <3> HIDE DEF r, file, i
    <3> QED BY <2>1, <2>4, <3>1
  <2>8. ASSUME master'.made = MadeBefore(file, i + 1, db),
               master'.known = [phases    |-> db.phases \cup master'.made.phases,
                                buildings |-> db.buildings \cup master'.made.buildings,
                                units     |-> master'.made.units]
        PROVE  ImportInv'
    <3>1. /\ master.plan.actions = MadeBefore(file, Len(file) + 1, db)
          /\ master.plan.skips = Len(file) - Cardinality(NewBefore(file, Len(file) + 1, db))
      BY <1>1, <1>5 DEF ImportInv
    <3>2. i + 1 \in 1..(Len(file) + 1)
      BY <2>1
    <3>3. Tabled(db)' /\ UNCHANGED db
      BY <1>1, <2>2
    <3> HIDE DEF file, i, r, found, new
    <3>4. /\ Distinct(master'.file)
          /\ master'.plan.actions = MadeBefore(master'.file, Len(master'.file) + 1, db')
          /\ master'.plan.skips =
               Len(master'.file) - Cardinality(NewBefore(master'.file, Len(master'.file) + 1, db'))
      BY <1>3, <2>1, <3>1, <3>3
    <3>5. /\ master'.i \in 1..(Len(master'.file) + 1)
          /\ master'.made = MadeBefore(master'.file, master'.i, db')
          /\ master'.skipped = master'.i - 1 - Cardinality(NewBefore(master'.file, master'.i, db'))
      <4>1. master'.i = i + 1 /\ master'.file = file /\ db' = db
        BY <1>3, <3>3
      <4>2. master'.made = MadeBefore(master'.file, master'.i, db')
        BY <2>8, <4>1
      <4>3. master'.i \in 1..(Len(master'.file) + 1)
        BY <3>2, <4>1
      <4>4. master'.skipped = master'.i - 1 - Cardinality(NewBefore(master'.file, master'.i, db'))
        <5>1. Cardinality(NewBefore(file, i + 1, db)) = Cardinality(NewBefore(master'.file, master'.i, db'))
          BY <4>1
        <5>2. i \in Nat /\ Cardinality(NewBefore(file, i + 1, db)) \in Nat
          BY <2>1, <2>4
        <5> QED BY <2>5, <4>1, <5>1, <5>2
      <4> QED BY <4>2, <4>3, <4>4
    <3>6. master'.known = [phases    |-> db'.phases \cup master'.made.phases,
                           buildings |-> db'.buildings \cup master'.made.buildings,
                           units     |-> master'.made.units]
      BY <2>8, <3>3
    <3>7. MasterShape' /\ Tabled(db') /\ master'.step = "rows" /\ master'.file \in Seq(Lines)
      BY <1>1, <1>3, <3>3
    <3> QED BY <3>4, <3>5, <3>6, <3>7 DEF ImportInv, PlanPredictsImport
  <2>6. CASE found
    <3>1. master'.made = MadeBefore(file, i + 1, db)
      BY <1>2, <2>1, <2>3, <2>6, MadeNext
    <3>2. master'.made = master.made /\ master'.known = master.known
      BY <1>2, <2>6
    <3> QED BY <2>1, <2>8, <3>1, <3>2
  <2>7. CASE ~found
    <3> DEFINE whole == Missing(Wanted(r), db)
    <3>1. master'.made = Merged(master.made, new) /\ master'.known = Merged(master.known, new)
      BY <1>2, <2>7
    <3>2. /\ Tabled(new)
          /\ new.phases = ({PhaseFor(r)} \ {None}) \ master.known.phases
          /\ new.buildings = (IF r.building = None THEN {} ELSE {<<PhaseFor(r), r.building>>})
                               \ master.known.buildings
          /\ new.units = {[code |-> r.code, phase |-> PhaseFor(r), building |-> r.building]}
                           \ master.known.units
      BY InsertsAre DEF MasterInserts
    <3>3. /\ Tabled(whole)
          /\ whole.phases = ({PhaseFor(r)} \ {None}) \ db.phases
          /\ whole.buildings = (IF r.building = None THEN {} ELSE {<<PhaseFor(r), r.building>>})
                               \ db.buildings
          /\ whole.units = {[code |-> r.code, phase |-> PhaseFor(r), building |-> r.building]}
                           \ db.units
      BY InsertsAre DEF Wanted
    <3>4. [code |-> r.code, phase |-> PhaseFor(r), building |-> r.building] \notin db.units
      BY <2>3, <2>7 DEF Has
    <3> HIDE DEF new, whole, r, found, file, i
    <3>5. /\ Tabled(Merged(master.made, new))
          /\ Merged(master.made, new).phases = master.made.phases \cup new.phases
          /\ Merged(master.made, new).buildings = master.made.buildings \cup new.buildings
          /\ Merged(master.made, new).units = master.made.units \cup new.units
      BY <2>2, MergedIs
    <3>6. /\ Tabled(Merged(master.made, whole))
          /\ Merged(master.made, whole).phases = master.made.phases \cup whole.phases
          /\ Merged(master.made, whole).buildings = master.made.buildings \cup whole.buildings
          /\ Merged(master.made, whole).units = master.made.units \cup whole.units
      BY <2>2, MergedIs
    <3>7. /\ master.known.phases = db.phases \cup master.made.phases
          /\ master.known.buildings = db.buildings \cup master.made.buildings
          /\ master.known.units = master.made.units /\ Tabled(master.known)
      BY <2>1 DEF Tabled
    <3>8. /\ Tabled(Merged(master.known, new))
          /\ Merged(master.known, new).phases = master.known.phases \cup new.phases
          /\ Merged(master.known, new).buildings = master.known.buildings \cup new.buildings
          /\ Merged(master.known, new).units = master.known.units \cup new.units
      BY <3>7, MergedIs
    <3>9. /\ master.made.phases \cap db.phases = {}
          /\ master.made.buildings \cap db.buildings = {}
      BY <2>1 DEF MadeBefore
    <3>10. /\ Merged(master.made, new).phases = Merged(master.made, whole).phases
           /\ Merged(master.made, new).buildings = Merged(master.made, whole).buildings
           /\ Merged(master.made, new).units = Merged(master.made, whole).units
      BY <3>2, <3>3, <3>4, <3>5, <3>6, <3>7
    <3>11. Merged(master.made, new) = Merged(master.made, whole)
      BY <3>5, <3>6, <3>10 DEF Tabled
    <3>12. MadeBefore(file, i + 1, db) = Merged(master.made, whole)
      BY <2>1, <2>3, <2>7, MadeNext DEF whole, r
    <3>13. master'.made = MadeBefore(file, i + 1, db)
      BY <3>1, <3>11, <3>12
    <3>14. master'.known = [phases    |-> db.phases \cup master'.made.phases,
                            buildings |-> db.buildings \cup master'.made.buildings,
                            units     |-> master'.made.units]
      <4>1. /\ master'.known.phases = db.phases \cup master'.made.phases
            /\ master'.known.buildings = db.buildings \cup master'.made.buildings
            /\ master'.known.units = master'.made.units
        BY <3>1, <3>5, <3>7, <3>8
      <4> QED BY <3>1, <3>8, <4>1 DEF Tabled
    <3> QED BY <2>8, <3>13, <3>14
  <2> QED BY <2>6, <2>7
<1> QED BY <1>4, <1>5

LEMMA StepImport == ImportInv /\ PlaceInv /\ [Next]_vars => ImportInv'
<1> SUFFICES ASSUME ImportInv, PlaceInv, [Next]_vars PROVE ImportInv'
  OBVIOUS
<1>1. ASSUME UNCHANGED <<db, master>> PROVE ImportInv'
  BY <1>1 DEF ImportInv, MasterShape, PlanPredictsImport
<1>2. CASE MasterBegin \/ MasterCache \/ MasterRow
  BY <1>2, MasterBegins, MasterReads, MasterLine
<1>3. CASE MasterCommit
  <2>1. /\ master.step = "rows" /\ master.i > Len(master.file)
        /\ db' = Merged(db, master.made) /\ master' = [master EXCEPT !.step = "done"]
    BY <1>3 DEF MasterCommit
  <2>2. /\ MasterShape' /\ master'.step = "done" /\ master'.file = master.file
        /\ master'.plan = master.plan /\ master'.made = master.made
        /\ master'.skipped = master.skipped /\ master'.alone = master.alone
    BY <2>1 DEF MasterShape, ImportInv
  <2>3. Tabled(db')
    BY <2>1, MergedIs DEF ImportInv
  <2>4. PlanPredictsImport'
    <3> SUFFICES ASSUME master.alone
                 PROVE  master.made = master.plan.actions /\ master.skipped = master.plan.skips
      BY <2>2 DEF PlanPredictsImport
    <3>1. Len(master.file) \in Nat
      BY <2>1 DEF ImportInv
    <3>2. master.i = Len(master.file) + 1
      BY <2>1, <3>1 DEF ImportInv
    <3>3. /\ master.plan.actions = MadeBefore(master.file, master.i, db)
          /\ master.plan.skips = Len(master.file) - Cardinality(NewBefore(master.file, master.i, db))
          /\ master.made = MadeBefore(master.file, master.i, db)
          /\ master.skipped = master.i - 1 - Cardinality(NewBefore(master.file, master.i, db))
      BY <2>1, <3>2 DEF ImportInv
    <3>4. master.i - 1 = Len(master.file)
      BY <3>1, <3>2
    <3> QED BY <3>3, <3>4
  <2> QED BY <2>1, <2>2, <2>3, <2>4 DEF ImportInv
<1>4. CASE MasterEnd
  <2>1. master' = Idle /\ UNCHANGED db
    BY <1>4 DEF MasterEnd
  <2>2. MasterShape' /\ master'.step = "idle"
    BY <2>1 DEF MasterShape, Idle
  <2> QED BY <2>1, <2>2 DEF ImportInv, PlanPredictsImport
<1>5. CASE CreateUnit
  <2>1. master.step = "idle" /\ UNCHANGED master
    BY <1>5 DEF CreateUnit
  <2>2. PlaceInv'
    BY StepPlaced
  <2> QED BY <2>1, <2>2 DEF ImportInv, PlaceInv, PlanPredictsImport
<1>6. CASE ReportCommit
  <2>1. Tabled(db')
    BY StepPlaced DEF PlaceInv
  <2>2. CASE report.made = NoRows
    <3>1. UNCHANGED master
      BY <1>6, <2>2 DEF ReportCommit
    <3>2. db' = db
      <4>1. db' = Merged(db, NoRows)
        BY <1>6, <2>2 DEF ReportCommit
      <4>2. NoRows.phases = {} /\ NoRows.buildings = {} /\ NoRows.units = {}
        BY DEF NoRows
      <4>3. /\ Merged(db, NoRows).phases = db.phases \cup NoRows.phases
            /\ Merged(db, NoRows).buildings = db.buildings \cup NoRows.buildings
            /\ Merged(db, NoRows).units = db.units \cup NoRows.units
        BY MergedIs DEF PlaceInv
      <4>4. db'.phases = db.phases /\ db'.buildings = db.buildings /\ db'.units = db.units
        BY <4>1, <4>2, <4>3
      <4> QED BY <2>1, <4>4 DEF PlaceInv, Tabled
    <3> QED BY <1>1, <3>1, <3>2
  <2>3. CASE report.made # NoRows
    <3>1. master' = [master EXCEPT !.alone = (master.step = "idle")]
      BY <1>6, <2>3 DEF ReportCommit
    <3> DEFINE b == master.step = "idle"
    <3>2. master' = [step |-> master.step, file |-> master.file, i |-> master.i, known |-> master.known,
                     made |-> master.made, skipped |-> master.skipped, plan |-> master.plan,
                     alone |-> b]
      <4>1. DOMAIN master = {"step", "file", "i", "known", "made", "skipped", "plan", "alone"}
        BY DEF ImportInv, MasterShape
      <4> HIDE DEF b
      <4>2. master' = [master EXCEPT !.alone = b]
        BY <3>1 DEF b
      <4> QED BY <4>1, <4>2 DEF ImportInv, MasterShape
    <3> HIDE DEF b
    <3>3. /\ MasterShape' /\ master'.step = master.step /\ master'.file = master.file
          /\ master'.alone = b
      BY <3>2 DEF MasterShape
    <3>4. master'.step # "idle" => ~master'.alone
      BY <3>3 DEF b
    <3> QED BY <2>1, <3>3, <3>4 DEF ImportInv, PlanPredictsImport
  <2> QED BY <2>2, <2>3
<1>7. CASE ReportBegin \/ ReportRow \/ ReportFail
  BY <1>1, <1>7 DEF ReportBegin, ReportRow, ReportFail, structure
<1>8. CASE \E t \in Savers : \/ SaveBegin(t) \/ SaveUpsert(t) \/ SaveDelete(t)
                             \/ SaveInsert(t) \/ SaveEnd(t)
  BY <1>1, <1>8 DEF SaveBegin, SaveUpsert, SaveDelete, SaveInsert, SaveEnd, structure
<1>9. CASE IngestActivity \/ DeskCreate \/ DeskResolve \/ DeskFail \/ TurnoverEnds
  BY <1>1, <1>9 DEF IngestActivity, DeskCreate, DeskResolve, DeskFail, TurnoverEnds, structure
<1>10. CASE UNCHANGED vars
  BY <1>1, <1>10 DEF vars
<1> QED BY <1>2, <1>3, <1>4, <1>5, <1>6, <1>7, <1>8, <1>9, <1>10 DEF Next

\* PlanPredictsImport: for files of any length, an import that no other commit came
\* between does what its report announced.
THEOREM PlanKept == Spec => []PlanPredictsImport
<1>1. Init => ImportInv /\ PlaceInv
  BY InitImport, InitPlaced
<1>2. ImportInv /\ PlaceInv /\ [Next]_vars => (ImportInv /\ PlaceInv)'
  BY StepImport, StepPlaced
<1>3. ImportInv => PlanPredictsImport
  BY DEF ImportInv
<1> QED BY <1>1, <1>2, <1>3, PTL DEF Spec

-----------------------------------------------------------------------------
(* The sheets of the work orders, for any rows of the file *)

LEMMA AtMostOne ==
  ASSUME NEW S, \A x, y \in S : x = y
  PROVE  Cardinality(S) \in {0, 1} /\ (Cardinality(S) = 0 <=> S = {})
<1>1. CASE S = {}
  BY <1>1, FS_EmptySet
<1>2. CASE S # {}
  <2>1. PICK x \in S : TRUE
    BY <1>2
  <2>2. S = {x}
    BY <2>1
  <2>3. Cardinality({x}) = 1
    BY FS_Singleton
  <2> QED BY <1>2, <2>2, <2>3
<1> QED BY <1>1, <1>2

\* No row is in two of the sections that stand side by side on a sheet.
Apart(r, sections) == \A i, j \in 1..Len(sections) : r \in sections[i] /\ r \in sections[j] => i = j

LEMMA ApartOnce ==
  ASSUME NEW r, NEW sections, Apart(r, sections)
  PROVE  /\ Listed(r, sections) \in {0, 1}
         /\ Listed(r, sections) = 0 <=> \A i \in 1..Len(sections) : r \notin sections[i]
<1>1. \A i, j \in {k \in 1..Len(sections) : r \in sections[k]} : i = j
  BY DEF Apart
<1> QED BY <1>1, AtMostOne DEF Listed

LEMMA DeskApart ==
  ASSUME NEW orders, NEW who, NEW r
  PROVE  /\ Apart(r, Desk(orders, who))
         /\ Listed(r, Desk(orders, who)) = 0
              <=> ~(r \in orders /\ r.assigned = who /\ r.status \in {"In progress", "On hold"})
<1>1. /\ Len(Desk(orders, who)) = 2
      /\ r \in Desk(orders, who)[1] <=> (r \in orders /\ r.assigned = who /\ r.status = "In progress")
      /\ r \in Desk(orders, who)[2] <=> (r \in orders /\ r.assigned = who /\ r.status = "On hold")
  BY DEF Desk, Having, Of
<1>2. Apart(r, Desk(orders, who))
  <2> DEFINE d == Desk(orders, who)
  <2>1. Len(d) = 2 /\ ~(r \in d[1] /\ r \in d[2])
    BY <1>1
  <2> HIDE DEF d
  <2>2. 1..Len(d) = {1, 2}
    BY <2>1
  <2> QED BY <2>1, <2>2 DEF Apart, d
<1>3. Listed(r, Desk(orders, who)) = 0 <=> r \notin Desk(orders, who)[1] /\ r \notin Desk(orders, who)[2]
  <2> DEFINE d == Desk(orders, who)
  <2>1. Len(d) = 2 /\ Apart(r, d)
    BY <1>1, <1>2
  <2> HIDE DEF d
  <2>2. 1..Len(d) = {1, 2}
    BY <2>1
  <2>3. Listed(r, d) = 0 <=> r \notin d[1] /\ r \notin d[2]
    BY <2>1, <2>2, ApartOnce
  <2> QED BY <2>3 DEF d
<1> QED BY <1>1, <1>2, <1>3

LEMMA SheetsOnce == ASSUME NEW orders, NEW manager PROVE OnOneDesk(orders, GroupSheets(orders, manager))
<1> DEFINE sheets == GroupSheets(orders, manager)
           mine == Group(orders, manager)
<1> SUFFICES ASSUME NEW r \in mine
             PROVE  LET desks == {who \in DOMAIN sheets.assignee : Listed(r, sheets.assignee[who]) # 0}
                    IN  /\ \A who \in desks : Listed(r, sheets.assignee[who]) = 1
                        /\ Cardinality(desks) + (IF r \in sheets.unassigned THEN 1 ELSE 0)
                             = IF r \in sheets.unassigned \/ r.status \in {"In progress", "On hold"} THEN 1 ELSE 0
  BY DEF OnOneDesk, GroupSheets
<1> DEFINE whose == {q.assigned : q \in mine \ Broad(mine)}
           desks == {who \in DOMAIN sheets.assignee : Listed(r, sheets.assignee[who]) # 0}
<1>1. /\ DOMAIN sheets.assignee = whose /\ sheets.unassigned = Broad(mine)
      /\ \A who \in whose : sheets.assignee[who] = Desk(mine, who)
  BY DEF GroupSheets
<1>2. \A who \in desks : Listed(r, sheets.assignee[who]) = 1
  <2> TAKE who \in desks
  <2>1. Listed(r, Desk(mine, who)) \in {0, 1}
    BY DeskApart, ApartOnce
  <2> QED BY <1>1, <2>1
<1>3. desks = IF r \in mine \ Broad(mine) /\ r.status \in {"In progress", "On hold"} THEN {r.assigned} ELSE {}
  <2>1. ASSUME NEW who
        PROVE  who \in desks <=> (who \in whose /\ r.assigned = who /\ r.status \in {"In progress", "On hold"})
    <3>1. who \in desks <=> (who \in whose /\ Listed(r, Desk(mine, who)) # 0)
      BY <1>1
    <3> HIDE DEF desks, whose, mine
    <3> QED BY <3>1, DeskApart
  <2>2. ASSUME r \in Broad(mine), NEW who \in whose PROVE who # r.assigned
    BY <2>2 DEF Broad
  <2>3. r \in mine \ Broad(mine) => r.assigned \in whose
    OBVIOUS
  <2> HIDE DEF desks, whose, mine
  <2> QED BY <2>1, <2>2, <2>3
<1>4. Cardinality(desks) = IF r \notin Broad(mine) /\ r.status \in {"In progress", "On hold"} THEN 1 ELSE 0
  <2>1. Cardinality({r.assigned}) = 1 /\ Cardinality({}) = 0
    BY FS_Singleton, FS_EmptySet
  <2> HIDE DEF desks, mine
  <2> QED BY <1>3, <2>1
<1> HIDE DEF desks, mine, sheets
<1>5. Cardinality(desks) + (IF r \in sheets.unassigned THEN 1 ELSE 0)
             = IF r \in sheets.unassigned \/ r.status \in {"In progress", "On hold"} THEN 1 ELSE 0
  <2>1. CASE r \in Broad(mine)
    BY <1>1, <1>4, <2>1
  <2>2. CASE r \notin Broad(mine)
    <3>1. r \notin sheets.unassigned
      BY <1>1, <2>2
    <3> DEFINE busy == r.status \in {"In progress", "On hold"}
               n == Cardinality(desks)
    <3>2. Cardinality(desks) = IF r.status \in {"In progress", "On hold"} THEN 1 ELSE 0
      BY <1>4, <2>2
    <3>3. n = IF busy THEN 1 ELSE 0
      BY <3>2
    <3> HIDE DEF busy, n
    <3>4. n + 0 = IF busy THEN 1 ELSE 0
      BY <3>3
    <3> QED BY <3>1, <3>4 DEF busy, n
  <2> QED BY <2>1, <2>2
<1> QED BY <1>2, <1>5 DEF desks

\* One of the sections lists the row.
On(r, sections) == \E i \in 1..Len(sections) : r \in sections[i]

LEMMA JoinedApart ==
  ASSUME NEW r, NEW S, NEW s \in Seq(S), NEW t \in Seq(S),
         Apart(r, s), Apart(r, t), ~(On(r, s) /\ On(r, t))
  PROVE  Apart(r, s \o t)
<1>1. /\ s \o t \in Seq(S) /\ Len(s \o t) = Len(s) + Len(t) /\ Len(s) \in Nat /\ Len(t) \in Nat
      /\ \A i \in 1..(Len(s) + Len(t)) :
           (s \o t)[i] = IF i <= Len(s) THEN s[i] ELSE t[i - Len(s)]
  BY ConcatProperties, LenProperties
<1> DEFINE u == s \o t
<1> SUFFICES ASSUME NEW i \in 1..Len(u), NEW j \in 1..Len(u), r \in u[i], r \in u[j] PROVE i = j
  BY DEF Apart
<1> HIDE DEF u
<1>2. ASSUME NEW k \in 1..Len(u), r \in u[k]
      PROVE  IF k <= Len(s) THEN k \in 1..Len(s) /\ r \in s[k] /\ On(r, s)
             ELSE k - Len(s) \in 1..Len(t) /\ r \in t[k - Len(s)] /\ On(r, t)
  BY <1>1, <1>2 DEF On, u
<1>3. CASE i <= Len(s) /\ j <= Len(s)
  BY <1>2, <1>3 DEF Apart
<1>4. CASE ~(i <= Len(s)) /\ ~(j <= Len(s))
  <2>1. i - Len(s) = j - Len(s)
    BY <1>2, <1>4 DEF Apart
  <2> QED BY <1>1, <2>1 DEF u
<1> QED BY <1>2, <1>3, <1>4

LEMMA JoinedOn ==
  ASSUME NEW r, NEW S, NEW s \in Seq(S), NEW t \in Seq(S), On(r, s \o t)
  PROVE  On(r, s) \/ On(r, t)
<1>1. /\ Len(s \o t) = Len(s) + Len(t) /\ Len(s) \in Nat /\ Len(t) \in Nat
      /\ \A i \in 1..(Len(s) + Len(t)) :
           (s \o t)[i] = IF i <= Len(s) THEN s[i] ELSE t[i - Len(s)]
  BY ConcatProperties, LenProperties
<1>2. PICK i \in 1..(Len(s) + Len(t)) : r \in (s \o t)[i]
  BY <1>1 DEF On
<1>3. CASE i <= Len(s)
  BY <1>1, <1>2, <1>3 DEF On
<1>4. CASE ~(i <= Len(s))
  <2>1. i - Len(s) \in 1..Len(t) /\ r \in t[i - Len(s)]
    BY <1>1, <1>2, <1>4
  <2> QED BY <2>1 DEF On
<1> QED BY <1>3, <1>4

\* The sections of one technician's two tables, of one table, and of tables side by side.
LEMMA DeskOn ==
  ASSUME NEW orders, NEW here, here \subseteq orders, NEW who, NEW r
  PROVE  /\ Desk(here, who) \in Seq(SUBSET orders) /\ Apart(r, Desk(here, who))
         /\ On(r, Desk(here, who)) => r \in here /\ r.assigned = who
<1>1. Desk(here, who) \in Seq(SUBSET orders)
  <2>1. Having(Of(here, who), "In progress") \in SUBSET orders
        /\ Having(Of(here, who), "On hold") \in SUBSET orders
    BY DEF Having, Of
  <2> DEFINE a == Having(Of(here, who), "In progress")
             b == Having(Of(here, who), "On hold")
  <2> HIDE DEF a, b
  <2>2. a \in SUBSET orders /\ b \in SUBSET orders
    BY <2>1 DEF a, b
  <2>3. <<a, b>> \in Seq(SUBSET orders)
    BY <2>2
  <2> QED BY <2>3 DEF Desk, a, b
<1>2. /\ Len(Desk(here, who)) = 2
      /\ r \in Desk(here, who)[1] => r \in here /\ r.assigned = who
      /\ r \in Desk(here, who)[2] => r \in here /\ r.assigned = who
  BY DEF Desk, Having, Of
<1>3. On(r, Desk(here, who)) => r \in here /\ r.assigned = who
  <2> DEFINE d == Desk(here, who)
  <2> HIDE DEF d
  <2>1. Len(d) = 2 => 1..Len(d) = {1, 2}
    OBVIOUS
  <2> QED BY <1>2, <2>1 DEF On, d
<1> QED BY <1>1, <1>3, DeskApart

LEMMA OneOn ==
  ASSUME NEW orders, NEW section \in SUBSET orders, NEW r
  PROVE  /\ <<section>> \in Seq(SUBSET orders) /\ Apart(r, <<section>>)
         /\ On(r, <<section>>) => r \in section
BY DEF Apart, On

LEMMA Joined ==
  ASSUME NEW r, NEW S, NEW s \in Seq(S), NEW t \in Seq(S),
         Apart(r, s), Apart(r, t), ~(On(r, s) /\ On(r, t))
  PROVE  /\ s \o t \in Seq(S) /\ Apart(r, s \o t)
         /\ On(r, s \o t) => On(r, s) \/ On(r, t)
BY JoinedApart, JoinedOn, ConcatProperties

\* The sections of different people, side by side.
Theirs(r, section, S, who) ==
  section \in Seq(S) /\ Apart(r, section) /\ (On(r, section) => r.assigned = who)

LEMMA PeopleApart ==
  ASSUME NEW r, NEW S, NEW p, NEW q, NEW u, NEW v, NEW a, NEW b, NEW c, NEW d,
         Theirs(r, a, S, p), Theirs(r, b, S, q), p # q
  PROVE  /\ Apart(r, a \o b)
         /\ Theirs(r, c, S, u) /\ u \notin {p, q} => Apart(r, a \o b \o c)
         /\ Theirs(r, c, S, u) /\ u \notin {p, q} /\ Theirs(r, d, S, v) /\ v \notin {p, q, u}
              => Apart(r, a \o b \o c \o d)
<1>1. a \o b \in Seq(S) /\ Apart(r, a \o b) /\ (On(r, a \o b) => r.assigned \in {p, q})
  BY Joined DEF Theirs
<1>2. ASSUME Theirs(r, c, S, u), u \notin {p, q}
      PROVE  /\ a \o b \o c \in Seq(S) /\ Apart(r, a \o b \o c)
             /\ On(r, a \o b \o c) => r.assigned \in {p, q, u}
  <2> DEFINE ab == a \o b
  <2> HIDE DEF ab
  <2>1. ab \in Seq(S) /\ Apart(r, ab) /\ (On(r, ab) => r.assigned \in {p, q})
    BY <1>1 DEF ab
  <2>2. ab \o c \in Seq(S) /\ Apart(r, ab \o c) /\ (On(r, ab \o c) => r.assigned \in {p, q, u})
    BY <1>2, <2>1, Joined DEF Theirs
  <2> QED BY <2>2 DEF ab
<1>3. ASSUME Theirs(r, c, S, u), u \notin {p, q}, Theirs(r, d, S, v), v \notin {p, q, u}
      PROVE  Apart(r, a \o b \o c \o d)
  <2> DEFINE abc == a \o b \o c
  <2> HIDE DEF abc
  <2>1. abc \in Seq(S) /\ Apart(r, abc) /\ (On(r, abc) => r.assigned \in {p, q, u})
    BY <1>2, <1>3 DEF abc
  <2>2. Apart(r, abc \o d)
    BY <1>3, <2>1, Joined DEF Theirs
  <2> QED BY <2>2 DEF abc
<1> QED BY <1>1, <1>2, <1>3

LEMMA TheirDesk ==
  ASSUME NEW orders, NEW ph, NEW who, NEW r
  PROVE  /\ Theirs(r, Desk(orders, who), SUBSET orders, who)
         /\ Theirs(r, Desk(In(orders, {ph}), who), SUBSET orders, who)
         /\ Theirs(r, <<Strict(In(orders, {ph}))>>, SUBSET orders, "Unassigned")
<1>1. In(orders, {ph}) \subseteq orders
  BY DEF In
<1>2. /\ Strict(In(orders, {ph})) \in SUBSET orders
      /\ r \in Strict(In(orders, {ph})) => r.assigned = "Unassigned"
  BY <1>1 DEF Strict, Of
<1>3. Theirs(r, Desk(orders, who), SUBSET orders, who)
  BY DeskOn DEF Theirs
<1>4. Theirs(r, Desk(In(orders, {ph}), who), SUBSET orders, who)
  BY <1>1, DeskOn DEF Theirs
<1>5. Theirs(r, <<Strict(In(orders, {ph}))>>, SUBSET orders, "Unassigned")
  BY <1>2, OneOn DEF Theirs
<1> QED BY <1>3, <1>4, <1>5

LEMMA PhasesApart ==
  ASSUME NEW orders, NEW r
  PROVE  /\ Apart(r, WestPhases(orders).Phase3)
         /\ Apart(r, WestPhases(orders).Phase4)
         /\ Apart(r, WestPhases(orders).Phase4c)
         /\ Apart(r, EastPhases(orders).Phase5)
         /\ Apart(r, EastPhases(orders).Phase7)
         /\ Apart(r, EastPhases(orders).Phase8)
<1> DEFINE S == SUBSET orders
           Here(ph) == In(orders, {ph})
           Alone(ph) == <<Strict(Here(ph))>>
<1>1. \A ph, who : /\ Theirs(r, Desk(orders, who), S, who)
                   /\ Theirs(r, Desk(Here(ph), who), S, who)
                   /\ Theirs(r, Alone(ph), S, "Unassigned")
  BY TheirDesk
<1> HIDE DEF S, Here, Alone
<1>2. Apart(r, Desk(orders, "Alexander") \o Alone("3") \o Desk(Here("3"), "Victor") \o Desk(Here("3"), "Dennis"))
  <2> DEFINE a == Desk(orders, "Alexander")
             b == Alone("3")
             c == Desk(Here("3"), "Victor")
             d == Desk(Here("3"), "Dennis")
  <2>1. /\ Theirs(r, a, S, "Alexander") /\ Theirs(r, b, S, "Unassigned")
        /\ Theirs(r, c, S, "Victor") /\ Theirs(r, d, S, "Dennis")
    BY <1>1
  <2> HIDE DEF a, b, c, d
  <2>2. Apart(r, a \o b \o c \o d)
    BY <2>1, PeopleApart
  <2> QED BY <2>2 DEF a, b, c, d
<1>3. Apart(r, Desk(orders, "Rayniel") \o Alone("4") \o Desk(Here("4"), "Diego") \o Desk(Here("4"), "Dennis"))
  <2> DEFINE a == Desk(orders, "Rayniel")
             b == Alone("4")
             c == Desk(Here("4"), "Diego")
             d == Desk(Here("4"), "Dennis")
  <2>1. /\ Theirs(r, a, S, "Rayniel") /\ Theirs(r, b, S, "Unassigned")
        /\ Theirs(r, c, S, "Diego") /\ Theirs(r, d, S, "Dennis")
    BY <1>1
  <2> HIDE DEF a, b, c, d
  <2>2. Apart(r, a \o b \o c \o d)
    BY <2>1, PeopleApart
  <2> QED BY <2>2 DEF a, b, c, d
<1>4. Apart(r, Desk(Here("4C"), "Victor") \o Alone("4C"))
  BY <1>1, PeopleApart
<1>5. Apart(r, Desk(Here("5"), "Latrell") \o Alone("5") \o Desk(Here("5"), "Yomar"))
  <2> DEFINE a == Desk(Here("5"), "Latrell")
             b == Alone("5")
             c == Desk(Here("5"), "Yomar")
  <2>1. Theirs(r, a, S, "Latrell") /\ Theirs(r, b, S, "Unassigned") /\ Theirs(r, c, S, "Yomar")
    BY <1>1
  <2> HIDE DEF a, b, c
  <2>2. Apart(r, a \o b \o c)
    BY <2>1, PeopleApart
  <2> QED BY <2>2 DEF a, b, c
<1>6. Apart(r, Desk(Here("7"), "Barron") \o Alone("7"))
  BY <1>1, PeopleApart
<1>7. Apart(r, Desk(Here("8"), "Antonio") \o Alone("8"))
  BY <1>1, PeopleApart
<1> QED BY <1>2, <1>3, <1>4, <1>5, <1>6, <1>7 DEF WestPhases, EastPhases, Here, Alone

\* The technicians of a "By tech" sheet are distinct, and none is the manager.
LEMMA TechsApart ==
  ASSUME NEW orders, NEW r, NEW manager, NEW techs, Len(techs) \in Nat,
         \A i, j \in 1..Len(techs) : techs[i] = techs[j] => i = j,
         \A i \in 1..Len(techs) : techs[i] # manager
  PROVE  Apart(r, ByTech(orders, manager, techs))
<1> DEFINE first == <<Of(orders, manager)>>
           rest == [i \in 1..Len(techs) |-> Having(Of(orders, techs[i]), "In progress")]
<1>1. Of(orders, manager) \in SUBSET orders /\ (r \in Of(orders, manager) => r.assigned = manager)
  BY DEF Of
<1>2. first \in Seq(SUBSET orders) /\ Apart(r, first) /\ (On(r, first) => r.assigned = manager)
  BY <1>1, OneOn
<1>3. \A i \in 1..Len(techs) :
        /\ rest[i] \in SUBSET orders
        /\ r \in rest[i] => r.assigned = techs[i]
  BY DEF Having, Of
<1>4. rest \in Seq(SUBSET orders) /\ Len(rest) = Len(techs)
  <2> HIDE DEF rest
  <2>1. rest = [i \in 1..Len(techs) |-> rest[i]]
    BY DEF rest
  <2> QED BY <1>3, <2>1
<1> HIDE DEF first, rest
<1>5. Apart(r, rest)
  BY <1>3, <1>4 DEF Apart
<1>6. On(r, rest) => r.assigned # manager
  BY <1>3, <1>4 DEF On
<1> QED BY <1>2, <1>4, <1>5, <1>6, Joined DEF ByTech, first, rest

LEMMA OverviewsApart ==
  ASSUME NEW orders, NEW r
  PROVE  /\ Apart(r, WestOverview(orders).ByTech) /\ Apart(r, WestOverview(orders).Unassign)
         /\ Apart(r, EastOverview(orders).ByTech) /\ Apart(r, EastOverview(orders).Unassign)
<1>1. Apart(r, ByTech(orders, "Mabi", <<"Dennis", "Rayniel", "Alexander", "Diego", "Victor">>))
  <2> DEFINE techs == <<"Dennis", "Rayniel", "Alexander", "Diego", "Victor">>
  <2>1. /\ Len(techs) = 5 /\ techs[1] = "Dennis" /\ techs[2] = "Rayniel" /\ techs[3] = "Alexander"
        /\ techs[4] = "Diego" /\ techs[5] = "Victor"
    OBVIOUS
  <2> HIDE DEF techs
  <2>2. 1..Len(techs) = {1, 2, 3, 4, 5}
    BY <2>1
  <2>3. /\ Len(techs) \in Nat
        /\ \A i, j \in 1..Len(techs) : techs[i] = techs[j] => i = j
        /\ \A i \in 1..Len(techs) : techs[i] # "Mabi"
    BY <2>1, <2>2
  <2>4. Apart(r, ByTech(orders, "Mabi", techs))
    BY <2>3, TechsApart
  <2> QED BY <2>4 DEF techs
<1>2. Apart(r, ByTech(In(orders, PHASES_EAST), "Roberto", <<"Latrell", "Yomar", "Barron", "Antonio">>))
  <2> DEFINE techs == <<"Latrell", "Yomar", "Barron", "Antonio">>
  <2>1. /\ Len(techs) = 4 /\ techs[1] = "Latrell" /\ techs[2] = "Yomar" /\ techs[3] = "Barron"
        /\ techs[4] = "Antonio"
    OBVIOUS
  <2> HIDE DEF techs
  <2>2. 1..Len(techs) = {1, 2, 3, 4}
    BY <2>1
  <2>3. /\ Len(techs) \in Nat
        /\ \A i, j \in 1..Len(techs) : techs[i] = techs[j] => i = j
        /\ \A i \in 1..Len(techs) : techs[i] # "Roberto"
    BY <2>1, <2>2
  <2>4. Apart(r, ByTech(In(orders, PHASES_EAST), "Roberto", techs))
    BY <2>3, TechsApart
  <2> QED BY <2>4 DEF techs
<1>3. \A ph : r \in Broad(In(orders, {ph})) => r.ph = ph
  BY DEF Broad, In
<1>4. Apart(r, <<Broad(In(orders, {"3"})), Broad(In(orders, {"4"})), Broad(In(orders, {"4C"}))>>)
  <2> DEFINE three == <<Broad(In(orders, {"3"})), Broad(In(orders, {"4"})), Broad(In(orders, {"4C"}))>>
  <2>1. /\ Len(three) = 3 /\ (r \in three[1] => r.ph = "3") /\ (r \in three[2] => r.ph = "4")
        /\ r \in three[3] => r.ph = "4C"
    BY <1>3
  <2> HIDE DEF three
  <2>2. 1..Len(three) = {1, 2, 3}
    BY <2>1
  <2>3. Apart(r, three)
    BY <2>1, <2>2 DEF Apart
  <2> QED BY <2>3 DEF three
<1>5. Apart(r, [i \in 1..3 |-> Broad(In(orders, {<<"5", "7", "8">>[i]}))])
  <2> DEFINE phases == <<"5", "7", "8">>
             three == [i \in 1..3 |-> Broad(In(orders, {phases[i]}))]
  <2>1. Len(three) = 3 /\ \A i \in 1..3 : r \in three[i] => r.ph = phases[i]
    BY <1>3
  <2>2. \A i, j \in 1..3 : phases[i] = phases[j] => i = j
    OBVIOUS
  <2> HIDE DEF three, phases
  <2>3. Apart(r, three)
    BY <2>1, <2>2 DEF Apart
  <2> QED BY <2>3 DEF three, phases
<1> QED BY <1>1, <1>2, <1>4, <1>5 DEF WestOverview, EastOverview

LEMMA SheetsDisjoint == ASSUME NEW orders PROVE PhaseSheetsDisjoint(orders)
<1> SUFFICES ASSUME NEW r \in orders,
                    NEW sheet \in
                      {WestPhases(orders).Phase3, WestPhases(orders).Phase4, WestPhases(orders).Phase4c,
                       EastPhases(orders).Phase5, EastPhases(orders).Phase7, EastPhases(orders).Phase8}
                      \cup {o[s] : o \in {WestOverview(orders), EastOverview(orders)},
                                  s \in {"ByTech", "Unassign"}}
             PROVE  Listed(r, sheet) <= 1
  BY DEF PhaseSheetsDisjoint
<1>1. Apart(r, sheet)
  BY PhasesApart, OverviewsApart
<1> QED BY <1>1, ApartOnce

LEMMA MadeReadyOnce == ASSUME NEW orders PROVE MakeReadyOnce(orders)
<1> DEFINE west == WestPhases(orders).MakeReady[1]
           east == EastPhases(orders).MakeReady[1]
<1> SUFFICES ASSUME NEW r \in MakeReady(orders)
             PROVE  (IF r \in west THEN {"Mabi"} ELSE {}) \cup (IF r \in east THEN {"Robert"} ELSE {})
                      = IF r.ph = "4S" THEN {} ELSE {GroupForPhase(r.ph)} \ {"Other"}
  BY DEF MakeReadyOnce
<1>1. /\ r \in west <=> r.ph \in PHASES_WEST
      /\ r \in east <=> r.ph \in PHASES_EAST
  BY DEF WestPhases, EastPhases, MakeReady, In
<1> QED BY <1>1 DEF PHASES_WEST, PHASES_EAST, GroupForPhase, ROBERT_PHASES, MABI_PHASES

\* Sections that list some orders only.
LEMMA ListedWithin ==
  ASSUME NEW A, NEW sections \in Seq(SUBSET A), NEW r, Listed(r, sections) # 0
  PROVE  r \in A
<1>1. CASE {i \in 1..Len(sections) : r \in sections[i]} = {}
  BY <1>1, FS_EmptySet DEF Listed
<1>2. CASE {i \in 1..Len(sections) : r \in sections[i]} # {}
  <2>1. PICK i \in 1..Len(sections) : r \in sections[i]
    BY <1>2
  <2>2. sections[i] \in SUBSET A
    BY <2>1, ElementOfSeq
  <2> QED BY <2>1, <2>2
<1> QED BY <1>1, <1>2

\* A filter takes nothing in.
LEMMA FiltersNarrow ==
  ASSUME NEW list, NEW x
  PROVE  /\ Of(list, x) \subseteq list /\ Having(list, x) \subseteq list /\ Broad(list) \subseteq list
         /\ Strict(list) \subseteq list /\ MakeReady(list) \subseteq list /\ In(list, x) \subseteq list
<1>1. Of(list, x) \subseteq list
  BY DEF Of
<1>2. Having(list, x) \subseteq list
  BY DEF Having
<1>3. Broad(list) \subseteq list /\ Strict(list) \subseteq list
  BY DEF Broad, Strict, Of
<1>4. MakeReady(list) \subseteq list
  BY DEF MakeReady
<1>5. In(list, x) \subseteq list
  BY DEF In
<1> QED BY <1>1, <1>2, <1>3, <1>4, <1>5

LEMMA DeskWithin ==
  ASSUME NEW A, NEW here, NEW who, Of(here, who) \subseteq A
  PROVE  Desk(here, who) \in Seq(SUBSET A)
<1> DEFINE a == Having(Of(here, who), "In progress")
           b == Having(Of(here, who), "On hold")
<1>1. a \in SUBSET A /\ b \in SUBSET A
  BY FiltersNarrow
<1> HIDE DEF a, b
<1>2. <<a, b>> \in Seq(SUBSET A)
  BY <1>1
<1> QED BY <1>2 DEF Desk, a, b

LEMMA ByTechWithin ==
  ASSUME NEW A, NEW here, NEW manager, NEW techs, Len(techs) \in Nat, Of(here, manager) \subseteq A,
         \A i \in 1..Len(techs) : Of(here, techs[i]) \subseteq A
  PROVE  ByTech(here, manager, techs) \in Seq(SUBSET A)
<1> DEFINE first == <<Of(here, manager)>>
           rest == [i \in 1..Len(techs) |-> Having(Of(here, techs[i]), "In progress")]
<1>1. first \in Seq(SUBSET A)
  OBVIOUS
<1>2. \A i \in 1..Len(techs) : Having(Of(here, techs[i]), "In progress") \in SUBSET A
  <2> TAKE i \in 1..Len(techs)
  <2> QED BY FiltersNarrow
<1>3. rest \in Seq(SUBSET A)
  <2>1. rest = [i \in 1..Len(techs) |-> rest[i]] /\ \A i \in 1..Len(techs) : rest[i] \in SUBSET A
    BY <1>2
  <2> HIDE DEF rest
  <2> QED BY <2>1
<1> HIDE DEF first, rest
<1>4. first \o rest \in Seq(SUBSET A)
  BY <1>1, <1>3, ConcatProperties
<1> QED BY <1>4 DEF ByTech, first, rest

LEMMA FourJoined ==
  ASSUME NEW S, NEW a \in Seq(S), NEW b \in Seq(S)
  PROVE  /\ a \o b \in Seq(S)
         /\ \A c \in Seq(S) : a \o b \o c \in Seq(S)
         /\ \A c, d \in Seq(S) : a \o b \o c \o d \in Seq(S)
BY ConcatProperties

LEMMA WestWithin ==
  ASSUME NEW orders, NEW A,
         A = {q \in orders : q.ph \in PHASES_WEST \/ q.assigned \in MabisPeople \cup {"Unassigned"}}
  PROVE  /\ \A s \in DOMAIN WestOverview(orders) : WestOverview(orders)[s] \in Seq(SUBSET A)
         /\ \A s \in DOMAIN WestPhases(orders) : WestPhases(orders)[s] \in Seq(SUBSET A)
<1> DEFINE Here(ph) == In(orders, {ph})
           techs == <<"Dennis", "Rayniel", "Alexander", "Diego", "Victor">>
<1>1. \A ph \in PHASES_WEST : Here(ph) \subseteq A
  BY DEF In
<1>2. In(orders, PHASES_WEST) \subseteq A
  BY DEF In
<1>3. Strict(orders) \subseteq A /\ \A who \in MabisPeople : Of(orders, who) \subseteq A
  BY DEF Strict, Of
<1>4. \A ph \in PHASES_WEST : /\ Broad(Here(ph)) \subseteq A /\ Strict(Here(ph)) \subseteq A
                               /\ \A who : Of(Here(ph), who) \subseteq A
  <2> TAKE ph \in PHASES_WEST
  <2> QED BY <1>1, FiltersNarrow
<1>5. MakeReady(In(orders, PHASES_WEST)) \subseteq A
  BY <1>2, FiltersNarrow
<1>6. /\ "3" \in PHASES_WEST /\ "4" \in PHASES_WEST /\ "4C" \in PHASES_WEST
      /\ "Mabi" \in MabisPeople /\ "Alexander" \in MabisPeople /\ "Rayniel" \in MabisPeople
  BY DEF PHASES_WEST, MabisPeople
<1>7. ByTech(orders, "Mabi", techs) \in Seq(SUBSET A)
  <2>1. /\ Len(techs) = 5 /\ techs[1] = "Dennis" /\ techs[2] = "Rayniel" /\ techs[3] = "Alexander"
        /\ techs[4] = "Diego" /\ techs[5] = "Victor"
    OBVIOUS
  <2> HIDE DEF techs
  <2>2. Len(techs) \in Nat /\ \A i \in 1..Len(techs) : techs[i] \in MabisPeople
    <3>1. 1..Len(techs) = {1, 2, 3, 4, 5}
      BY <2>1
    <3> QED BY <2>1, <3>1 DEF MabisPeople
  <2> QED BY <1>3, <1>6, <2>2, ByTechWithin
<1> HIDE DEF Here, techs
<1>8. \A ph \in PHASES_WEST : /\ <<Strict(Here(ph))>> \in Seq(SUBSET A)
                               /\ \A who : Desk(Here(ph), who) \in Seq(SUBSET A)
  BY <1>4, DeskWithin
<1>9. Desk(orders, "Alexander") \in Seq(SUBSET A) /\ Desk(orders, "Rayniel") \in Seq(SUBSET A)
  BY <1>3, <1>6, DeskWithin
<1>10. /\ Desk(orders, "Alexander") \o <<Strict(Here("3"))>>
            \o Desk(Here("3"), "Victor") \o Desk(Here("3"), "Dennis") \in Seq(SUBSET A)
       /\ Desk(orders, "Rayniel") \o <<Strict(Here("4"))>>
            \o Desk(Here("4"), "Diego") \o Desk(Here("4"), "Dennis") \in Seq(SUBSET A)
       /\ Desk(Here("4C"), "Victor") \o <<Strict(Here("4C"))>> \in Seq(SUBSET A)
  BY <1>6, <1>8, <1>9, FourJoined
<1>11. <<In(orders, PHASES_WEST)>> \in Seq(SUBSET A) /\ <<MakeReady(In(orders, PHASES_WEST))>> \in Seq(SUBSET A)
  BY <1>2, <1>5
<1>12. /\ <<In(orders, PHASES_WEST), Strict(orders), Broad(Here("3")), Broad(Here("4")), Broad(Here("4C"))>>
            \in Seq(SUBSET A)
       /\ <<Broad(Here("3")), Broad(Here("4")), Broad(Here("4C"))>> \in Seq(SUBSET A)
  <2> DEFINE a == In(orders, PHASES_WEST)
             b == Strict(orders)
             c == Broad(Here("3"))
             d == Broad(Here("4"))
             e == Broad(Here("4C"))
  <2>1. a \in SUBSET A /\ b \in SUBSET A /\ c \in SUBSET A /\ d \in SUBSET A /\ e \in SUBSET A
    BY <1>2, <1>3, <1>4, <1>6
  <2> HIDE DEF a, b, c, d, e
  <2>2. <<a, b, c, d, e>> \in Seq(SUBSET A) /\ <<c, d, e>> \in Seq(SUBSET A)
    BY <2>1
  <2> QED BY <2>2 DEF a, b, c, d, e
<1>13. /\ WestOverview(orders).ServiceRequest \in Seq(SUBSET A)
       /\ WestOverview(orders).FullUnassign \in Seq(SUBSET A)
       /\ WestOverview(orders).ByTech \in Seq(SUBSET A)
       /\ WestOverview(orders).Unassign \in Seq(SUBSET A)
       /\ DOMAIN WestOverview(orders) = {"ServiceRequest", "FullUnassign", "ByTech", "Unassign"}
  BY <1>7, <1>11, <1>12 DEF WestOverview, Here, techs
<1>14. /\ WestPhases(orders).Phase3 \in Seq(SUBSET A)
       /\ WestPhases(orders).Phase4 \in Seq(SUBSET A)
       /\ WestPhases(orders).Phase4c \in Seq(SUBSET A)
       /\ WestPhases(orders).MakeReady \in Seq(SUBSET A)
       /\ DOMAIN WestPhases(orders) = {"Phase3", "Phase4", "Phase4c", "MakeReady"}
  BY <1>10, <1>11 DEF WestPhases, Here
<1> QED BY <1>13, <1>14

LEMMA EastWithin ==
  ASSUME NEW orders, NEW A, A = {q \in orders : q.ph \in PHASES_EAST},
         NEW B, B = {q \in orders : q.ph \in PHASES_EAST \cup PHASES_WEST}
  PROVE  /\ \A s \in DOMAIN EastPhases(orders) : EastPhases(orders)[s] \in Seq(SUBSET A)
         /\ \A s \in DOMAIN EastOverview(orders) :
              EastOverview(orders)[s] \in IF s = "FullUnassign" THEN Seq(SUBSET B) ELSE Seq(SUBSET A)
<1> DEFINE Here(ph) == In(orders, {ph})
           east == In(orders, PHASES_EAST)
           west == In(orders, PHASES_WEST)
           techs == <<"Latrell", "Yomar", "Barron", "Antonio">>
<1>1. \A ph \in PHASES_EAST : Here(ph) \subseteq A
  BY DEF In
<1>2. east \subseteq A /\ east \subseteq B /\ west \subseteq B
  BY DEF In
<1>3. \A ph \in PHASES_EAST : /\ Broad(Here(ph)) \subseteq A /\ Strict(Here(ph)) \subseteq A
                               /\ \A who : Of(Here(ph), who) \subseteq A
  <2> TAKE ph \in PHASES_EAST
  <2> QED BY <1>1, FiltersNarrow
<1>4. "5" \in PHASES_EAST /\ "7" \in PHASES_EAST /\ "8" \in PHASES_EAST
  BY DEF PHASES_EAST
<1>5. /\ Strict(east) \subseteq B /\ Broad(east) \subseteq B /\ Broad(west) \subseteq B
      /\ MakeReady(east) \subseteq A /\ \A who : Of(east, who) \subseteq A
  <2> HIDE DEF east, west
  <2> QED BY <1>2, FiltersNarrow
<1> HIDE DEF Here
<1>6. ByTech(east, "Roberto", techs) \in Seq(SUBSET A)
  <2>1. Len(techs) \in Nat
    OBVIOUS
  <2> HIDE DEF techs, east
  <2> QED BY <1>5, <2>1, ByTechWithin
<1> HIDE DEF techs, east, west
<1>7. \A ph \in PHASES_EAST : /\ <<Strict(Here(ph))>> \in Seq(SUBSET A)
                               /\ \A who : Desk(Here(ph), who) \in Seq(SUBSET A)
  BY <1>3, DeskWithin
<1>8. /\ Desk(Here("5"), "Latrell") \o <<Strict(Here("5"))>> \o Desk(Here("5"), "Yomar") \in Seq(SUBSET A)
      /\ Desk(Here("7"), "Barron") \o <<Strict(Here("7"))>> \in Seq(SUBSET A)
      /\ Desk(Here("8"), "Antonio") \o <<Strict(Here("8"))>> \in Seq(SUBSET A)
  BY <1>4, <1>7, FourJoined
<1>9. <<east>> \in Seq(SUBSET A) /\ <<MakeReady(east)>> \in Seq(SUBSET A)
  BY <1>2, <1>5
<1>10. <<east, Strict(east), east, Broad(east), west, Broad(west)>> \in Seq(SUBSET B)
  <2> DEFINE a == Strict(east)
             b == Broad(east)
             c == Broad(west)
  <2>1. a \in SUBSET B /\ b \in SUBSET B /\ c \in SUBSET B /\ east \in SUBSET B /\ west \in SUBSET B
    BY <1>2, <1>5
  <2> HIDE DEF a, b, c
  <2>2. <<east, a, east, b, west, c>> \in Seq(SUBSET B)
    BY <2>1
  <2> QED BY <2>2 DEF a, b, c
<1>11. [i \in 1..3 |-> Broad(Here(<<"5", "7", "8">>[i]))] \in Seq(SUBSET A)
  <2> DEFINE phases == <<"5", "7", "8">>
  <2>1. \A i \in 1..3 : phases[i] \in PHASES_EAST
    BY <1>4
  <2> HIDE DEF phases
  <2>2. \A i \in 1..3 : Broad(Here(phases[i])) \in SUBSET A
    BY <1>3, <2>1
  <2> DEFINE three == [i \in 1..3 |-> Broad(Here(phases[i]))]
  <2>3. three \in Seq(SUBSET A)
    BY <2>2
  <2> QED BY <2>3 DEF phases
<1>12. /\ EastOverview(orders).ServiceRequest \in Seq(SUBSET A)
       /\ EastOverview(orders).FullUnassign \in Seq(SUBSET B)
       /\ EastOverview(orders).ByTech \in Seq(SUBSET A)
       /\ EastOverview(orders).Unassign \in Seq(SUBSET A)
       /\ DOMAIN EastOverview(orders) = {"ServiceRequest", "FullUnassign", "ByTech", "Unassign"}
  BY <1>6, <1>9, <1>10, <1>11 DEF EastOverview, Here, east, west, techs
<1>13. /\ EastPhases(orders).Phase5 \in Seq(SUBSET A)
       /\ EastPhases(orders).Phase7 \in Seq(SUBSET A)
       /\ EastPhases(orders).Phase8 \in Seq(SUBSET A)
       /\ EastPhases(orders).MakeReady \in Seq(SUBSET A)
       /\ DOMAIN EastPhases(orders) = {"Phase5", "Phase7", "Phase8", "MakeReady"}
  BY <1>8, <1>9 DEF EastPhases, Here, east
<1> QED BY <1>12, <1>13

LEMMA PhasesKept == ASSUME NEW orders PROVE KeptToPhases(orders)
<1> SUFFICES ASSUME NEW r \in orders
             PROVE  /\ \A o \in {WestOverview(orders), WestPhases(orders)} :
                         Shows(o, r) => r.ph \in PHASES_WEST \/ r.assigned \in MabisPeople \cup {"Unassigned"}
                    /\ Shows(EastPhases(orders), r) => r.ph \in PHASES_EAST
                    /\ \A s \in DOMAIN EastOverview(orders) :
                         Listed(r, EastOverview(orders)[s]) # 0
                           => r.ph \in PHASES_EAST \/ (s = "FullUnassign" /\ r.ph \in PHASES_WEST)
  BY DEF KeptToPhases
<1> PICK W : W = {q \in orders : q.ph \in PHASES_WEST \/ q.assigned \in MabisPeople \cup {"Unassigned"}}
  OBVIOUS
<1> PICK A : A = {q \in orders : q.ph \in PHASES_EAST}
  OBVIOUS
<1> PICK B : B = {q \in orders : q.ph \in PHASES_EAST \cup PHASES_WEST}
  OBVIOUS
<1>1. ASSUME NEW o \in {WestOverview(orders), WestPhases(orders)}, Shows(o, r) PROVE r \in W
  <2>1. PICK s \in DOMAIN o : Listed(r, o[s]) # 0
    BY <1>1 DEF Shows
  <2>2. o[s] \in Seq(SUBSET W)
    BY <2>1, WestWithin
  <2> QED BY <2>1, <2>2, ListedWithin
<1>2. ASSUME Shows(EastPhases(orders), r) PROVE r \in A
  <2>1. PICK s \in DOMAIN EastPhases(orders) : Listed(r, EastPhases(orders)[s]) # 0
    BY <1>2 DEF Shows
  <2>2. EastPhases(orders)[s] \in Seq(SUBSET A)
    BY <2>1, EastWithin
  <2> QED BY <2>1, <2>2, ListedWithin
<1>3. ASSUME NEW s \in DOMAIN EastOverview(orders), Listed(r, EastOverview(orders)[s]) # 0
      PROVE  r \in IF s = "FullUnassign" THEN B ELSE A
  BY <1>3, EastWithin, ListedWithin
<1> QED BY <1>1, <1>2, <1>3

LEMMA OnceUnassigned == ASSUME NEW orders PROVE UnassignedOnce(orders)
<1> SUFFICES ASSUME NEW r \in Broad(orders)
             PROVE  Listed(r, WestOverview(orders).Unassign) + Listed(r, EastOverview(orders).Unassign)
                      = IF r.ph \in PHASES_WEST \cup PHASES_EAST THEN 1 ELSE 0
  BY DEF UnassignedOnce
<1> DEFINE west == WestOverview(orders).Unassign
           east == EastOverview(orders).Unassign
<1>1. \A ph : r \in Broad(In(orders, {ph})) <=> r.ph = ph
  BY DEF Broad, In
<1>2. /\ Len(west) = 3 /\ (r \in west[1] <=> r.ph = "3") /\ (r \in west[2] <=> r.ph = "4")
      /\ r \in west[3] <=> r.ph = "4C"
  BY <1>1 DEF WestOverview
<1>3. /\ Len(east) = 3 /\ (r \in east[1] <=> r.ph = "5") /\ (r \in east[2] <=> r.ph = "7")
      /\ r \in east[3] <=> r.ph = "8"
  <2> DEFINE phases == <<"5", "7", "8">>
             three == [i \in 1..3 |-> Broad(In(orders, {phases[i]}))]
  <2>1. Len(three) = 3 /\ \A i \in 1..3 : r \in three[i] <=> r.ph = phases[i]
    <3> HIDE DEF phases
    <3>1. Len(three) = 3
      OBVIOUS
    <3>2. ASSUME NEW i \in 1..3 PROVE r \in three[i] <=> r.ph = phases[i]
      <4>1. three[i] = Broad(In(orders, {phases[i]}))
        OBVIOUS
      <4> QED BY <1>1, <4>1
    <3> QED BY <3>1, <3>2
  <2>2. phases[1] = "5" /\ phases[2] = "7" /\ phases[3] = "8"
    OBVIOUS
  <2>3. east = three
    BY DEF EastOverview
  <2> HIDE DEF phases, three, east
  <2> QED BY <2>1, <2>2, <2>3
<1>4. Apart(r, west) /\ Apart(r, east)
  BY OverviewsApart
<1> HIDE DEF west, east
<1>5. 1..3 = {1, 2, 3}
  OBVIOUS
<1>6. Listed(r, west) \in {0, 1} /\ (Listed(r, west) = 0 <=> r.ph \notin PHASES_WEST)
  BY <1>2, <1>4, <1>5, ApartOnce DEF PHASES_WEST
<1>7. Listed(r, east) \in {0, 1} /\ (Listed(r, east) = 0 <=> r.ph \notin PHASES_EAST)
  BY <1>3, <1>4, <1>5, ApartOnce DEF PHASES_EAST
<1>8. r.ph \notin PHASES_WEST \/ r.ph \notin PHASES_EAST
  BY DEF PHASES_WEST, PHASES_EAST
<1> QED BY <1>6, <1>7, <1>8 DEF west, east

\* OrdersOnTheirSheets: for any file, any occupancy and any units, the validator's
\* workbook has an order that is unassigned, in progress or on hold on one sheet of its
\* manager's people, the reports have none twice on a sheet, and what they list of the
\* other manager's phases is what the filters leave open (build_work_order_report,
\* WEST_CONFIG and EAST_CONFIG of active_sr_report.py).
THEOREM OrdersSorted == Spec => []OrdersOnTheirSheets
<1>1. OrdersOnTheirSheets
  <2>1. /\ BuildWorkOrderReport(Validate).Robert = GroupSheets(Validate, "Robert")
        /\ BuildWorkOrderReport(Validate).Mabi = GroupSheets(Validate, "Mabi")
    BY DEF BuildWorkOrderReport
  <2>2. /\ OnOneDesk(Validate, BuildWorkOrderReport(Validate).Robert)
        /\ OnOneDesk(Validate, BuildWorkOrderReport(Validate).Mabi)
    BY <2>1, SheetsOnce
  <2> QED BY <2>2, SheetsDisjoint, MadeReadyOnce, OnceUnassigned, PhasesKept DEF OrdersOnTheirSheets
<1> QED BY <1>1, PTL

-----------------------------------------------------------------------------
(* Types and keys *)

\* The last of finitely many days.
LEMMA LastDay ==
  ASSUME NEW S, S \subseteq Nat, IsFiniteSet(S), S # {}
  PROVE  Max(S) \in S
<1> DEFINE Later(x) == {y \in S : y > x}
           sets == {Later(x) : x \in S}
<1>1. FiniteSubsetsOf(S) = SUBSET S
  BY FS_FiniteSubsetsOfFinite
<1>2. IsWellFoundedOn(StrictSubsetOrdering(S), SUBSET S)
  BY <1>1, FS_StrictSubsetOrderingWellFounded
<1>3. sets \subseteq SUBSET S /\ sets # {}
  OBVIOUS
<1>4. PICK least \in sets : \A s \in sets : ~(<<s, least>> \in StrictSubsetOrdering(S))
  <2> HIDE DEF sets
  <2> QED BY <1>2, <1>3, WFMin
<1>5. PICK x \in S : least = Later(x)
  BY <1>4
<1>6. \A y \in S : x >= y
  <2> SUFFICES ASSUME NEW y \in S, ~(x >= y) PROVE FALSE
    OBVIOUS
  <2>1. y \in Later(x) /\ y \notin Later(y) /\ Later(y) \subseteq Later(x)
    <3>1. x \in Nat /\ y \in Nat /\ y > x
      OBVIOUS
    <3>2. ASSUME NEW z \in S, z > y PROVE z > x
      BY <3>1, <3>2
    <3>3. ~(y > y)
      BY <3>1
    <3>4. Later(y) \subseteq Later(x)
      BY <3>2
    <3> QED BY <3>1, <3>3, <3>4
  <2>2. <<Later(y), Later(x)>> \in StrictSubsetOrdering(S)
    <3> HIDE DEF Later
    <3>1. Later(x) \in SUBSET S /\ Later(y) \in SUBSET S
      BY DEF Later
    <3>2. Later(y) \subseteq Later(x) /\ Later(y) # Later(x)
      BY <2>1
    <3> QED BY <3>1, <3>2 DEF StrictSubsetOrdering
  <2> QED BY <1>4, <1>5, <2>2
<1> QED BY <1>6 DEF Max

\* What ingest_resident_activity keeps of a unit is one of the file's dates.
LEMMA KeptDay ==
  ASSUME NEW file \in Activity, NEW code, \E r \in file : r.code = code
  PROVE  Kept(file, code) \in Days
<1> DEFINE all == {r \in file : r.code = code}
           current == {r \in all : r.current}
           which == IF current = {} THEN all ELSE current
           dates == {r.moveIn : r \in which}
<1>1. IsFiniteSet(file) /\ \A r \in file : r.moveIn \in Days
  BY RegistryConstants
<1>2. which \subseteq file /\ which # {}
  OBVIOUS
<1>3. IsFiniteSet(which)
  <2> HIDE DEF which
  <2> QED BY <1>1, <1>2, FS_Subset
<1>4. IsFiniteSet(dates)
  <2> DEFINE f == [r \in which |-> r.moveIn]
  <2> HIDE DEF which
  <2>1. f \in Surjection(which, dates)
    BY DEF Surjection
  <2> QED BY <1>3, <2>1, FS_Surjection
<1>5. dates \subseteq Days /\ dates # {} /\ Days \subseteq Nat
  BY <1>1, <1>2, RegistryConstants
<1>6. Max(dates) \in dates
  <2> HIDE DEF dates
  <2> QED BY <1>4, <1>5, LastDay
<1> QED BY <1>5, <1>6 DEF Kept

LEMMA MergedTables ==
  ASSUME NEW a \in Tables, NEW b \in Tables
  PROVE  Merged(a, b) \in Tables /\ Merged(a, b).units = a.units \cup b.units
<1>1. Tabled(a)
  BY DEF Tables, Tabled
<1>2. /\ Tabled(Merged(a, b))
      /\ Merged(a, b).phases = a.phases \cup b.phases
      /\ Merged(a, b).buildings = a.buildings \cup b.buildings
      /\ Merged(a, b).units = a.units \cup b.units
  BY <1>1, MergedIs
<1> DEFINE m == Merged(a, b)
<1> HIDE DEF m
<1>3. /\ m.phases \in SUBSET (Names \ {None})
      /\ m.buildings \in SUBSET (Names \X (Names \ {None}))
      /\ m.units \in SUBSET [code : Codes, phase : Names, building : Names]
  BY <1>2 DEF Tables, m
<1>4. m \in Tables
  BY <1>2, <1>3 DEF Tables, Tabled, m
<1> QED BY <1>2, <1>4 DEF m

LEMMA InsertTables ==
  ASSUME NEW code \in Codes, NEW phase \in Names, NEW building \in Names, NEW known
  PROVE  LET made == Missing(RowsFor(code, phase, building), known)
         IN  made \in Tables /\ \A u \in made.units : u.code = code
<1> DEFINE made == Missing(RowsFor(code, phase, building), known)
           unit == [code |-> code, phase |-> phase, building |-> building]
<1>1. /\ Tabled(made)
      /\ made.phases = ({phase} \ {None}) \ known.phases
      /\ made.buildings = (IF building = None THEN {} ELSE {<<phase, building>>}) \ known.buildings
      /\ made.units = {unit} \ known.units
  BY InsertsAre
<1>2. unit \in [code : Codes, phase : Names, building : Names] /\ unit.code = code
  OBVIOUS
<1> HIDE DEF made, unit
<1>3. /\ made.phases \in SUBSET (Names \ {None})
      /\ made.buildings \in SUBSET (Names \X (Names \ {None}))
      /\ made.units \in SUBSET [code : Codes, phase : Names, building : Names]
      /\ \A u \in made.units : u.code = code
  BY <1>1, <1>2
<1>4. made \in Tables
  BY <1>1, <1>3 DEF Tables, Tabled
<1> QED BY <1>3, <1>4 DEF made

LEMMA NoRowsTables == NoRows \in Tables /\ NoRows.units = {}
BY DEF NoRows, Tables

\* The names that a code gives, and those of a line of a file.
LEMMA NamesAre ==
  /\ None \in Names
  /\ \A code \in Codes : Parts(code)[1] \in Names /\ Parts(code)[2] \in Names
  /\ \A file \in MasterFiles : \A i \in 1..Len(file) :
       file[i].code \in Codes /\ PhaseFor(file[i]) \in Names /\ file[i].building \in Names
<1>1. None \in Names /\ "_DEFAULT" \in Names
  BY DEF Names
<1>2. ASSUME NEW code \in Codes PROVE Parts(code)[1] \in Names /\ Parts(code)[2] \in Names
  <2>1. code.apartment \in Apartments
    BY DEF Codes
  <2> QED BY <2>1 DEF Parts, Names
<1>3. ASSUME NEW file \in MasterFiles, NEW i \in 1..Len(file)
      PROVE  file[i].code \in Codes /\ PhaseFor(file[i]) \in Names /\ file[i].building \in Names
  <2>1. file[i] \in ToSet(file)
    BY DEF ToSet
  <2>2. {file[i].phase, file[i].building} \subseteq Names
    BY <2>1 DEF Names
  <2>3. file \in Seq(Lines)
    BY FilesAre
  <2>4. file[i].code \in Codes
    <3>1. file[i] \in Lines
      BY <2>3
    <3> QED BY <3>1 DEF Lines
  <2> QED BY <1>1, <2>2, <2>4 DEF PhaseFor
<1> QED BY <1>1, <1>2, <1>3

LEMMA Normed == \A code \in Codes : Norm(code) \in Codes
BY DEF Codes, Norm

\* No two of the units have a code in common.
OneEach(units) == \A u, v \in units : u.code = v.code => u = v

\* The rows of the tables; and that nobody inserts a unit whose code is there, is
\* among what they have inserted or among what somebody else has.
KeyInv ==
  /\ MasterShape /\ ReportShape
  /\ db \in Tables /\ master.made \in Tables /\ report.made \in Tables
  /\ OneEach(db.units \cup master.made.units \cup report.made.units)
  /\ master.step \in {"idle", "checked"} => master.made = NoRows
  /\ report.todo \subseteq Codes /\ master.i \in Nat \ {0}
  /\ master.step # "idle" => master.file \in MasterFiles

LEMMA InitKeys == Init => KeyInv
<1> SUFFICES ASSUME Init PROVE KeyInv
  OBVIOUS
<1>1. db = NoRows /\ master = Idle /\ report = Quiet
  BY DEF Init
<1>2. MasterShape /\ ReportShape
  BY <1>1 DEF MasterShape, ReportShape, Idle, Quiet
<1>3. /\ master.made = NoRows /\ report.made = NoRows /\ report.todo = {} /\ master.i = 1
      /\ master.step = "idle"
  BY <1>1 DEF Idle, Quiet
<1> QED BY <1>1, <1>2, <1>3, NoRowsTables DEF KeyInv, OneEach

\* A new unit of a code that nobody has.
LEMMA OneEachMore ==
  ASSUME NEW units, OneEach(units), NEW new, NEW code,
         \A u \in new : u.code = code, \A u, v \in new : u = v,
         \A u \in units : u.code # code
  PROVE  OneEach(units \cup new)
BY DEF OneEach

LEMMA StepKeys == KeyInv /\ ImportInv /\ PlaceInv /\ [Next]_vars => KeyInv'
<1> SUFFICES ASSUME KeyInv, ImportInv, PlaceInv, [Next]_vars PROVE KeyInv'
  OBVIOUS
<1>0. PlaceInv'
  BY StepPlaced
<1>1. ASSUME UNCHANGED <<db, master, report>> PROVE KeyInv'
  BY <1>1 DEF KeyInv, MasterShape, ReportShape
<1>2. ASSUME MasterShape', ReportShape', db' \in Tables, master'.made \in Tables, report'.made \in Tables,
             db'.units \cup master'.made.units \cup report'.made.units
               \subseteq db.units \cup master.made.units \cup report.made.units,
             master'.step \in {"idle", "checked"} => master'.made = NoRows,
             report'.todo \subseteq Codes, master'.i \in Nat \ {0},
             master'.step # "idle" => master'.file \in MasterFiles
      PROVE  KeyInv'
  <2>1. OneEach(db'.units \cup master'.made.units \cup report'.made.units)
    BY <1>2 DEF KeyInv, OneEach
  <2> QED BY <1>2, <2>1 DEF KeyInv
<1>3. CASE MasterBegin \/ MasterCache \/ MasterEnd
  <2>1. UNCHANGED <<db, report>>
    BY <1>3 DEF MasterBegin, MasterCache, MasterEnd
  <2>2. /\ MasterShape' /\ master'.i \in Nat \ {0}
        /\ master'.made = NoRows
        /\ master'.step # "idle" => master'.file \in MasterFiles
    <3>1. CASE MasterBegin
      <4>1. PICK file, plan :
              file \in MasterFiles /\ master' = [Idle EXCEPT !.step = "checked", !.file = file, !.plan = plan]
        BY <3>1 DEF MasterBegin
      <4>2. master' = [step |-> "checked", file |-> file, i |-> 1, known |-> NoRows, made |-> NoRows,
                       skipped |-> 0, plan |-> plan, alone |-> TRUE]
        BY <4>1 DEF Idle
      <4>3. MasterShape' /\ master'.i = 1 /\ master'.made = NoRows /\ master'.file = file
        BY <4>2 DEF MasterShape
      <4> QED BY <4>1, <4>3
    <3>2. CASE MasterCache
      BY <3>2 DEF MasterCache, MasterShape, KeyInv
    <3>3. CASE MasterEnd
      BY <3>3 DEF MasterEnd, MasterShape, Idle
    <3> QED BY <1>3, <3>1, <3>2, <3>3
  <2> QED BY <1>2, <2>1, <2>2, NoRowsTables DEF KeyInv, ReportShape
<1>4. CASE MasterRow
  <2> DEFINE r == master.file[master.i]
             new == MasterInserts(r)
  <2>1. /\ UNCHANGED <<db, report>> /\ ReportShape' /\ MasterShape'
        /\ master.step = "rows" /\ master'.step = "rows" /\ master.i <= Len(master.file)
        /\ master'.file = master.file
    BY <1>4 DEF MasterRow, KeyInv, MasterShape, ReportShape
  <2>2. master.file \in MasterFiles /\ master.i \in 1..Len(master.file)
    <3>1. master.file \in Seq(Lines) /\ master.file \in MasterFiles /\ master.i \in Nat \ {0}
      BY <2>1 DEF ImportInv, KeyInv
    <3>2. Len(master.file) \in Nat
      BY <3>1
    <3> QED BY <2>1, <3>1, <3>2
  <2>3. CASE Has(Merged(db, master.made), r.code)
    <3>1. master'.made = master.made /\ master'.i = master.i + 1
      BY <1>4, <2>3 DEF MasterRow, KeyInv, MasterShape
    <3> QED BY <1>2, <2>1, <3>1 DEF KeyInv
  <2>4. CASE ~Has(Merged(db, master.made), r.code)
    <3>1. /\ master'.made = Merged(master.made, new) /\ master'.i = master.i + 1
          /\ ~Clash(new, report.made)
      BY <1>4, <2>4 DEF MasterRow, KeyInv, MasterShape
    <3>2. r.code \in Codes /\ PhaseFor(r) \in Names /\ r.building \in Names
      BY <2>2, NamesAre
    <3>3. new \in Tables /\ \A u \in new.units : u.code = r.code
      <4> HIDE DEF r
      <4> DEFINE phase == PhaseFor(r)
      <4> HIDE DEF phase
      <4>1. new = Missing(RowsFor(r.code, phase, r.building), master.known)
        BY DEF MasterInserts, phase
      <4>2. r.code \in Codes /\ phase \in Names /\ r.building \in Names
        BY <3>2 DEF phase
      <4> HIDE DEF new
      <4> QED BY <4>1, <4>2, InsertTables
    <3>4. \A u, v \in new.units : u = v
      BY InsertsAre DEF MasterInserts
    <3>5. /\ master'.made \in Tables /\ master'.made.units = master.made.units \cup new.units
      BY <3>1, <3>3, MergedTables DEF KeyInv
    <3>6. \A u \in db.units \cup master.made.units : u.code # r.code
      BY <2>4, MergedTables DEF KeyInv, Has
    <3>7. new.units # {} => \A u \in report.made.units : u.code # r.code
      BY <3>1, <3>3 DEF Clash, Has
    <3> HIDE DEF new, r
    <3>8. OneEach((db.units \cup master.made.units \cup report.made.units) \cup new.units)
      <4>1. CASE new.units = {}
        BY <4>1 DEF KeyInv, OneEach
      <4>2. CASE new.units # {}
        BY <3>3, <3>4, <3>6, <3>7, <4>2, OneEachMore DEF KeyInv
      <4> QED BY <4>1, <4>2
    <3>9. OneEach(db'.units \cup master'.made.units \cup report'.made.units)
      <4>1. db'.units \cup master'.made.units \cup report'.made.units
              = (db.units \cup master.made.units \cup report.made.units) \cup new.units
        BY <2>1, <3>5
      <4> QED BY <3>8, <4>1
    <3> QED BY <2>1, <3>1, <3>5, <3>9 DEF KeyInv
  <2> QED BY <2>3, <2>4
<1>5. CASE MasterCommit
  <2>1. /\ db' = Merged(db, master.made) /\ UNCHANGED report /\ ReportShape'
        /\ MasterShape' /\ master'.made = master.made /\ master'.i = master.i
        /\ master'.step = "done" /\ master'.file = master.file /\ master.step = "rows"
    BY <1>5 DEF MasterCommit, MasterShape, KeyInv, ReportShape
  <2>2. db' \in Tables /\ db'.units = db.units \cup master.made.units
    BY <2>1, MergedTables DEF KeyInv
  <2> QED BY <1>2, <2>1, <2>2 DEF KeyInv
<1>6. CASE CreateUnit
  <2>1. /\ master.step = "idle" /\ UNCHANGED <<master, report>>
        /\ MasterShape' /\ ReportShape'
    BY <1>6 DEF CreateUnit, KeyInv, MasterShape, ReportShape
  <2>2. PICK code \in Codes, phase \in db.phases \cup {None} :
        \E building \in {b \in db.buildings : phase \in {None, b[1]}} \cup {<<phase, None>>} :
          /\ ~Has(db, code) /\ ~Has(report.made, code)
          /\ db' = [db EXCEPT !.units = @ \cup {[code |-> code, phase |-> PlacementPhase(phase, building),
                                              building |-> building[2]]}]
    BY <1>6 DEF CreateUnit
  <2>3. PICK building \in {b \in db.buildings : phase \in {None, b[1]}} \cup {<<phase, None>>} :
          /\ ~Has(db, code) /\ ~Has(report.made, code)
          /\ db' = [db EXCEPT !.units = @ \cup {[code |-> code, phase |-> PlacementPhase(phase, building),
                                              building |-> building[2]]}]
    BY <2>2
  <2> DEFINE unit == [code |-> code, phase |-> PlacementPhase(phase, building), building |-> building[2]]
  <2>4. unit \in [code : Codes, phase : Names, building : Names] /\ unit.code = code
    <3>1. phase \in Names
      BY NamesAre DEF KeyInv, Tables
    <3>2. building \in Names \X Names
      <4>1. db.buildings \subseteq Names \X Names
        BY DEF KeyInv, Tables
      <4>2. <<phase, None>> \in Names \X Names
        BY <3>1, NamesAre
      <4> QED BY <4>1, <4>2
    <3>3. building[1] \in Names /\ building[2] \in Names
      BY <3>2
    <3> QED BY <3>1, <3>3 DEF PlacementPhase
  <2>5. db' = [phases |-> db.phases, buildings |-> db.buildings, units |-> db.units \cup {unit}]
    BY <2>3 DEF PlaceInv, Tabled
  <2> HIDE DEF unit
  <2>6. db' \in Tables /\ db'.units = db.units \cup {unit}
    BY <2>4, <2>5 DEF KeyInv, Tables
  <2>7. master.made.units = {}
    BY <2>1, NoRowsTables DEF KeyInv
  <2>8. \A u \in db.units \cup master.made.units \cup report.made.units : u.code # code
    BY <2>3, <2>7 DEF Has
  <2>9. OneEach((db.units \cup master.made.units \cup report.made.units) \cup {unit})
    BY <2>4, <2>8, OneEachMore DEF KeyInv
  <2>10. db'.units \cup master'.made.units \cup report'.made.units
           = (db.units \cup master.made.units \cup report.made.units) \cup {unit}
    BY <2>1, <2>6
  <2> QED BY <2>1, <2>6, <2>9, <2>10 DEF KeyInv
<1>7. CASE ReportBegin \/ ReportFail
  <2>1. UNCHANGED <<db, master>> /\ MasterShape'
    BY <1>7 DEF ReportBegin, ReportFail, structure, KeyInv, MasterShape
  <2>2. ReportShape' /\ report'.made = NoRows /\ report'.todo \subseteq Codes
    <3>1. CASE ReportBegin
      <4>1. PICK kind, todo :
              todo \in Reports /\ report' = [Quiet EXCEPT !.step = "rows", !.kind = kind, !.todo = todo]
        BY <3>1 DEF ReportBegin
      <4>2. report' = [step |-> "rows", kind |-> kind, todo |-> todo, made |-> NoRows,
                       rows |-> {}, moveIns |-> {}]
        BY <4>1 DEF Quiet
      <4>3. ReportShape'
        BY <4>2 DEF ReportShape
      <4>4. report'.made = NoRows /\ report'.todo = todo
        BY <4>2
      <4>5. todo \subseteq Codes
        BY <4>1, RegistryConstants
      <4> QED BY <4>3, <4>4, <4>5
    <3>2. CASE ReportFail
      BY <3>2 DEF ReportFail, Quiet, ReportShape
    <3> QED BY <1>7, <3>1, <3>2
  <2> QED BY <1>2, <2>1, <2>2, NoRowsTables DEF KeyInv
<1>8. CASE ReportRow
  <2>1. PICK raw \in report.todo :
          /\ ReportShape' /\ UNCHANGED <<db, master>>
          /\ report'.todo = report.todo \ {raw}
          /\ report'.made = Merged(report.made,
               IF report.kind = "PENDING_FAS" THEN NoRows ELSE Creates(Norm(raw)))
          /\ ~Clash(IF report.kind = "PENDING_FAS" THEN NoRows ELSE Creates(Norm(raw)), master.made)
    BY <1>8 DEF ReportRow, ReportShape, KeyInv, structure
  <2> DEFINE code == Norm(raw)
             new == IF report.kind = "PENDING_FAS" THEN NoRows ELSE Creates(code)
             known == Merged(db, report.made)
  <2>2. code \in Codes /\ Parts(code)[1] \in Names /\ Parts(code)[2] \in Names
    <3>1. code \in Codes
      BY Normed DEF KeyInv
    <3> QED BY <3>1, NamesAre
  <2>3. known.units = db.units \cup report.made.units
    BY MergedTables DEF KeyInv
  <2>4. /\ new \in Tables /\ \A u \in new.units : u.code = code
        /\ \A u, v \in new.units : u = v
        /\ new.units # {} => ~Has(known, code)
    <3>1. CASE new = NoRows
      BY <3>1, NoRowsTables
    <3>2. CASE ~Has(known, code) /\ new = Missing(RowsFor(code, Parts(code)[1], Parts(code)[2]), known)
      <4>1. new \in Tables /\ \A u \in new.units : u.code = code
        <5> DEFINE phase == Parts(code)[1]
                   building == Parts(code)[2]
        <5> HIDE DEF phase, building, code, new, known
        <5>1. /\ code \in Codes /\ phase \in Names /\ building \in Names
              /\ new = Missing(RowsFor(code, phase, building), known)
          BY <2>2, <3>2 DEF phase, building
        <5> QED BY <5>1, InsertTables
      <4>2. \A u, v \in new.units : u = v
        BY <3>2, InsertsAre
      <4> QED BY <3>2, <4>1, <4>2
    <3> QED BY <3>1, <3>2 DEF Creates
  <2>5. new.units # {} => \A u \in db.units \cup report.made.units \cup master.made.units : u.code # code
    <3> HIDE DEF new, known, code
    <3>1. ~Clash(new, master.made)
      BY <2>1 DEF new, code
    <3> QED BY <2>3, <2>4, <3>1 DEF Clash, Has
  <2>6. report'.made \in Tables /\ report'.made.units = report.made.units \cup new.units
    <3>1. report'.made = Merged(report.made, new)
      BY <2>1
    <3> HIDE DEF new
    <3> QED BY <2>4, <3>1, MergedTables DEF KeyInv
  <2> HIDE DEF new, code, known
  <2>7. OneEach((db.units \cup master.made.units \cup report.made.units) \cup new.units)
    <3>1. CASE new.units = {}
      BY <3>1 DEF KeyInv, OneEach
    <3>2. CASE new.units # {}
      BY <2>4, <2>5, <3>2, OneEachMore DEF KeyInv
    <3> QED BY <3>1, <3>2
  <2>8. db'.units \cup master'.made.units \cup report'.made.units
          = (db.units \cup master.made.units \cup report.made.units) \cup new.units
    BY <2>1, <2>6
  <2> QED BY <2>1, <2>6, <2>7, <2>8 DEF KeyInv, MasterShape
<1>9. CASE ReportCommit
  <2>1. /\ db' = Merged(db, report.made) /\ ReportShape' /\ report'.made = NoRows /\ report'.todo = {}
        /\ MasterShape' /\ master'.made = master.made /\ master'.i = master.i
        /\ master'.step = master.step /\ master'.file = master.file
    BY <1>9 DEF ReportCommit, MasterShape, ReportShape, KeyInv, Quiet
  <2>2. db' \in Tables /\ db'.units = db.units \cup report.made.units
    BY <2>1, MergedTables DEF KeyInv
  <2> QED BY <1>2, <2>1, <2>2, NoRowsTables DEF KeyInv
<1>10. CASE \E t \in Savers : \/ SaveBegin(t) \/ SaveUpsert(t) \/ SaveDelete(t)
                              \/ SaveInsert(t) \/ SaveEnd(t)
  BY <1>1, <1>10 DEF SaveBegin, SaveUpsert, SaveDelete, SaveInsert, SaveEnd, structure
<1>11. CASE IngestActivity \/ DeskCreate \/ DeskResolve \/ DeskFail \/ TurnoverEnds
  BY <1>1, <1>11 DEF IngestActivity, DeskCreate, DeskResolve, DeskFail, TurnoverEnds, structure
<1>12. CASE UNCHANGED vars
  BY <1>1, <1>12 DEF vars
<1> QED BY <1>3, <1>4, <1>5, <1>6, <1>7, <1>8, <1>9, <1>10, <1>11, <1>12 DEF Next

\* The dates of the units, of their turnovers and of the rows of the reports.
DateInv ==
  /\ ReportShape
  /\ \A r \in rows \cup report.rows : RowIs(r) /\ r.day \in Days \cup {NoDate}
  /\ \A m \in report.moveIns : m[2] \in Days
  /\ \A c \in DOMAIN occupancy : occupancy[c] \in Days
  /\ \A c \in DOMAIN open : open[c] \in Days \cup {NoDate}

LEMMA InitDates == Init => DateInv
BY DEF Init, DateInv, Quiet, ReportShape

LEMMA StepDates == DateInv /\ [Next]_vars => DateInv'
<1> SUFFICES ASSUME DateInv, [Next]_vars PROVE DateInv'
  OBVIOUS
<1>1. ASSUME UNCHANGED <<report, rows, occupancy, open>> PROVE DateInv'
  BY <1>1 DEF DateInv, ReportShape
<1>2. CASE ReportBegin \/ ReportFail
  <2>1. ReportShape' /\ report'.rows = {} /\ report'.moveIns = {}
    <3>1. CASE ReportBegin
      <4>1. PICK kind, todo : report' = [Quiet EXCEPT !.step = "rows", !.kind = kind, !.todo = todo]
        BY <3>1 DEF ReportBegin
      <4>2. report' = [step |-> "rows", kind |-> kind, todo |-> todo, made |-> NoRows,
                       rows |-> {}, moveIns |-> {}]
        BY <4>1 DEF Quiet
      <4> QED BY <4>2 DEF ReportShape
    <3>2. CASE ReportFail
      BY <3>2 DEF ReportFail, Quiet, ReportShape
    <3> QED BY <1>2, <3>1, <3>2
  <2>2. UNCHANGED <<rows, occupancy, open>>
    BY <1>2 DEF ReportBegin, ReportFail, queue
  <2> QED BY <2>1, <2>2 DEF DateInv
<1>3. CASE ReportRow
  <2>1. UNCHANGED <<rows, occupancy, open>> /\ ReportShape'
    BY <1>3 DEF ReportRow, queue, ReportShape, DateInv
  <2>2. PICK raw \in report.todo :
          LET code == Norm(raw)
              made == IF report.kind = "PENDING_FAS" THEN NoRows ELSE Creates(code)
              fine == report.kind = "PENDING_FAS" \/ code \in DOMAIN open
          IN  \E day \in IF report.kind = "PENDING_MOVE_INS" THEN Days ELSE {NoDate} :
                report' = [report EXCEPT
                  !.todo = @ \ {raw},
                  !.made = Merged(@, made),
                  !.rows = IF report.kind = "AVAILABLE_UNITS" THEN @ ELSE @ \cup
                    {[id |-> NextRow, kind |-> report.kind, code |-> code, day |-> day,
                      status |-> IF fine THEN "OK" ELSE "CONFLICT",
                      resolved |-> FALSE, turnover |-> FALSE]},
                  !.moveIns = IF fine /\ day # NoDate THEN @ \cup {<<code, day>>} ELSE @]
    BY <1>3 DEF ReportRow
  <2> DEFINE code == Norm(raw)
             made == IF report.kind = "PENDING_FAS" THEN NoRows ELSE Creates(code)
             fine == report.kind = "PENDING_FAS" \/ code \in DOMAIN open
             status == IF fine THEN "OK" ELSE "CONFLICT"
             row(day) == [id |-> NextRow, kind |-> report.kind, code |-> code, day |-> day,
                          status |-> status, resolved |-> FALSE, turnover |-> FALSE]
             newRows(day) == IF report.kind = "AVAILABLE_UNITS" THEN report.rows
                             ELSE report.rows \cup {row(day)}
             newIns(day) == IF fine /\ day # NoDate THEN report.moveIns \cup {<<code, day>>}
                            ELSE report.moveIns
  <2>6. PICK day \in IF report.kind = "PENDING_MOVE_INS" THEN Days ELSE {NoDate} :
          report' = [report EXCEPT !.todo = @ \ {raw}, !.made = Merged(@, made),
                                   !.rows = newRows(day), !.moveIns = newIns(day)]
    BY <2>2
  <2>7. report'.rows = newRows(day) /\ report'.moveIns = newIns(day)
    <3> HIDE DEF made, newRows, newIns
    <3> QED BY <2>6 DEF DateInv, ReportShape
  <2>3. day \in Days \cup {NoDate}
    BY <2>6
  <2>4. \A r \in report'.rows : RowIs(r) /\ r.day \in Days \cup {NoDate}
    <3>1. RowIs(row(day)) /\ row(day).day = day
      BY DEF RowIs
    <3>2. \A r \in report'.rows : r \in report.rows \/ r = row(day)
      BY <2>7
    <3> HIDE DEF row
    <3> QED BY <2>3, <3>1, <3>2 DEF DateInv
  <2>5. \A m \in report'.moveIns : m[2] \in Days
    <3> HIDE DEF code, fine
    <3> QED BY <2>3, <2>7 DEF DateInv
  <2> QED BY <2>1, <2>4, <2>5 DEF DateInv
<1>4. CASE ReportCommit
  <2>1. /\ ReportShape' /\ report'.rows = {} /\ report'.moveIns = {}
        /\ rows' = rows \cup report.rows /\ UNCHANGED occupancy
        /\ open' = [c \in DOMAIN open |->
                      IF \E m \in report.moveIns : m[1] = c
                      THEN (CHOOSE m \in report.moveIns : m[1] = c)[2] ELSE open[c]]
    BY <1>4 DEF ReportCommit, Quiet, ReportShape
  <2>2. \A c \in DOMAIN open' : open'[c] \in Days \cup {NoDate}
    <3> SUFFICES ASSUME NEW c \in DOMAIN open PROVE open'[c] \in Days \cup {NoDate}
      BY <2>1
    <3>1. CASE \E m \in report.moveIns : m[1] = c
      <4>1. (CHOOSE m \in report.moveIns : m[1] = c) \in report.moveIns
        BY <3>1
      <4> QED BY <2>1, <3>1, <4>1 DEF DateInv
    <3>2. CASE ~\E m \in report.moveIns : m[1] = c
      BY <2>1, <3>2 DEF DateInv
    <3> QED BY <3>1, <3>2
  <2> QED BY <2>1, <2>2 DEF DateInv
<1>5. CASE DeskCreate
  <2>1. UNCHANGED <<report, occupancy>>
    BY <1>5 DEF DeskCreate
  <2>2. PICK r, day :
          /\ r \in rows /\ day \in {NoDate, r.day}
          /\ open' = [c \in DOMAIN open \cup {r.code} |-> IF c = r.code THEN day ELSE open[c]]
          /\ rows' = (rows \ {r}) \cup {[r EXCEPT !.turnover = TRUE]}
    BY <1>5 DEF DeskCreate, MissingMoveOuts
  <2>3. RowIs(r) /\ r.day \in Days \cup {NoDate} /\ day \in Days \cup {NoDate}
    BY <2>2 DEF DateInv
  <2> DEFINE new == [r EXCEPT !.turnover = TRUE]
  <2>4. RowIs(new) /\ new.day = r.day
    <3>1. new = [id |-> r.id, kind |-> r.kind, code |-> r.code, day |-> r.day,
                 status |-> r.status, resolved |-> r.resolved, turnover |-> TRUE]
      BY <2>3, RowExcept
    <3> HIDE DEF new
    <3> QED BY <3>1 DEF RowIs
  <2>5. rows' = (rows \ {r}) \cup {new}
    BY <2>2
  <2>6. \A c \in DOMAIN open' : open'[c] \in Days \cup {NoDate}
    BY <2>2, <2>3 DEF DateInv
  <2> HIDE DEF new
  <2> QED BY <2>1, <2>3, <2>4, <2>5, <2>6 DEF DateInv, ReportShape
<1>6. CASE DeskResolve
  <2> DEFINE new(r) == [r EXCEPT !.resolved = @ \/ r.id = desk.row]
  <2>1. rows' = {new(r) : r \in rows} /\ UNCHANGED <<report, occupancy, open>>
    BY <1>6 DEF DeskResolve
  <2>2. ASSUME NEW r \in rows PROVE RowIs(new(r)) /\ new(r).day = r.day
    <3>1. RowIs(r) /\ DOMAIN r = {"id", "kind", "code", "day", "status", "resolved", "turnover"}
      BY DEF DateInv, RowIs
    <3> QED BY <3>1 DEF RowIs
  <2> HIDE DEF new
  <2> QED BY <2>1, <2>2 DEF DateInv, ReportShape
<1>7. CASE DeskFail
  BY <1>1, <1>7 DEF DeskFail
<1>8. CASE TurnoverEnds
  BY <1>8 DEF TurnoverEnds, DateInv, ReportShape
<1>9. CASE IngestActivity
  <2>1. UNCHANGED <<report, rows, open>>
    BY <1>9 DEF IngestActivity, queue
  <2>2. PICK file, known, spelling :
          /\ file \in Activity /\ spelling \in [known -> {r.code : r \in file}]
          /\ occupancy' = [c \in DOMAIN occupancy \cup known |->
                          IF c \in known THEN Kept(file, spelling[c]) ELSE occupancy[c]]
    BY <1>9 DEF IngestActivity
  <2>3. \A c \in known : Kept(file, spelling[c]) \in Days
    <3> SUFFICES ASSUME NEW c \in known PROVE Kept(file, spelling[c]) \in Days
      OBVIOUS
    <3>1. \E r \in file : r.code = spelling[c]
      <4>1. spelling[c] \in {r.code : r \in file}
        BY <2>2
      <4> QED BY <4>1
    <3> QED BY <2>2, <3>1, KeptDay
  <2> QED BY <2>1, <2>2, <2>3 DEF DateInv, ReportShape
<1>10. CASE MasterBegin \/ MasterCache \/ MasterRow \/ MasterCommit \/ MasterEnd \/ CreateUnit
  BY <1>1, <1>10 DEF MasterBegin, MasterCache, MasterRow, MasterCommit, MasterEnd, CreateUnit, queue
<1>11. CASE \E t \in Savers : \/ SaveBegin(t) \/ SaveUpsert(t) \/ SaveDelete(t)
                              \/ SaveInsert(t) \/ SaveEnd(t)
  BY <1>1, <1>11 DEF SaveBegin, SaveUpsert, SaveDelete, SaveInsert, SaveEnd, queue
<1>12. CASE UNCHANGED vars
  BY <1>1, <1>12 DEF vars
<1> QED BY <1>2, <1>3, <1>4, <1>5, <1>6, <1>7, <1>8, <1>9, <1>10, <1>11, <1>12 DEF Next

\* TypeOK: for any files and any number of imports, a unit code stays one row though
\* three kinds of handlers insert units at once (unit_property_unit_code_unique), an
\* import_row's number names one row, and the saved phases are ones there are.
THEOREM RegistryTypes == Spec => []TypeOK
<1> DEFINE Inv == /\ KeyInv /\ ImportInv /\ PlaceInv /\ ScopeInv /\ QueueInv /\ DateInv
                  /\ scenario \in Scenarios
<1>1. Init => Inv
  BY InitKeys, InitImport, InitPlaced, InitScope, InitQueue, InitDates DEF Init
<1>2. Inv /\ [Next]_vars => Inv'
  <2>1. [Next]_vars => UNCHANGED scenario
    BY DEF Next, vars, MasterBegin, MasterCache, MasterRow, MasterCommit, MasterEnd, CreateUnit,
           ReportBegin, ReportRow, ReportCommit, ReportFail, SaveBegin, SaveUpsert, SaveDelete,
           SaveInsert, SaveEnd, IngestActivity, DeskCreate, DeskResolve, DeskFail, TurnoverEnds
  <2> QED BY <2>1, StepKeys, StepImport, StepPlaced, StepScope, StepQueue, StepDates
<1>3. Inv => TypeOK
  <2> SUFFICES ASSUME Inv PROVE TypeOK
    OBVIOUS
  <2>1. db \in Tables /\ master.made \in Tables /\ report.made \in Tables /\ OneEach(db.units)
    BY DEF KeyInv, OneEach
  <2>2. \A r, q \in rows : r.id = q.id => r = q
    BY DEF QueueInv, Numbered
  <2>3. scope.phases \subseteq db.phases
    BY DEF ScopeInv
  <2> QED BY <2>1, <2>2, <2>3 DEF TypeOK, OneEach, DateInv
<1> HIDE DEF Inv
<1> QED BY <1>1, <1>2, <1>3, PTL DEF Spec

-----------------------------------------------------------------------------
(***************************************************************************)
(* The queues.  Turnovers and rows stay where they are: no step takes a    *)
(* date from a turnover (TurnsKept) or changes a row but to resolve it     *)
(* (RowsKept).  So what a call of the desk's or the clerk's has found out  *)
(* at one step is still so at the next, and a row that was resolved for a  *)
(* turnover stays rightly resolved.                                        *)
(***************************************************************************)

\* A turnover that is in the table.
Exists(id) == id \in Q!TurnoverIds /\ id[2] \in DOMAIN turns[id[1]]

BatchType == [kind : {"AVAILABLE_UNITS", "PENDING_MOVE_INS"}, file : AvailableFiles \cup MoveInFiles]

\* What each call holds at each of its steps.
DeskOK ==
  /\ review \in [step : {"idle", "accept", "correct", "resolve"},
                 row : (DOMAIN importRows) \cup {<<0, 0>>}, turnover : Q!TurnoverIds \cup {Q!NoTurnover},
                 value : {Q!None, Q!SkipText}, date : Dates \cup {Q!NoDate}]
  /\ review.step # "idle" => review.row \in DOMAIN importRows /\ Exists(review.turnover)
  /\ review.step = "accept" => review.value = Q!SkipText
  /\ review.step = "correct" => review.date \in Dates

ClerkOK ==
  /\ clerk \in [step : {"idle", "next", "write", "resolve"}, todo : SUBSET DOMAIN importRows,
                row : (DOMAIN importRows) \cup {<<0, 0>>}, turnover : Q!TurnoverIds \cup {Q!NoTurnover},
                alone : BOOLEAN]
  /\ clerk.step \in {"write", "resolve"} => clerk.row \in DOMAIN importRows /\ Exists(clerk.turnover)

TypeInv ==
  /\ Q!TypeOK
  /\ batches \in Seq(BatchType)
  /\ \A e \in skips : Exists(e.turnover)
  /\ DeskOK
  /\ ClerkOK

\* The row is there for a turnover that has what the row was about.
Good(r, id) ==
  /\ importRows[r].status \in {"SKIPPED_OVERRIDE", "INVALID", "CONFLICT"}
  /\ Exists(id)
  /\ importRows[r].status = "CONFLICT" => id[1] = importRows[r].unit /\ Q!Turnover(id).moveIn # Q!NoDate
  /\ importRows[r].status = "INVALID" =>
       /\ id[1] = importRows[r].unit
       /\ IF batches[r[1]].kind = "PENDING_MOVE_INS"
          THEN Q!Turnover(id).moveIn # Q!NoDate ELSE Q!Turnover(id).available # Q!NoDate

RowServed(r) ==
  /\ importRows[r].resolved => Good(r, importRows[r].served)
  /\ importRows[r].status = "CONFLICT" => importRows[r].moveIn # Q!NoDate

RowsServed == \A r \in DOMAIN importRows : RowServed(r)

DeskServed ==
  /\ review.step = "accept" => importRows[review.row].status = "SKIPPED_OVERRIDE"
  /\ review.step = "correct" => /\ importRows[review.row].status = "INVALID"
                                /\ review.turnover[1] = importRows[review.row].unit
  /\ review.step = "resolve" => Good(review.row, review.turnover)

ClerkServed ==
  /\ \A r \in clerk.todo : importRows[r].status = "CONFLICT"
  /\ clerk.step = "write" => /\ importRows[clerk.row].status = "CONFLICT"
                             /\ clerk.turnover[1] = importRows[clerk.row].unit
  /\ clerk.step = "resolve" => Good(clerk.row, clerk.turnover)

ServedInv == RowsServed /\ DeskServed /\ ClerkServed

Orphan(r) == Q!OpenOf(importRows[r].unit) = Q!NoTurnover

OrphanInv ==
  clerk.alone /\ clerk.step \in {"next", "write", "resolve"} =>
    \A r \in Q!PendingMoveIns :
      \/ r \in clerk.todo
      \/ clerk.step \in {"write", "resolve"} /\ r = clerk.row
      \/ Orphan(r)

SkipInv ==
  \A r \in DOMAIN importRows : importRows[r].status = "SKIPPED_OVERRIDE" =>
    [turnover |-> importRows[r].of, value |-> Q!SkipText, at |-> importRows[r].at] \in skips

-----------------------------------------------------------------------------
LineType == [unit : Units \cup {NoUnit}, available : Dates \cup {Q!NoDate},
             cell : Q!AvailabilityStatuses \cup {Q!EmptyCell, Q!BlankCell}]
ArrivalType == [unit : Units \cup {NoUnit}, moveIn : Dates \cup {Q!NoDate}]

LEMMA ManualIs == ASSUME NEW s PROVE Q!ManualReadyOf(s) \in Q!ManualStatuses \cup {Q!None}
BY DEF Q!ManualReadyOf, Q!ManualStatuses, Q!ReadyStatuses

LEMMA NormIs ==
  ASSUME NEW cell \in Q!AvailabilityStatuses \cup {Q!EmptyCell, Q!BlankCell}
  PROVE  Q!NormStatus(cell) \in Q!Statuses
BY DEF Q!NormStatus, Q!Statuses, Q!EmptyCell, Q!BlankCell

\* A later version of a turnover: no date of it has been taken away.
Follows(t, u) ==
  /\ u \in Q!TurnoverType
  /\ t.moveIn # Q!NoDate => u.moveIn # Q!NoDate
  /\ t.available # Q!NoDate => u.available # Q!NoDate

LEMMA UpdatedFollows ==
  ASSUME NEW t \in Q!TurnoverType, NEW line \in LineType
  PROVE  Follows(t, Q!Updated(t, line)) /\ Q!Updated(t, line).open = t.open
<1> DEFINE s == Q!NormStatus(line.cell)
           dated == IF Q!ChangesDate(t, line) THEN [t EXCEPT !.available = line.available] ELSE t
           manual == IF dated.status = s \/ Q!ManualReadyOf(s) = Q!None THEN dated.manual
                     ELSE Q!ManualReadyOf(s)
<1>1. s \in Q!Statuses
  BY NormIs DEF LineType
<1>2. dated \in Q!TurnoverType /\ dated.moveIn = t.moveIn /\ dated.open = t.open
      /\ (t.available # Q!NoDate => dated.available # Q!NoDate)
  BY DEF Q!TurnoverType, LineType, Q!ChangesDate
<1>3. Q!ManualReadyOf(s) \in Q!ManualStatuses \cup {Q!None}
  BY ManualIs
<1> HIDE DEF s, dated
<1>4. CASE ~Q!ChangesStatus(t, line)
  <2>1. Q!Updated(t, line) = dated
    BY <1>4 DEF Q!Updated, dated
  <2> QED BY <1>2, <2>1 DEF Follows
<1>5. CASE Q!ChangesStatus(t, line)
  <2> DEFINE m == IF t.status = s \/ Q!ManualReadyOf(s) = Q!None THEN dated.manual
                  ELSE Q!ManualReadyOf(s)
  <2>1. Q!Updated(t, line) = [dated EXCEPT !.status = s, !.held = FALSE, !.manual = m]
    BY <1>5 DEF Q!Updated, dated, s
  <2>2. m \in Q!ManualStatuses \cup {Q!None}
    BY <1>2, <1>3 DEF Q!TurnoverType
  <2> HIDE DEF m
  <2>3. Q!Updated(t, line) \in Q!TurnoverType
    BY <1>1, <1>2, <2>1, <2>2 DEF Q!TurnoverType
  <2>4. /\ Q!Updated(t, line).moveIn = dated.moveIn /\ Q!Updated(t, line).available = dated.available
        /\ Q!Updated(t, line).open = dated.open
    BY <1>2, <2>1 DEF Q!TurnoverType
  <2> QED BY <1>2, <2>3, <2>4 DEF Follows
<1> QED BY <1>4, <1>5

LEMMA LeftFollows ==
  ASSUME NEW t \in Q!TurnoverType PROVE Follows(t, Q!Left(t)) /\ Q!Left(t).open = t.open
BY DEF Follows, Q!Left, Q!TurnoverType, Q!Statuses

\* A unit has one line in a file.
LEMMA OnlyLine ==
  ASSUME NEW file, Q!OnePerUnit(file), NEW i \in DOMAIN file, file[i].unit # NoUnit
  PROVE  Q!Seen(file, file[i].unit) /\ Q!LineOf(file, file[i].unit) = file[i]
BY DEF Q!Seen, Q!LineOf, Q!OnePerUnit

\* get_open_by_unit finds an open turnover of the unit, or there is none.
LEMMA OpenIs ==
  ASSUME NEW u
  PROVE  \/ /\ Q!OpenOf(u) = Q!NoTurnover
            /\ ~(u \in Units /\ \E n \in DOMAIN turns[u] : turns[u][n].open)
         \/ /\ u \in Units /\ Q!OpenOf(u)[1] = u /\ Q!OpenOf(u)[2] \in DOMAIN turns[u]
            /\ Q!OpenOf(u) = <<u, Q!OpenOf(u)[2]>>
            /\ Q!Turnover(Q!OpenOf(u)).open
BY DEF Q!OpenOf, Q!Turnover

LEMMA OpenExists ==
  ASSUME Q!TypeOK, NEW u, Q!OpenOf(u) # Q!NoTurnover
  PROVE  Exists(Q!OpenOf(u)) /\ Q!OpenOf(u)[1] = u /\ u \in Units
<1>1. /\ u \in Units /\ Q!OpenOf(u)[1] = u /\ Q!OpenOf(u)[2] \in DOMAIN turns[u]
      /\ Q!OpenOf(u) = <<u, Q!OpenOf(u)[2]>>
  BY OpenIs
<1>2. turns[u] \in Seq(Q!TurnoverType) /\ Len(turns[u]) <= LastTurnover /\ LastTurnover \in Nat
  BY <1>1, OperationsConstants DEF Q!TypeOK, Q!QueueConstants
<1>3. Q!OpenOf(u)[2] \in 1..LastTurnover
  BY <1>1, <1>2
<1> QED BY <1>1, <1>3 DEF Exists, Q!TurnoverIds

LEMMA TurnoverTyped ==
  ASSUME Q!TypeOK, NEW id, Exists(id)
  PROVE  /\ Q!Turnover(id) \in Q!TurnoverType /\ id[1] \in Units /\ id[2] \in 1..Len(turns[id[1]])
         /\ id = <<id[1], id[2]>> /\ id # Q!NoTurnover
<1>1. PICK u \in Units, n \in 1..LastTurnover : id = <<u, n>>
  BY DEF Exists, Q!TurnoverIds
<1>2. turns[u] \in Seq(Q!TurnoverType) /\ n \in DOMAIN turns[u]
  BY <1>1 DEF Exists, Q!TypeOK
<1> QED BY <1>1, <1>2, OperationsConstants DEF Q!Turnover, Q!NoTurnover, Q!QueueConstants

-----------------------------------------------------------------------------
(* What a step does to the turnovers *)

TurnsTyped == turns \in [Units -> Seq(Q!TurnoverType)] /\ \A u \in Units : Len(turns[u]) <= LastTurnover

\* Turnovers stay where they are, with what dates they have.
TurnsKept ==
  /\ TurnsTyped'
  /\ \A u \in Units : \A n \in 1..Len(turns[u]) :
       n \in 1..Len(turns'[u]) /\ Follows(turns[u][n], turns'[u][n])

LEMMA FollowsItself == ASSUME NEW t \in Q!TurnoverType PROVE Follows(t, t)
BY DEF Follows

LEMMA SameTurns == ASSUME Q!TypeOK, UNCHANGED turns PROVE TurnsKept
<1> SUFFICES ASSUME NEW u \in Units, NEW n \in 1..Len(turns[u])
             PROVE  Follows(turns[u][n], turns[u][n])
  BY DEF Q!TypeOK, TurnsKept, TurnsTyped
<1>1. turns[u][n] \in Q!TurnoverType
  BY DEF Q!TypeOK
<1> QED BY <1>1, FollowsItself

LEMMA OneTurn ==
  ASSUME Q!TypeOK, NEW id, Exists(id), NEW t, Follows(Q!Turnover(id), t), Q!SetTurnover(id, t)
  PROVE  /\ TurnsKept
         /\ turns'[id[1]][id[2]] = t
         /\ \A u \in Units : /\ DOMAIN turns'[u] = DOMAIN turns[u]
                             /\ \A n \in DOMAIN turns[u] : <<u, n>> # id => turns'[u][n] = turns[u][n]
<1> DEFINE v == id[1]
           k == id[2]
<1>1. v \in Units /\ k \in 1..Len(turns[v]) /\ id = <<v, k>>
  BY TurnoverTyped
<1>2. turns \in [Units -> Seq(Q!TurnoverType)]
  BY DEF Q!TypeOK
<1>3. t \in Q!TurnoverType
  BY DEF Follows
<1> HIDE DEF v, k
<1>4. turns' = [turns EXCEPT ![v] = [turns[v] EXCEPT ![k] = t]]
  BY DEF Q!SetTurnover, v, k
<1>5. [turns[v] EXCEPT ![k] = t] \in Seq(Q!TurnoverType) /\ Len([turns[v] EXCEPT ![k] = t]) = Len(turns[v])
  BY <1>1, <1>2, <1>3
<1>6. /\ turns' \in [Units -> Seq(Q!TurnoverType)]
      /\ \A u \in Units : Len(turns'[u]) = Len(turns[u])
  BY <1>1, <1>2, <1>4, <1>5
<1>7. turns'[v][k] = t
  BY <1>1, <1>2, <1>4
<1>8. ASSUME NEW u \in Units, NEW n \in 1..Len(turns[u]), <<u, n>> # id
      PROVE  turns'[u][n] = turns[u][n]
  BY <1>1, <1>2, <1>4, <1>8
<1>9. \A u \in Units : DOMAIN turns'[u] = DOMAIN turns[u] /\ DOMAIN turns[u] = 1..Len(turns[u])
  BY <1>2, <1>6
<1>10. ASSUME NEW u \in Units, NEW n \in 1..Len(turns[u])
       PROVE  Follows(turns[u][n], turns'[u][n])
  <2>1. turns[u][n] \in Q!TurnoverType
    BY <1>2
  <2>2. CASE <<u, n>> = id
    <3>1. u = v /\ n = k
      BY <2>2, <1>1
    <3>2. Q!Turnover(id) = turns[u][n]
      BY <3>1, <1>1 DEF Q!Turnover
    <3> QED BY <3>1, <3>2, <1>7
  <2>3. CASE <<u, n>> # id
    BY <2>1, <2>3, <1>8, FollowsItself
  <2> QED BY <2>2, <2>3
<1> QED BY <1>6, <1>7, <1>8, <1>9, <1>10 DEF TurnsKept, TurnsTyped, Q!TypeOK, v, k

LEMMA IsSeq ==
  ASSUME NEW S, NEW n \in Nat, NEW f, f = [i \in 1..n |-> f[i]], \A i \in 1..n : f[i] \in S
  PROVE  f \in Seq(S) /\ Len(f) = n
<1>1. f \in [1..n -> S]
  <2>1. [i \in 1..n |-> f[i]] \in [1..n -> S]
    OBVIOUS
  <2> QED BY <2>1
<1> QED BY <1>1, SeqDef

\* An import gives each turnover a version of its own.
LEMMA MappedTurns ==
  ASSUME Q!TypeOK, turns' = [u \in Units |-> turns'[u]],
         \A u \in Units : turns'[u] = [n \in DOMAIN turns[u] |-> turns'[u][n]],
         \A u \in Units : \A n \in DOMAIN turns[u] : Follows(turns[u][n], turns'[u][n])
  PROVE  TurnsKept
<1>1. turns \in [Units -> Seq(Q!TurnoverType)] /\ \A u \in Units : DOMAIN turns[u] = 1..Len(turns[u])
  BY DEF Q!TypeOK
<1>2. ASSUME NEW u \in Units
      PROVE  turns'[u] \in Seq(Q!TurnoverType) /\ Len(turns'[u]) = Len(turns[u])
  <2>1. turns'[u] = [n \in 1..Len(turns[u]) |-> turns'[u][n]]
    BY <1>1
  <2>2. Len(turns[u]) \in Nat
    BY <1>1
  <2>3. \A n \in 1..Len(turns[u]) : turns'[u][n] \in Q!TurnoverType
    BY <1>1 DEF Follows
  <2> QED BY <2>1, <2>2, <2>3, IsSeq
<1>3. turns' \in [Units -> Seq(Q!TurnoverType)]
  BY <1>2
<1> QED BY <1>1, <1>2, <1>3 DEF TurnsKept, TurnsTyped, Q!TypeOK

LEMMA OpenTurnoverKeeps == ASSUME Q!TypeOK, Q!OpenTurnover PROVE TurnsKept
<1>1. PICK u \in Units : /\ Len(turns[u]) < LastTurnover
                         /\ turns' = [turns EXCEPT ![u] = Append(@, Q!NewTurnover)]
  BY DEF Q!OpenTurnover
<1>2. Q!NewTurnover \in Q!TurnoverType
  BY DEF Q!NewTurnover, Q!TurnoverType, Q!Statuses
<1>3. turns \in [Units -> Seq(Q!TurnoverType)] /\ LastTurnover \in Nat
  BY OperationsConstants DEF Q!TypeOK, Q!QueueConstants
<1>4. Append(turns[u], Q!NewTurnover) \in Seq(Q!TurnoverType)
      /\ Len(Append(turns[u], Q!NewTurnover)) = Len(turns[u]) + 1
  BY <1>2, <1>3
<1>5. ASSUME NEW v \in Units, NEW n \in 1..Len(turns[v])
      PROVE  n \in 1..Len(turns'[v]) /\ turns'[v][n] = turns[v][n] /\ turns[v][n] \in Q!TurnoverType
  BY <1>1, <1>2, <1>3, <1>4
<1>6. turns' \in [Units -> Seq(Q!TurnoverType)] /\ \A v \in Units : Len(turns'[v]) <= LastTurnover
  BY <1>1, <1>3, <1>4 DEF Q!TypeOK
<1> QED BY <1>5, <1>6, FollowsItself DEF TurnsKept, TurnsTyped

\* A file's line of a unit, of either kind.
FileLines ==
  /\ \A f \in AvailableFiles : f \in Seq(LineType) /\ Q!OnePerUnit(f)
  /\ \A f \in MoveInFiles : f \in Seq(ArrivalType) /\ Q!OnePerUnit(f)

LEMMA FilesOK == FileLines
BY OperationsConstants DEF Q!QueueConstants, FileLines, LineType, ArrivalType

LEMMA LineTyped ==
  ASSUME NEW T, NEW file \in Seq(T), NEW u, Q!Seen(file, u)
  PROVE  Q!LineOf(file, u) \in T /\ Q!LineOf(file, u).unit = u
<1>1. PICK i \in DOMAIN file : Q!LineOf(file, u) = file[i] /\ file[i].unit = u
  BY DEF Q!Seen, Q!LineOf
<1> QED BY <1>1

LEMMA ImportAvailableTurns == ASSUME Q!TypeOK, Q!ImportAvailable PROVE TurnsKept
<1>1. PICK file \in AvailableFiles :
        turns' = [u \in Units |-> [n \in DOMAIN turns[u] |->
                    IF <<u, n>> # Q!OpenOf(u) THEN turns[u][n]
                    ELSE IF Q!Seen(file, u) THEN Q!Updated(turns[u][n], Q!LineOf(file, u))
                    ELSE Q!Left(turns[u][n])]]
  BY DEF Q!ImportAvailable
<1>2. ASSUME NEW u \in Units, NEW n \in DOMAIN turns[u]
      PROVE  Follows(turns[u][n], turns'[u][n])
  <2>1. turns[u][n] \in Q!TurnoverType
    BY DEF Q!TypeOK
  <2>2. turns'[u][n] = IF <<u, n>> # Q!OpenOf(u) THEN turns[u][n]
                       ELSE IF Q!Seen(file, u) THEN Q!Updated(turns[u][n], Q!LineOf(file, u))
                       ELSE Q!Left(turns[u][n])
    BY <1>1
  <2>3. Q!Seen(file, u) => Q!LineOf(file, u) \in LineType
    BY FilesOK, LineTyped DEF FileLines
  <2> QED BY <2>1, <2>2, <2>3, FollowsItself, UpdatedFollows, LeftFollows
<1> QED BY <1>1, <1>2, MappedTurns

LEMMA ImportMoveInsTurns == ASSUME Q!TypeOK, Q!ImportMoveIns PROVE TurnsKept
<1>1. PICK file \in MoveInFiles :
        turns' = [u \in Units |-> [n \in DOMAIN turns[u] |->
                   IF <<u, n>> # Q!OpenOf(u) \/ ~Q!Seen(file, u) THEN turns[u][n]
                   ELSE IF Q!LineOf(file, u).moveIn = Q!NoDate THEN turns[u][n]
                   ELSE [turns[u][n] EXCEPT !.moveIn = Q!LineOf(file, u).moveIn]]]
  BY DEF Q!ImportMoveIns
<1>2. ASSUME NEW u \in Units, NEW n \in DOMAIN turns[u]
      PROVE  Follows(turns[u][n], turns'[u][n])
  <2>1. turns[u][n] \in Q!TurnoverType
    BY DEF Q!TypeOK
  <2>2. turns'[u][n] = IF <<u, n>> # Q!OpenOf(u) \/ ~Q!Seen(file, u) THEN turns[u][n]
                       ELSE IF Q!LineOf(file, u).moveIn = Q!NoDate THEN turns[u][n]
                       ELSE [turns[u][n] EXCEPT !.moveIn = Q!LineOf(file, u).moveIn]
    BY <1>1
  <2>3. Q!Seen(file, u) => Q!LineOf(file, u) \in ArrivalType
    BY FilesOK, LineTyped DEF FileLines
  <2>4. ASSUME NEW d \in Dates \cup {Q!NoDate}, d # Q!NoDate
        PROVE  Follows(turns[u][n], [turns[u][n] EXCEPT !.moveIn = d])
    BY <2>1, <2>4 DEF Follows, Q!TurnoverType
  <2>5. Q!Seen(file, u) => Q!LineOf(file, u).moveIn \in Dates \cup {Q!NoDate}
    BY <2>3 DEF ArrivalType
  <2> QED BY <2>1, <2>2, <2>4, <2>5, FollowsItself
<1> QED BY <1>1, <1>2, MappedTurns

\* The writes of single columns.
LEMMA ColumnsFollow ==
  ASSUME NEW t \in Q!TurnoverType
  PROVE  /\ Follows(t, [t EXCEPT !.open = FALSE])
         /\ \A v \in Q!Statuses : Follows(t, [t EXCEPT !.status = v, !.held = FALSE])
         /\ \A v \in Patched : Follows(t, [t EXCEPT !.status = v, !.manual = Q!ManualReadyOf(v)])
         /\ Follows(t, [t EXCEPT !.status = "vacant not ready", !.manual = "Vacant Not Ready",
                                 !.held = TRUE])
         /\ \A d \in Dates : /\ Follows(t, [t EXCEPT !.moveIn = d])
                              /\ Follows(t, [t EXCEPT !.available = d])
                              /\ \A kind : Follows(t, Q!Corrected(kind, t, d))
<1>1. Dates \subseteq Nat /\ Q!NoDate \notin Nat /\ Patched \subseteq Q!Statuses
  BY OperationsConstants DEF Q!QueueConstants, Q!NoDate, Q!Statuses
<1>2. \A v : Q!ManualReadyOf(v) \in Q!ManualStatuses \cup {Q!None}
  BY ManualIs
<1>3. "vacant not ready" \in Q!Statuses /\ "Vacant Not Ready" \in Q!ManualStatuses
  BY DEF Q!Statuses, Q!AvailabilityStatuses, Q!ManualStatuses
<1>4. \A v \in Q!Statuses : Follows(t, [t EXCEPT !.status = v, !.held = FALSE])
  BY DEF Follows, Q!TurnoverType
<1>5. \A v \in Patched : Follows(t, [t EXCEPT !.status = v, !.manual = Q!ManualReadyOf(v)])
  BY <1>1, <1>2 DEF Follows, Q!TurnoverType
<1>6. Follows(t, [t EXCEPT !.status = "vacant not ready", !.manual = "Vacant Not Ready", !.held = TRUE])
  BY <1>3 DEF Follows, Q!TurnoverType
<1>7. ASSUME NEW d \in Dates
      PROVE  Follows(t, [t EXCEPT !.moveIn = d]) /\ Follows(t, [t EXCEPT !.available = d])
  BY <1>1 DEF Follows, Q!TurnoverType
<1>8. Follows(t, [t EXCEPT !.open = FALSE])
  BY DEF Follows, Q!TurnoverType
<1> QED BY <1>4, <1>5, <1>6, <1>7, <1>8 DEF Q!Corrected

-----------------------------------------------------------------------------
(* What a step does to the rows *)

QueueLines(bs) == UNION {{b} \X DOMAIN bs[b].file : b \in DOMAIN bs}

RowOK(x) == x \in Q!RowType /\ (x.reason # Q!None => Q!Flagged(x.status))

RowsTyped ==
  /\ batches \in Seq(BatchType) /\ Len(batches) <= LastBatch
  /\ DOMAIN importRows = QueueLines(batches)
  /\ \A r \in DOMAIN importRows : RowOK(importRows[r])

\* Rows stay what they are; they may be resolved, once.
SameRow(x, y) ==
  /\ y.unit = x.unit /\ y.status = x.status /\ y.reason = x.reason
  /\ y.moveIn = x.moveIn /\ y.at = x.at /\ y.of = x.of
  /\ x.resolved => y = x

RowsKept ==
  /\ RowsTyped'
  /\ \A r \in DOMAIN importRows : /\ r \in DOMAIN importRows' /\ SameRow(importRows[r], importRows'[r])
                                  /\ batches'[r[1]] = batches[r[1]]

LEMMA RowsAreTyped == ASSUME TypeInv PROVE RowsTyped
BY DEF TypeInv, Q!TypeOK, RowsTyped, RowOK, QueueLines

LEMMA SameRows == ASSUME TypeInv, UNCHANGED <<importRows, batches>> PROVE RowsKept
<1>1. RowsTyped'
  BY RowsAreTyped DEF RowsTyped, QueueLines, RowOK, BatchType, Q!RowType, Q!TurnoverIds, Q!NoTurnover, Q!Flagged
<1> QED BY <1>1 DEF RowsKept, SameRow

LEMMA ResolveRows ==
  ASSUME TypeInv, NEW r \in DOMAIN importRows, NEW id \in Q!TurnoverIds \cup {Q!NoTurnover},
         Q!Resolve(r, id), UNCHANGED batches
  PROVE  /\ RowsKept /\ DOMAIN importRows' = DOMAIN importRows
         /\ \A q \in DOMAIN importRows : q # r => importRows'[q] = importRows[q]
         /\ importRows'[r].resolved /\ (importRows[r].resolved \/ importRows'[r].served = id)
<1> DEFINE x == importRows[r]
           y == IF x.resolved THEN x ELSE [x EXCEPT !.resolved = TRUE, !.served = id]
<1>1. RowsTyped
  BY RowsAreTyped
<1>2. RowOK(x)
  BY <1>1 DEF RowsTyped
<1>3. importRows' = [importRows EXCEPT ![r] = y]
  BY DEF Q!Resolve
<1>4. y \in Q!RowType /\ SameRow(x, y) /\ y.resolved /\ (x.resolved \/ y.served = id)
  <2>1. CASE x.resolved
    BY <2>1, <1>2 DEF RowOK, SameRow
  <2>2. CASE ~x.resolved
    <3>1. y = [x EXCEPT !.resolved = TRUE, !.served = id]
      BY <2>2
    <3> QED BY <2>2, <3>1, <1>2 DEF RowOK, SameRow, Q!RowType
  <2> QED BY <2>1, <2>2
<1> HIDE DEF x, y
<1>5. DOMAIN importRows' = DOMAIN importRows
  BY <1>3
<1>6. importRows'[r] = y /\ \A q \in DOMAIN importRows : q # r => importRows'[q] = importRows[q]
  BY <1>3
<1>7. RowOK(y)
  BY <1>2, <1>4 DEF RowOK, SameRow
<1>8. \A q \in DOMAIN importRows : RowOK(importRows'[q]) /\ SameRow(importRows[q], importRows'[q])
  <2> SUFFICES ASSUME NEW q \in DOMAIN importRows PROVE RowOK(importRows'[q]) /\ SameRow(importRows[q], importRows'[q])
    OBVIOUS
  <2>1. CASE q = r
    BY <2>1, <1>4, <1>6, <1>7 DEF x
  <2>2. CASE q # r
    BY <2>2, <1>1, <1>6 DEF RowsTyped, SameRow
  <2> QED BY <2>1, <2>2
<1>9. RowsTyped'
  <2>1. \A z : RowOK(z)' <=> RowOK(z)
    BY DEF RowOK, Q!RowType, Q!TurnoverIds, Q!NoTurnover, Q!Flagged
  <2>2. \A q \in DOMAIN importRows : RowOK(importRows[q])'
    BY <1>8 DEF RowOK, Q!RowType, Q!TurnoverIds, Q!NoTurnover, Q!Flagged
  <2> QED BY <1>1, <1>5, <2>2 DEF RowsTyped, QueueLines, BatchType
<1> QED BY <1>4, <1>5, <1>6, <1>8, <1>9 DEF RowsKept, x

LEMMA ImportRows ==
  ASSUME TypeInv, NEW kind \in {"AVAILABLE_UNITS", "PENDING_MOVE_INS"},
         NEW file \in AvailableFiles \cup MoveInFiles, NEW new, DOMAIN new = DOMAIN file,
         \A i \in DOMAIN file : RowOK(new[i]) /\ ~new[i].resolved,
         Q!Import(kind, file, new)
  PROVE  /\ RowsKept
         /\ \A r \in DOMAIN importRows' :
              \/ r \in DOMAIN importRows /\ importRows'[r] = importRows[r]
              \/ \E i \in DOMAIN file : /\ r = <<Len(batches) + 1, i>> /\ r \notin DOMAIN importRows
                                        /\ importRows'[r] = new[i]
<1> DEFINE n == Len(batches) + 1
           b == [kind |-> kind, file |-> file]
<1>1. RowsTyped
  BY RowsAreTyped
<1>2. batches \in Seq(BatchType) /\ n \in Nat /\ LastBatch \in Nat /\ b \in BatchType
  BY <1>1, OperationsConstants DEF RowsTyped, Q!QueueConstants, BatchType
<1>3. batches' = Append(batches, b) /\ Len(batches) < LastBatch
  BY DEF Q!Import
<1>4. /\ batches' \in Seq(BatchType) /\ Len(batches') <= LastBatch
      /\ DOMAIN batches' = (DOMAIN batches) \cup {n} /\ n \notin DOMAIN batches
      /\ batches'[n] = b /\ \A k \in DOMAIN batches : batches'[k] = batches[k]
  BY <1>2, <1>3
<1>5. importRows' = [r \in DOMAIN importRows \cup {<<n, i>> : i \in DOMAIN new} |->
                       IF r \in DOMAIN importRows THEN importRows[r] ELSE new[r[2]]]
  BY DEF Q!Import
<1>6. \A r \in DOMAIN importRows : r[1] \in DOMAIN batches
  BY <1>1 DEF RowsTyped, QueueLines
<1>7. \A i : <<n, i>> \notin DOMAIN importRows
  BY <1>4, <1>6
<1> HIDE DEF n, b
<1>8. DOMAIN importRows' = QueueLines(batches')
  <2>1. QueueLines(batches') = QueueLines(batches) \cup {<<n, i>> : i \in DOMAIN file}
    <3>1. QueueLines(batches') = UNION {{k} \X DOMAIN batches'[k].file : k \in (DOMAIN batches) \cup {n}}
      BY <1>4 DEF QueueLines
    <3>2. QueueLines(batches) = UNION {{k} \X DOMAIN batches'[k].file : k \in DOMAIN batches}
      BY <1>4 DEF QueueLines
    <3>3. DOMAIN batches'[n].file = DOMAIN file
      BY <1>4 DEF b
    <3> QED BY <3>1, <3>2, <3>3
  <2> QED BY <1>1, <1>5, <2>1 DEF RowsTyped
<1>9. \A r \in DOMAIN importRows : r \in DOMAIN importRows' /\ importRows'[r] = importRows[r] /\ batches'[r[1]] = batches[r[1]]
  BY <1>4, <1>5, <1>6
<1>10. \A i \in DOMAIN file : <<n, i>> \in DOMAIN importRows' /\ importRows'[<<n, i>>] = new[i]
  BY <1>5, <1>7
<1>11. \A r \in DOMAIN importRows' : r \in DOMAIN importRows \/ \E i \in DOMAIN file : r = <<n, i>>
  BY <1>5
<1>12. \A r \in DOMAIN importRows' : RowOK(importRows'[r])
  BY <1>1, <1>9, <1>10, <1>11 DEF RowsTyped
<1>13. RowsTyped'
  <2>1. \A r \in DOMAIN importRows' : RowOK(importRows[r])'
    BY <1>12 DEF RowOK, Q!RowType, Q!TurnoverIds, Q!NoTurnover, Q!Flagged
  <2> QED BY <1>4, <1>8, <2>1 DEF RowsTyped, QueueLines, BatchType
<1>14. \A r \in DOMAIN importRows : SameRow(importRows[r], importRows'[r])
  BY <1>9 DEF SameRow
<1> QED BY <1>7, <1>9, <1>10, <1>11, <1>13, <1>14 DEF RowsKept, n

LEMMA OpenIds == ASSUME Q!TypeOK, NEW u PROVE Q!OpenOf(u) \in Q!TurnoverIds \cup {Q!NoTurnover}
BY OpenExists DEF Exists

LEMMA NewRow ==
  ASSUME Q!TypeOK, NEW line, line.unit \in Units \cup {NoUnit}, NEW status \in Q!Outcomes,
         NEW reason \in Q!Reasons, NEW moveIn \in Dates \cup {Q!NoDate},
         NEW of \in Q!TurnoverIds \cup {Q!NoTurnover}
  PROVE  LET x == Q!Row(line, status, reason, moveIn, of)
         IN  RowOK(x) /\ ~x.resolved /\ x.status = status /\ x.moveIn = moveIn /\ x.of = of
             /\ x.at = instant
<1>1. instant \in 0..LastInstant
  BY DEF Q!TypeOK
<1>2. Q!None \in Q!Reasons
  BY DEF Q!Reasons
<1> QED BY <1>1, <1>2 DEF Q!Row, RowOK, Q!RowType

LEMMA AvailableRowOK ==
  ASSUME Q!TypeOK, NEW line \in LineType
  PROVE  /\ RowOK(Q!AvailableRow(line)) /\ ~Q!AvailableRow(line).resolved
         /\ Q!AvailableRow(line).status # "CONFLICT"
         /\ Q!AvailableRow(line).at = instant /\ Q!AvailableRow(line).of = Q!OpenOf(line.unit)
         /\ Q!AvailableRow(line).status = "SKIPPED_OVERRIDE" =>
              /\ line.unit # NoUnit /\ Q!OpenOf(line.unit) # Q!NoTurnover
              /\ Q!Skips(Q!Turnover(Q!OpenOf(line.unit)), line)
<1> DEFINE id == Q!OpenOf(line.unit)
           o == IF line.unit = NoUnit
                THEN [status |-> "IGNORED", reason |-> "NO_OPEN_TURNOVER_FOR_READY_DATE"]
                ELSE IF id = Q!NoTurnover THEN Q!WithoutTurnover(line)
                ELSE Q!WithTurnover(Q!Turnover(id), line)
<1>1. /\ o.status \in {"OK", "INVALID", "IGNORED", "SKIPPED_OVERRIDE"} /\ o.reason \in Q!Reasons
      /\ o.status = "SKIPPED_OVERRIDE" => /\ line.unit # NoUnit /\ id # Q!NoTurnover
                                          /\ Q!Skips(Q!Turnover(id), line)
  <2>1. CASE line.unit = NoUnit
    BY <2>1 DEF Q!Reasons
  <2>2. CASE line.unit # NoUnit /\ id = Q!NoTurnover
    <3>1. o = Q!WithoutTurnover(line)
      BY <2>2
    <3>2. /\ Q!WithoutTurnover(line).status \in {"INVALID", "IGNORED"}
          /\ Q!WithoutTurnover(line).reason \in Q!Reasons
      BY DEF Q!WithoutTurnover, Q!Reasons
    <3> QED BY <3>1, <3>2
  <2>3. CASE line.unit # NoUnit /\ id # Q!NoTurnover
    <3> DEFINE t == Q!Turnover(id)
    <3>1. o = Q!WithTurnover(t, line)
      BY <2>3
    <3> HIDE DEF t, o
    <3>2. /\ Q!WithTurnover(t, line).status \in {"OK", "SKIPPED_OVERRIDE"}
          /\ Q!WithTurnover(t, line).reason \in Q!Reasons
          /\ Q!WithTurnover(t, line).status = "SKIPPED_OVERRIDE" => Q!Skips(t, line)
      BY DEF Q!WithTurnover, Q!Reasons
    <3> QED BY <2>3, <3>1, <3>2 DEF t
  <2> QED BY <2>1, <2>2, <2>3
<1>2. id \in Q!TurnoverIds \cup {Q!NoTurnover} /\ line.unit \in Units \cup {NoUnit}
  BY OpenIds DEF LineType
<1>3. Q!AvailableRow(line) = Q!Row(line, o.status, o.reason, Q!NoDate, id)
  BY DEF Q!AvailableRow
<1>4. o.status \in Q!Outcomes /\ Q!NoDate \in Dates \cup {Q!NoDate}
  BY <1>1 DEF Q!Outcomes
<1> HIDE DEF o
<1> QED BY <1>1, <1>2, <1>3, <1>4, NewRow

LEMMA MoveInRowOK ==
  ASSUME Q!TypeOK, NEW line \in ArrivalType
  PROVE  /\ RowOK(Q!MoveInRow(line)) /\ ~Q!MoveInRow(line).resolved
         /\ Q!MoveInRow(line).status = "CONFLICT" => Q!MoveInRow(line).moveIn # Q!NoDate
         /\ Q!MoveInRow(line).status # "SKIPPED_OVERRIDE"
         /\ Q!OpenOf(line.unit) # Q!NoTurnover => Q!MoveInRow(line).status # "CONFLICT"
         /\ Q!MoveInRow(line).unit = line.unit
<1> DEFINE id == Q!OpenOf(line.unit)
<1>1. id \in Q!TurnoverIds \cup {Q!NoTurnover} /\ line.unit \in Units \cup {NoUnit}
      /\ line.moveIn \in Dates \cup {Q!NoDate}
  BY OpenIds DEF ArrivalType
<1>2. PICK status \in {"INVALID", "CONFLICT", "OK"}, reason \in Q!Reasons :
        /\ Q!MoveInRow(line) = Q!Row(line, status, reason, line.moveIn, id)
        /\ status = "CONFLICT" => line.moveIn # Q!NoDate /\ id = Q!NoTurnover
  BY DEF Q!MoveInRow, Q!Reasons
<1>3. status \in Q!Outcomes
  BY DEF Q!Outcomes
<1>4. Q!MoveInRow(line).unit = line.unit
  BY <1>2 DEF Q!Row
<1> HIDE DEF id
<1> QED BY <1>1, <1>2, <1>3, <1>4, NewRow DEF id

\* A resolution that is sound stays sound.
LEMMA ExistsStays == ASSUME Q!TypeOK, TurnsKept, NEW id, Exists(id) PROVE Exists(id)'
<1>1. id \in Q!TurnoverIds /\ id[1] \in Units /\ id[2] \in 1..Len(turns[id[1]])
  BY TurnoverTyped DEF Exists
<1>2. id[2] \in 1..Len(turns'[id[1]]) /\ turns'[id[1]] \in Seq(Q!TurnoverType)
  BY <1>1 DEF TurnsKept, TurnsTyped, Q!TurnoverType, Q!Statuses
<1> QED BY <1>1, <1>2 DEF Exists, Q!TurnoverIds

LEMMA GoodStays ==
  ASSUME Q!TypeOK, TurnsKept, RowsKept, NEW r \in DOMAIN importRows, NEW id, Good(r, id)
  PROVE  Good(r, id)'
<1>1. Exists(id) /\ Exists(id)'
  BY ExistsStays DEF Good
<1>2. id[1] \in Units /\ id[2] \in 1..Len(turns[id[1]])
  BY <1>1, TurnoverTyped
<1>3. Follows(Q!Turnover(id), turns'[id[1]][id[2]])
  BY <1>2 DEF TurnsKept, Q!Turnover
<1>4. importRows'[r].status = importRows[r].status /\ importRows'[r].unit = importRows[r].unit /\ batches'[r[1]] = batches[r[1]]
  BY DEF RowsKept, SameRow
<1> QED BY <1>1, <1>3, <1>4 DEF Good, Follows, Q!Turnover

-----------------------------------------------------------------------------
(* Every step keeps turnovers and rows *)

QueuesInv == TypeInv /\ ServedInv

LEMMA DeskHolds ==
  ASSUME TypeInv, review.step # "idle"
  PROVE  review.row \in DOMAIN importRows /\ Exists(review.turnover) /\ review.turnover \in Q!TurnoverIds
BY DEF TypeInv, DeskOK, Exists

LEMMA ClerkHolds ==
  ASSUME TypeInv, clerk.step \in {"write", "resolve"}
  PROVE  clerk.row \in DOMAIN importRows /\ Exists(clerk.turnover) /\ clerk.turnover \in Q!TurnoverIds
BY DEF TypeInv, ClerkOK, Exists

LEMMA AcceptTurns ==
  ASSUME TypeInv, Q!AcceptWrite
  PROVE  TurnsKept
<1> DEFINE id == review.turnover
           t == Q!Turnover(id)
<1>1. Exists(id) /\ t \in Q!TurnoverType /\ review.value \in Q!Statuses /\ Q!TypeOK
  BY DeskHolds, TurnoverTyped DEF Q!AcceptWrite, TypeInv, DeskOK, Q!Statuses
<1>2. Follows(t, [t EXCEPT !.status = review.value, !.held = FALSE])
  BY <1>1, ColumnsFollow
<1> QED BY <1>1, <1>2, OneTurn DEF Q!AcceptWrite

\* A correction that is written: the turnover has the date.
LEMMA CorrectTurns ==
  ASSUME QueuesInv, Q!CorrectWrite
  PROVE  /\ TurnsKept
         /\ review' = [review EXCEPT !.step = "resolve"] =>
              LET t == turns'[review.turnover[1]][review.turnover[2]]
              IN  IF batches[review.row[1]].kind = "PENDING_MOVE_INS" THEN t.moveIn # Q!NoDate
                  ELSE t.available # Q!NoDate
<1> DEFINE id == review.turnover
           t == Q!Turnover(id)
           kind == batches[review.row[1]].kind
           new == Q!Corrected(kind, t, review.date)
<1>1. Exists(id) /\ t \in Q!TurnoverType /\ review.date \in Dates /\ Q!TypeOK
  BY DeskHolds, TurnoverTyped DEF Q!CorrectWrite, QueuesInv, TypeInv, DeskOK
<1>2. review.date # Q!NoDate
  BY <1>1, OperationsConstants DEF Q!QueueConstants, Q!NoDate
<1>3. Follows(t, new) /\ IF kind = "PENDING_MOVE_INS" THEN new.moveIn # Q!NoDate ELSE new.available # Q!NoDate
  <2>1. Follows(t, new)
    BY <1>1, ColumnsFollow
  <2> QED BY <1>1, <1>2, <2>1 DEF Q!Corrected, Q!TurnoverType
<1> HIDE DEF new, t
<1>4. CASE t.open
  <2>1. Q!SetTurnover(id, new)
    BY <1>4 DEF Q!CorrectWrite, new, t
  <2>2. TurnsKept /\ turns'[id[1]][id[2]] = new
    BY <1>1, <1>3, <2>1, OneTurn DEF t
  <2> QED BY <1>3, <2>2
<1>5. CASE ~t.open
  <2>1. review' = Q!IdleDesk /\ UNCHANGED turns
    BY <1>5 DEF Q!CorrectWrite, t
  <2>2. review'.step = "idle"
    BY <2>1 DEF Q!IdleDesk
  <2>3. [review EXCEPT !.step = "resolve"].step = "resolve"
    BY DEF QueuesInv, TypeInv, DeskOK
  <2>4. TurnsKept
    BY <1>1, <2>1, SameTurns
  <2> QED BY <2>2, <2>3, <2>4
<1> QED BY <1>4, <1>5

LEMMA MatchTurns ==
  ASSUME QueuesInv, Q!MatchWrite
  PROVE  /\ TurnsKept
         /\ clerk' = [clerk EXCEPT !.step = "resolve"] =>
              turns'[clerk.turnover[1]][clerk.turnover[2]].moveIn # Q!NoDate
<1> DEFINE id == clerk.turnover
           t == Q!Turnover(id)
           d == importRows[clerk.row].moveIn
           new == [t EXCEPT !.moveIn = d]
<1>1. Exists(id) /\ clerk.row \in DOMAIN importRows /\ t \in Q!TurnoverType /\ Q!TypeOK
  BY ClerkHolds, TurnoverTyped DEF Q!MatchWrite, QueuesInv, TypeInv
<1>2. importRows[clerk.row].status = "CONFLICT" /\ d # Q!NoDate
  BY <1>1 DEF Q!MatchWrite, QueuesInv, ServedInv, ClerkServed, RowsServed, RowServed
<1>3. d \in Dates
  BY <1>1, <1>2 DEF Q!TypeOK, Q!RowType
<1>4. Follows(t, new) /\ new.moveIn # Q!NoDate
  <2>1. Follows(t, new)
    BY <1>1, <1>3, ColumnsFollow
  <2> QED BY <1>1, <1>2, <2>1 DEF Q!TurnoverType
<1> HIDE DEF new, t
<1>5. CASE t.open
  <2>1. Q!SetTurnover(id, new)
    BY <1>5 DEF Q!MatchWrite, new, t
  <2>2. TurnsKept /\ turns'[id[1]][id[2]] = new
    BY <1>1, <1>4, <2>1, OneTurn DEF t
  <2> QED BY <1>4, <2>2
<1>6. CASE ~t.open
  <2>1. clerk' = Q!IdleClerk /\ UNCHANGED turns
    BY <1>6 DEF Q!MatchWrite, t
  <2>2. clerk'.step = "idle"
    BY <2>1 DEF Q!IdleClerk
  <2>3. [clerk EXCEPT !.step = "resolve"].step = "resolve"
    BY DEF QueuesInv, TypeInv, ClerkOK
  <2>4. TurnsKept
    BY <1>1, <2>1, SameTurns
  <2> QED BY <2>2, <2>3, <2>4
<1> QED BY <1>5, <1>6

LEMMA OthersTurns ==
  ASSUME TypeInv, Q!EndTurnover \/ Q!PatchStatus \/ Q!NightTransition
  PROVE  TurnsKept
<1>1. PICK u, new :
        /\ Q!OpenOf(u) # Q!NoTurnover /\ Q!SetTurnover(Q!OpenOf(u), new)
        /\ \/ new = [Q!Turnover(Q!OpenOf(u)) EXCEPT !.open = FALSE]
           \/ \E s \in Patched : new = [Q!Turnover(Q!OpenOf(u)) EXCEPT !.status = s, !.manual = Q!ManualReadyOf(s)]
           \/ new = [Q!Turnover(Q!OpenOf(u)) EXCEPT !.status = "vacant not ready",
                                                    !.manual = "Vacant Not Ready", !.held = TRUE]
  BY DEF Q!EndTurnover, Q!PatchStatus, Q!NightTransition
<1> DEFINE t == Q!Turnover(Q!OpenOf(u))
<1>2. Q!TypeOK /\ Exists(Q!OpenOf(u))
  BY <1>1, OpenExists DEF TypeInv
<1>3. t \in Q!TurnoverType
  BY <1>2, TurnoverTyped
<1> HIDE DEF t
<1>4. Follows(t, new)
  <2>1. \/ new = [t EXCEPT !.open = FALSE]
        \/ \E s \in Patched : new = [t EXCEPT !.status = s, !.manual = Q!ManualReadyOf(s)]
        \/ new = [t EXCEPT !.status = "vacant not ready", !.manual = "Vacant Not Ready", !.held = TRUE]
    BY <1>1 DEF t
  <2> QED BY <1>3, <2>1, ColumnsFollow
<1> QED BY <1>1, <1>2, <1>4, OneTurn DEF t

LEMMA StepTurns == QueuesInv /\ [Q!Next]_(Q!vars) => TurnsKept
<1> SUFFICES ASSUME QueuesInv, [Q!Next]_(Q!vars) PROVE TurnsKept
  OBVIOUS
<1>1. TypeInv /\ Q!TypeOK
  BY DEF QueuesInv, TypeInv
<1>2. CASE UNCHANGED turns
  BY <1>1, <1>2, SameTurns
<1>3. CASE Q!ImportAvailable \/ Q!ImportMoveIns
  BY <1>1, <1>3, ImportAvailableTurns, ImportMoveInsTurns
<1>4. CASE Q!AcceptWrite \/ Q!CorrectWrite \/ Q!MatchWrite
  BY <1>1, <1>4, AcceptTurns, CorrectTurns, MatchTurns
<1>5. CASE Q!OpenTurnover \/ Q!EndTurnover \/ Q!PatchStatus \/ Q!NightTransition
  BY <1>1, <1>5, OpenTurnoverKeeps, OthersTurns
<1> QED BY <1>2, <1>3, <1>4, <1>5
        DEF Q!Next, Q!vars, Q!Desk, Q!Clerk, Q!KeepManual, Q!AcceptReport, Q!Correct, Q!DeskResolve, Q!DeskFail,
            Q!ReconcileBegin, Q!Match, Q!MatchResolve, Q!ReconcileEnd, Q!ReconcileFail, Q!Tick

\* The rows an import adds.
LEMMA AvailableRows ==
  ASSUME TypeInv, Q!ImportAvailable
  PROVE  /\ RowsKept
         /\ \A r \in DOMAIN importRows' :
              \/ r \in DOMAIN importRows /\ importRows'[r] = importRows[r]
              \/ /\ r \notin DOMAIN importRows
                 /\ \E line \in LineType :
                      /\ importRows'[r] = Q!AvailableRow(line)
                      /\ Q!AvailableRow(line).status = "SKIPPED_OVERRIDE" =>
                           [turnover |-> Q!AvailableRow(line).of, value |-> Q!SkipText,
                            at |-> Q!AvailableRow(line).at] \in skips'
<1> DEFINE skipped(file) == {u \in Units : /\ Q!Seen(file, u) /\ Q!OpenOf(u) # Q!NoTurnover
                                           /\ Q!Skips(Q!Turnover(Q!OpenOf(u)), Q!LineOf(file, u))}
<1>1. PICK file \in AvailableFiles :
        /\ skips' = skips \cup {[turnover |-> Q!OpenOf(u), value |-> Q!SkipText, at |-> instant] : u \in skipped(file)}
        /\ Q!Import("AVAILABLE_UNITS", file, [i \in DOMAIN file |-> Q!AvailableRow(file[i])])
  BY DEF Q!ImportAvailable
<1> DEFINE new == [i \in DOMAIN file |-> Q!AvailableRow(file[i])]
<1>2. file \in Seq(LineType) /\ Q!OnePerUnit(file)
  BY FilesOK DEF FileLines
<1>3. \A i \in DOMAIN file : file[i] \in LineType
  BY <1>2
<1>4. Q!TypeOK
  BY DEF TypeInv
<1>5. \A i \in DOMAIN file : new[i] = Q!AvailableRow(file[i]) /\ RowOK(new[i]) /\ ~new[i].resolved
  BY <1>3, <1>4, AvailableRowOK
<1>6. ASSUME NEW i \in DOMAIN file, Q!AvailableRow(file[i]).status = "SKIPPED_OVERRIDE"
      PROVE  [turnover |-> Q!AvailableRow(file[i]).of, value |-> Q!SkipText,
              at |-> Q!AvailableRow(file[i]).at] \in skips'
  <2> DEFINE u == file[i].unit
  <2>1. /\ u # NoUnit /\ Q!OpenOf(u) # Q!NoTurnover /\ Q!Skips(Q!Turnover(Q!OpenOf(u)), file[i])
        /\ Q!AvailableRow(file[i]).at = instant /\ Q!AvailableRow(file[i]).of = Q!OpenOf(u)
    BY <1>3, <1>4, <1>6, AvailableRowOK
  <2>2. Q!Seen(file, u) /\ Q!LineOf(file, u) = file[i] /\ u \in Units
    BY <1>2, <1>3, <2>1, OnlyLine DEF LineType
  <2>3. u \in skipped(file)
    BY <2>1, <2>2
  <2> QED BY <1>1, <2>1, <2>3
<1> HIDE DEF new, skipped
<1>7. DOMAIN new = DOMAIN file /\ Q!Import("AVAILABLE_UNITS", file, new)
  BY <1>1 DEF new
<1>8. /\ RowsKept
      /\ \A r \in DOMAIN importRows' :
           \/ r \in DOMAIN importRows /\ importRows'[r] = importRows[r]
           \/ \E i \in DOMAIN file : r \notin DOMAIN importRows /\ importRows'[r] = new[i]
  BY <1>5, <1>7, ImportRows
<1> QED BY <1>3, <1>5, <1>6, <1>8

LEMMA MoveInRows ==
  ASSUME TypeInv, Q!ImportMoveIns
  PROVE  /\ RowsKept
         /\ \A r \in DOMAIN importRows' :
              \/ r \in DOMAIN importRows /\ importRows'[r] = importRows[r]
              \/ r \notin DOMAIN importRows /\ \E line \in ArrivalType : importRows'[r] = Q!MoveInRow(line)
<1>1. PICK file \in MoveInFiles :
        Q!Import("PENDING_MOVE_INS", file, [i \in DOMAIN file |-> Q!MoveInRow(file[i])])
  BY DEF Q!ImportMoveIns
<1> DEFINE new == [i \in DOMAIN file |-> Q!MoveInRow(file[i])]
<1>2. \A i \in DOMAIN file : file[i] \in ArrivalType
  BY FilesOK DEF FileLines
<1>3. \A i \in DOMAIN file : new[i] = Q!MoveInRow(file[i]) /\ RowOK(new[i]) /\ ~new[i].resolved
  BY <1>2, MoveInRowOK DEF TypeInv
<1> HIDE DEF new
<1>4. DOMAIN new = DOMAIN file /\ Q!Import("PENDING_MOVE_INS", file, new)
  BY <1>1 DEF new
<1>5. /\ RowsKept
      /\ \A r \in DOMAIN importRows' :
           \/ r \in DOMAIN importRows /\ importRows'[r] = importRows[r]
           \/ \E i \in DOMAIN file : r \notin DOMAIN importRows /\ importRows'[r] = new[i]
  BY <1>3, <1>4, ImportRows
<1> QED BY <1>2, <1>3, <1>5

LEMMA DeskRows ==
  ASSUME TypeInv, Q!DeskResolve
  PROVE  /\ RowsKept /\ DOMAIN importRows' = DOMAIN importRows
         /\ \A q \in DOMAIN importRows : q # review.row => importRows'[q] = importRows[q]
         /\ importRows[review.row].resolved \/ importRows'[review.row].served = review.turnover
<1>1. review.row \in DOMAIN importRows /\ review.turnover \in Q!TurnoverIds
  BY DeskHolds DEF Q!DeskResolve
<1> QED BY <1>1, ResolveRows DEF Q!DeskResolve

LEMMA ClerkRows ==
  ASSUME TypeInv, Q!MatchResolve
  PROVE  /\ RowsKept /\ DOMAIN importRows' = DOMAIN importRows
         /\ \A q \in DOMAIN importRows : q # clerk.row => importRows'[q] = importRows[q]
         /\ importRows'[clerk.row].resolved
         /\ importRows[clerk.row].resolved \/ importRows'[clerk.row].served = clerk.turnover
<1>1. clerk.row \in DOMAIN importRows /\ clerk.turnover \in Q!TurnoverIds
  BY ClerkHolds DEF Q!MatchResolve
<1> QED BY <1>1, ResolveRows DEF Q!MatchResolve

LEMMA StepRows == TypeInv /\ [Q!Next]_(Q!vars) => RowsKept
<1> SUFFICES ASSUME TypeInv, [Q!Next]_(Q!vars) PROVE RowsKept
  OBVIOUS
<1>1. CASE UNCHANGED <<importRows, batches>>
  BY <1>1, SameRows
<1>2. CASE Q!ImportAvailable \/ Q!ImportMoveIns
  BY <1>2, AvailableRows, MoveInRows
<1>3. CASE Q!DeskResolve \/ Q!MatchResolve
  BY <1>3, DeskRows, ClerkRows
<1> QED BY <1>1, <1>2, <1>3
        DEF Q!Next, Q!vars, Q!Desk, Q!Clerk, Q!KeepManual, Q!AcceptReport, Q!AcceptWrite, Q!Correct, Q!CorrectWrite,
            Q!DeskFail, Q!ReconcileBegin, Q!Match, Q!MatchWrite, Q!ReconcileEnd, Q!ReconcileFail, Q!Tick,
            Q!OpenTurnover, Q!EndTurnover, Q!PatchStatus, Q!NightTransition, Q!Elsewhere

-----------------------------------------------------------------------------
(* What the calls hold *)

LEMMA InitQueues == Q!Init => QueuesInv /\ OrphanInv /\ SkipInv
<1> SUFFICES ASSUME Q!Init PROVE QueuesInv /\ OrphanInv /\ SkipInv
  OBVIOUS
<1>1. /\ turns = [u \in Units |-> <<>>] /\ DOMAIN importRows = {} /\ batches = <<>> /\ skips = {} /\ instant = 0
      /\ review = Q!IdleDesk /\ clerk = Q!IdleClerk
  BY DEF Q!Init
<1>2. LastTurnover \in Nat /\ LastBatch \in Nat /\ LastInstant \in Nat
  BY OperationsConstants DEF Q!QueueConstants
<1>3. batches \in Seq(BatchType) /\ Len(batches) = 0 /\ DOMAIN batches = {}
  BY <1>1
<1>4. turns \in [Units -> Seq(Q!TurnoverType)] /\ \A u \in Units : Len(turns[u]) = 0
  BY <1>1
<1>5. DOMAIN importRows = UNION {{b} \X DOMAIN batches[b].file : b \in DOMAIN batches}
  BY <1>1, <1>3
<1>6. DeskOK /\ DeskServed
  BY <1>1 DEF DeskOK, DeskServed, Q!IdleDesk
<1>7. ClerkOK /\ ClerkServed
  BY <1>1 DEF ClerkOK, ClerkServed, Q!IdleClerk
<1>8. Q!TypeOK
  BY <1>1, <1>2, <1>3, <1>4, <1>5, <1>6, <1>7 DEF Q!TypeOK, DeskOK, ClerkOK
<1>9. OrphanInv /\ SkipInv /\ RowsServed
  BY <1>1 DEF OrphanInv, SkipInv, RowsServed, Q!IdleClerk
<1> QED BY <1>1, <1>3, <1>6, <1>7, <1>8, <1>9 DEF QueuesInv, TypeInv, ServedInv

LEMMA DeskStays ==
  ASSUME QueuesInv, TurnsKept, RowsKept, UNCHANGED review
  PROVE  DeskOK' /\ DeskServed'
<1>1. Q!TypeOK /\ DeskOK /\ DeskServed
  BY DEF QueuesInv, TypeInv, ServedInv
<1>2. \A r \in DOMAIN importRows : r \in DOMAIN importRows' /\ importRows'[r].status = importRows[r].status /\ importRows'[r].unit = importRows[r].unit
  BY DEF RowsKept, SameRow
<1>3. PICK q, id : q = review.row /\ id = review.turnover /\ q = review'.row /\ id = review'.turnover
  OBVIOUS
<1>4. Exists(id) => Exists(id)'
  BY <1>1, ExistsStays
<1>5. review.step = "resolve" => Good(q, id)'
  BY <1>1, <1>3, GoodStays DEF DeskOK, DeskServed
<1>6. DeskOK'
  BY <1>1, <1>2, <1>3, <1>4 DEF DeskOK, Q!TurnoverIds, Q!NoTurnover, Exists
<1>7. DeskServed'
  BY <1>1, <1>2, <1>3, <1>5 DEF DeskOK, DeskServed, Good, Exists, Q!Turnover
<1> QED BY <1>6, <1>7

LEMMA IdleDeskOK == ASSUME review' = Q!IdleDesk PROVE DeskOK' /\ DeskServed'
BY DEF DeskOK, DeskServed, Q!IdleDesk, Q!TurnoverIds, Q!NoTurnover

LEMMA DeskTakes ==
  ASSUME QueuesInv, Q!KeepManual \/ Q!AcceptReport \/ Q!Correct, TurnsKept, RowsKept
  PROVE  DeskOK' /\ DeskServed'
<1>1. Q!TypeOK /\ DeskOK /\ review.step = "idle" /\ UNCHANGED <<turns, importRows, batches>>
  BY DEF QueuesInv, TypeInv, Q!KeepManual, Q!AcceptReport, Q!Correct
<1>2. \A id : Exists(id)' <=> Exists(id)
  BY <1>1 DEF Exists, Q!TurnoverIds
<1>3. CASE Q!KeepManual \/ Q!AcceptReport
  <2>1. PICK c \in Q!OverrideConflicts :
          \/ review' = [review EXCEPT !.step = "resolve", !.row = c.row, !.turnover = c.entry.turnover]
          \/ review' = [review EXCEPT !.step = "accept", !.row = c.row, !.turnover = c.entry.turnover,
                                      !.value = c.entry.value]
    BY <1>3 DEF Q!KeepManual, Q!AcceptReport
  <2>2. c.row \in Q!SkippedRows /\ c.entry \in skips
    BY DEF Q!OverrideConflicts
  <2>3. c.row \in DOMAIN importRows /\ importRows[c.row].status = "SKIPPED_OVERRIDE"
    <3>1. c.row \in DOMAIN importRows /\ RowOK(importRows[c.row])
      BY <2>2, RowsAreTyped DEF Q!SkippedRows, RowsTyped, QueuesInv
    <3>2. importRows[c.row].status = "OK" => importRows[c.row].reason = Q!None
      BY <3>1 DEF RowOK, Q!Flagged
    <3> QED BY <2>2, <3>1, <3>2 DEF Q!SkippedRows, Q!None
  <2>4. Exists(c.entry.turnover) /\ c.entry.value = Q!SkipText /\ c.entry.turnover \in Q!TurnoverIds
    BY <2>2 DEF QueuesInv, TypeInv, Q!TypeOK
  <2>5. /\ review'.step \in {"resolve", "accept"} /\ review'.row = c.row /\ review'.turnover = c.entry.turnover
        /\ review'.value \in {Q!None, Q!SkipText} /\ review'.step = "accept" => review'.value = Q!SkipText
    BY <1>1, <2>1, <2>4 DEF DeskOK
  <2>6. review' \in [step : {"idle", "accept", "correct", "resolve"},
                 row : (DOMAIN importRows) \cup {<<0, 0>>}, turnover : Q!TurnoverIds \cup {Q!NoTurnover},
                 value : {Q!None, Q!SkipText}, date : Dates \cup {Q!NoDate}]
    BY <1>1, <2>1, <2>3, <2>4 DEF DeskOK
  <2>7. DeskOK'
    BY <1>1, <1>2, <2>3, <2>4, <2>5, <2>6 DEF DeskOK, Q!TurnoverIds, Q!NoTurnover
  <2>8. Good(c.row, c.entry.turnover)'
    BY <1>1, <1>2, <2>3, <2>4 DEF Good
  <2>9. DeskServed'
    BY <1>1, <2>3, <2>5, <2>8 DEF DeskServed
  <2> QED BY <2>7, <2>9
<1>4. CASE Q!Correct
  <2>1. PICK r \in Q!InvalidRows, d \in Dates :
          /\ Q!OpenOf(importRows[r].unit) # Q!NoTurnover
          /\ review' = [review EXCEPT !.step = "correct", !.row = r,
                                      !.turnover = Q!OpenOf(importRows[r].unit), !.date = d]
    BY <1>4 DEF Q!Correct
  <2>2. r \in DOMAIN importRows /\ importRows[r].status = "INVALID"
    BY DEF Q!InvalidRows, Q!Unresolved
  <2>3. PICK id : id = Q!OpenOf(importRows[r].unit)
    OBVIOUS
  <2>4. Exists(id) /\ id[1] = importRows[r].unit /\ id \in Q!TurnoverIds
    BY <1>1, <2>1, <2>3, OpenExists DEF Exists
  <2>5. review' = [review EXCEPT !.step = "correct", !.row = r, !.turnover = id, !.date = d]
    BY <2>1, <2>3
  <2>6. /\ review'.step = "correct" /\ review'.row = r /\ review'.turnover = id /\ review'.date = d
        /\ review' \in [step : {"idle", "accept", "correct", "resolve"},
                        row : (DOMAIN importRows) \cup {<<0, 0>>}, turnover : Q!TurnoverIds \cup {Q!NoTurnover},
                        value : {Q!None, Q!SkipText}, date : Dates \cup {Q!NoDate}]
    BY <1>1, <2>2, <2>4, <2>5 DEF DeskOK
  <2>7. DeskOK'
    BY <1>1, <2>2, <2>4, <2>6 DEF DeskOK, Q!TurnoverIds, Q!NoTurnover, Exists
  <2>8. DeskServed'
    BY <1>1, <2>2, <2>4, <2>6 DEF DeskServed
  <2> QED BY <2>7, <2>8
<1> QED BY <1>3, <1>4

\* A written decision or correction may be resolved.
LEMMA DeskWrites ==
  ASSUME QueuesInv, Q!AcceptWrite \/ Q!CorrectWrite, TurnsKept, RowsKept
  PROVE  DeskOK' /\ DeskServed'
<1>1. Q!TypeOK /\ DeskOK /\ DeskServed /\ UNCHANGED <<importRows, batches>>
  BY DEF QueuesInv, TypeInv, ServedInv, Q!AcceptWrite, Q!CorrectWrite
<1>2. PICK r, id : r = review.row /\ id = review.turnover
  OBVIOUS
<1>3. r \in DOMAIN importRows /\ Exists(id) /\ Exists(id)'
  BY <1>1, <1>2, DeskHolds, ExistsStays DEF Q!AcceptWrite, Q!CorrectWrite, QueuesInv
<1>4. CASE review' = [review EXCEPT !.step = "resolve"]
  <2>1. /\ review'.step = "resolve" /\ review'.row = r /\ review'.turnover = id
        /\ review' \in [step : {"idle", "accept", "correct", "resolve"},
                        row : (DOMAIN importRows) \cup {<<0, 0>>}, turnover : Q!TurnoverIds \cup {Q!NoTurnover},
                        value : {Q!None, Q!SkipText}, date : Dates \cup {Q!NoDate}]
    BY <1>1, <1>2, <1>4 DEF DeskOK
  <2>2. DeskOK'
    BY <1>1, <1>3, <2>1 DEF DeskOK, Q!TurnoverIds, Q!NoTurnover, Exists
  <2>3. Good(r, id)'
    <3>1. CASE Q!AcceptWrite
      <4>1. importRows[r].status = "SKIPPED_OVERRIDE"
        BY <1>1, <1>2, <3>1 DEF DeskServed, Q!AcceptWrite
      <4> QED BY <1>1, <1>3, <4>1 DEF Good
    <3>2. CASE Q!CorrectWrite
      <4>1. importRows[r].status = "INVALID" /\ id[1] = importRows[r].unit
        BY <1>1, <1>2, <3>2 DEF DeskServed, Q!CorrectWrite
      <4>2. IF batches[r[1]].kind = "PENDING_MOVE_INS" THEN turns'[id[1]][id[2]].moveIn # Q!NoDate
            ELSE turns'[id[1]][id[2]].available # Q!NoDate
        BY <1>2, <1>4, <3>2, CorrectTurns
      <4> QED BY <1>1, <1>3, <4>1, <4>2 DEF Good, Q!Turnover
    <3> QED BY <3>1, <3>2
  <2>4. DeskServed'
    BY <2>1, <2>3 DEF DeskServed, Good, Exists, Q!Turnover
  <2> QED BY <2>2, <2>4
<1>5. CASE review' = Q!IdleDesk
  BY <1>5, IdleDeskOK
<1> QED BY <1>4, <1>5 DEF Q!AcceptWrite, Q!CorrectWrite

LEMMA StepDesk == QueuesInv /\ [Q!Next]_(Q!vars) => DeskOK' /\ DeskServed'
<1> SUFFICES ASSUME QueuesInv, [Q!Next]_(Q!vars) PROVE DeskOK' /\ DeskServed'
  OBVIOUS
<1>1. TurnsKept /\ RowsKept
  BY StepTurns, StepRows DEF QueuesInv
<1>2. CASE UNCHANGED review
  BY <1>1, <1>2, DeskStays
<1>3. CASE Q!KeepManual \/ Q!AcceptReport \/ Q!Correct
  BY <1>1, <1>3, DeskTakes
<1>4. CASE Q!AcceptWrite \/ Q!CorrectWrite
  BY <1>1, <1>4, DeskWrites
<1>5. CASE Q!DeskResolve \/ Q!DeskFail
  BY <1>5, IdleDeskOK DEF Q!DeskResolve, Q!DeskFail
<1> QED BY <1>2, <1>3, <1>4, <1>5
        DEF Q!Next, Q!vars, Q!Desk, Q!Clerk, Q!ReconcileBegin, Q!Match, Q!MatchWrite, Q!MatchResolve, Q!ReconcileEnd,
            Q!ReconcileFail, Q!Tick, Q!OpenTurnover, Q!EndTurnover, Q!PatchStatus, Q!NightTransition, Q!Elsewhere,
            Q!ImportAvailable, Q!ImportMoveIns, Q!Import

LEMMA ClerkStays ==
  ASSUME QueuesInv, TurnsKept, RowsKept, UNCHANGED clerk \/ Q!Disturb
  PROVE  ClerkOK' /\ ClerkServed'
<1>1. Q!TypeOK /\ ClerkOK /\ ClerkServed
  BY DEF QueuesInv, TypeInv, ServedInv
<1>2. \A r \in DOMAIN importRows : r \in DOMAIN importRows' /\ importRows'[r].status = importRows[r].status /\ importRows'[r].unit = importRows[r].unit
  BY DEF RowsKept, SameRow
<1>3. /\ clerk'.step = clerk.step /\ clerk'.todo = clerk.todo /\ clerk'.row = clerk.row
      /\ clerk'.turnover = clerk.turnover
      /\ clerk' \in [step : {"idle", "next", "write", "resolve"}, todo : SUBSET DOMAIN importRows,
                     row : (DOMAIN importRows) \cup {<<0, 0>>}, turnover : Q!TurnoverIds \cup {Q!NoTurnover},
                     alone : BOOLEAN]
  BY <1>1 DEF ClerkOK, Q!Disturb
<1>4. PICK q, id : q = clerk.row /\ id = clerk.turnover
  OBVIOUS
<1>5. Exists(id) => Exists(id)'
  BY <1>1, ExistsStays
<1>6. clerk.step = "resolve" => Good(q, id)'
  BY <1>1, <1>4, GoodStays DEF ClerkOK, ClerkServed
<1>7. ClerkOK'
  <2>1. clerk' \in [step : {"idle", "next", "write", "resolve"}, todo : SUBSET DOMAIN importRows',
                    row : (DOMAIN importRows') \cup {<<0, 0>>}, turnover : Q!TurnoverIds \cup {Q!NoTurnover},
                    alone : BOOLEAN]
    BY <1>2, <1>3
  <2>2. clerk'.step \in {"write", "resolve"} => clerk'.row \in DOMAIN importRows' /\ Exists(id)'
    BY <1>1, <1>2, <1>3, <1>4, <1>5 DEF ClerkOK
  <2> QED BY <1>3, <1>4, <2>1, <2>2 DEF ClerkOK, Q!TurnoverIds, Q!NoTurnover, Exists
<1>8. ClerkServed'
  BY <1>1, <1>2, <1>3, <1>4, <1>6 DEF ClerkOK, ClerkServed, Good, Exists, Q!Turnover
<1> QED BY <1>7, <1>8

LEMMA IdleClerkOK == ASSUME clerk' = Q!IdleClerk PROVE ClerkOK' /\ ClerkServed'
BY DEF ClerkOK, ClerkServed, Q!IdleClerk, Q!TurnoverIds, Q!NoTurnover

LEMMA ClerkMoves ==
  ASSUME QueuesInv, Q!Match \/ Q!ReconcileBegin, TurnsKept, RowsKept
  PROVE  ClerkOK' /\ ClerkServed'
<1>1. Q!TypeOK /\ ClerkOK /\ ClerkServed /\ UNCHANGED <<turns, importRows, batches>>
  BY DEF QueuesInv, TypeInv, ServedInv, Q!Match, Q!ReconcileBegin
<1>2. CASE Q!ReconcileBegin
  <2>1. clerk' = [Q!IdleClerk EXCEPT !.step = "next", !.todo = Q!PendingMoveIns, !.alone = TRUE]
    BY <1>2 DEF Q!ReconcileBegin
  <2>2. Q!PendingMoveIns \subseteq DOMAIN importRows /\ \A r \in Q!PendingMoveIns : importRows[r].status = "CONFLICT"
    BY DEF Q!PendingMoveIns, Q!Unresolved
  <2>3. /\ clerk'.step = "next" /\ clerk'.todo = Q!PendingMoveIns
        /\ clerk' \in [step : {"idle", "next", "write", "resolve"}, todo : SUBSET DOMAIN importRows,
                       row : (DOMAIN importRows) \cup {<<0, 0>>}, turnover : Q!TurnoverIds \cup {Q!NoTurnover},
                       alone : BOOLEAN]
    BY <2>1, <2>2 DEF Q!IdleClerk
  <2> QED BY <1>1, <2>2, <2>3 DEF ClerkOK, ClerkServed, Q!TurnoverIds, Q!NoTurnover
<1>3. CASE Q!Match
  <2>1. PICK r \in clerk.todo :
          clerk' = IF Q!OpenOf(importRows[r].unit) = Q!NoTurnover THEN [clerk EXCEPT !.todo = @ \ {r}]
                   ELSE [clerk EXCEPT !.todo = @ \ {r}, !.step = "write", !.row = r,
                                      !.turnover = Q!OpenOf(importRows[r].unit)]
    BY <1>3 DEF Q!Match
  <2>2. PICK id : id = Q!OpenOf(importRows[r].unit)
    OBVIOUS
  <2>3. r \in DOMAIN importRows /\ importRows[r].status = "CONFLICT" /\ clerk.step = "next"
    BY <1>1, <1>3 DEF ClerkOK, ClerkServed, Q!Match
  <2>4. CASE id = Q!NoTurnover
    <3>1. clerk' = [clerk EXCEPT !.todo = @ \ {r}]
      BY <2>1, <2>2, <2>4
    <3> QED BY <1>1, <2>3, <3>1 DEF ClerkOK, ClerkServed, Q!TurnoverIds, Q!NoTurnover
  <2>5. CASE id # Q!NoTurnover
    <3>1. clerk' = [clerk EXCEPT !.todo = @ \ {r}, !.step = "write", !.row = r, !.turnover = id]
      BY <2>1, <2>2, <2>5
    <3>2. Exists(id) /\ id[1] = importRows[r].unit /\ id \in Q!TurnoverIds
      BY <1>1, <2>2, <2>5, OpenExists DEF Exists
    <3>3. /\ clerk'.step = "write" /\ clerk'.row = r /\ clerk'.turnover = id /\ clerk'.todo \subseteq clerk.todo
          /\ clerk' \in [step : {"idle", "next", "write", "resolve"}, todo : SUBSET DOMAIN importRows,
                         row : (DOMAIN importRows) \cup {<<0, 0>>}, turnover : Q!TurnoverIds \cup {Q!NoTurnover},
                         alone : BOOLEAN]
      BY <1>1, <2>3, <3>1, <3>2 DEF ClerkOK
    <3>4. ClerkOK'
      BY <1>1, <2>3, <3>2, <3>3 DEF ClerkOK, Q!TurnoverIds, Q!NoTurnover, Exists
    <3>5. ClerkServed'
      BY <1>1, <2>3, <3>2, <3>3 DEF ClerkServed
    <3> QED BY <3>4, <3>5
  <2> QED BY <2>4, <2>5
<1> QED BY <1>2, <1>3

LEMMA ClerkWrites ==
  ASSUME QueuesInv, Q!MatchWrite, TurnsKept, RowsKept
  PROVE  ClerkOK' /\ ClerkServed'
<1>1. Q!TypeOK /\ ClerkOK /\ ClerkServed /\ UNCHANGED <<importRows, batches>> /\ clerk.step = "write"
  BY DEF QueuesInv, TypeInv, ServedInv, Q!MatchWrite
<1>2. PICK r, id : r = clerk.row /\ id = clerk.turnover
  OBVIOUS
<1>3. r \in DOMAIN importRows /\ Exists(id) /\ Exists(id)'
  BY <1>1, <1>2, ExistsStays DEF ClerkOK
<1>4. CASE clerk' = [clerk EXCEPT !.step = "resolve"]
  <2>1. /\ clerk'.step = "resolve" /\ clerk'.row = r /\ clerk'.turnover = id /\ clerk'.todo = clerk.todo
        /\ clerk' \in [step : {"idle", "next", "write", "resolve"}, todo : SUBSET DOMAIN importRows,
                       row : (DOMAIN importRows) \cup {<<0, 0>>}, turnover : Q!TurnoverIds \cup {Q!NoTurnover},
                       alone : BOOLEAN]
    BY <1>1, <1>2, <1>4 DEF ClerkOK
  <2>2. importRows[r].status = "CONFLICT" /\ id[1] = importRows[r].unit
    BY <1>1, <1>2 DEF ClerkServed
  <2>3. turns'[id[1]][id[2]].moveIn # Q!NoDate
    BY <1>2, <1>4, MatchTurns
  <2>4. ClerkOK'
    BY <1>1, <1>3, <2>1 DEF ClerkOK, Q!TurnoverIds, Q!NoTurnover, Exists
  <2>5. Good(r, id)'
    BY <1>1, <1>3, <2>2, <2>3 DEF Good, Q!Turnover
  <2>6. ClerkServed'
    BY <1>1, <2>1, <2>5 DEF ClerkServed, Good, Exists, Q!Turnover
  <2> QED BY <2>4, <2>6
<1>5. CASE clerk' = Q!IdleClerk
  BY <1>5, IdleClerkOK
<1> QED BY <1>4, <1>5 DEF Q!MatchWrite

LEMMA StepClerk == QueuesInv /\ [Q!Next]_(Q!vars) => ClerkOK' /\ ClerkServed'
<1> SUFFICES ASSUME QueuesInv, [Q!Next]_(Q!vars) PROVE ClerkOK' /\ ClerkServed'
  OBVIOUS
<1>1. TurnsKept /\ RowsKept
  BY StepTurns, StepRows DEF QueuesInv
<1>2. CASE UNCHANGED clerk \/ Q!Disturb
  BY <1>1, <1>2, ClerkStays
<1>3. CASE Q!ReconcileBegin \/ Q!Match
  BY <1>1, <1>3, ClerkMoves
<1>4. CASE Q!MatchWrite
  BY <1>1, <1>4, ClerkWrites
<1>5. CASE Q!MatchResolve
  <2>1. ClerkOK /\ ClerkServed /\ DOMAIN importRows' = DOMAIN importRows
    BY <1>5, ClerkRows DEF QueuesInv, TypeInv, ServedInv
  <2>2. clerk' = [clerk EXCEPT !.step = "next", !.row = <<0, 0>>, !.turnover = Q!NoTurnover]
    BY <1>5 DEF Q!MatchResolve
  <2>3. \A r \in DOMAIN importRows : importRows'[r].status = importRows[r].status
    BY <1>1 DEF RowsKept, SameRow
  <2>4. /\ clerk'.step = "next" /\ clerk'.todo = clerk.todo
        /\ clerk' \in [step : {"idle", "next", "write", "resolve"}, todo : SUBSET DOMAIN importRows,
                       row : (DOMAIN importRows) \cup {<<0, 0>>}, turnover : Q!TurnoverIds \cup {Q!NoTurnover},
                       alone : BOOLEAN]
    BY <2>1, <2>2 DEF ClerkOK
  <2> QED BY <2>1, <2>3, <2>4 DEF ClerkOK, ClerkServed, Q!TurnoverIds, Q!NoTurnover
<1>6. CASE Q!ReconcileEnd \/ Q!ReconcileFail
  BY <1>6, IdleClerkOK DEF Q!ReconcileEnd, Q!ReconcileFail
<1> QED BY <1>2, <1>3, <1>4, <1>5, <1>6
        DEF Q!Next, Q!vars, Q!Desk, Q!Clerk, Q!KeepManual, Q!AcceptReport, Q!AcceptWrite, Q!Correct, Q!CorrectWrite,
            Q!DeskResolve, Q!DeskFail, Q!Tick, Q!OpenTurnover, Q!EndTurnover, Q!PatchStatus, Q!NightTransition,
            Q!Elsewhere, Q!ImportAvailable, Q!ImportMoveIns, Q!Import

-----------------------------------------------------------------------------
(* The invariant of the queues *)

LEMMA StepServed == QueuesInv /\ [Q!Next]_(Q!vars) => RowsServed'
<1> SUFFICES ASSUME QueuesInv, [Q!Next]_(Q!vars), NEW r \in DOMAIN importRows'
             PROVE  RowServed(r)'
  BY DEF RowsServed
<1>1. TurnsKept /\ RowsKept /\ TypeInv /\ Q!TypeOK /\ ServedInv
  BY StepTurns, StepRows DEF QueuesInv, TypeInv
<1>2. CASE r \in DOMAIN importRows /\ importRows'[r] = importRows[r]
  <2>1. PICK id : id = importRows[r].served
    OBVIOUS
  <2>2. importRows[r].resolved => Good(r, id)'
    BY <1>1, <1>2, <2>1, GoodStays DEF ServedInv, RowsServed, RowServed
  <2>3. importRows[r].status = "CONFLICT" => importRows[r].moveIn # Q!NoDate
    BY <1>1, <1>2 DEF ServedInv, RowsServed, RowServed
  <2> QED BY <1>2, <2>1, <2>2, <2>3 DEF RowServed, Good, Exists, Q!Turnover
<1>3. CASE Q!ImportAvailable
  BY <1>1, <1>2, <1>3, AvailableRows, AvailableRowOK DEF RowServed
<1>4. CASE Q!ImportMoveIns
  BY <1>1, <1>2, <1>4, MoveInRows, MoveInRowOK DEF RowServed
<1>5. CASE Q!DeskResolve \/ Q!MatchResolve
  <2>1. PICK q, id : /\ \/ Q!DeskResolve /\ q = review.row /\ id = review.turnover
                        \/ Q!MatchResolve /\ q = clerk.row /\ id = clerk.turnover
    BY <1>5
  <2>2. q \in DOMAIN importRows /\ Good(q, id)
    BY <1>1, <2>1, DeskHolds, ClerkHolds DEF Q!DeskResolve, Q!MatchResolve, ServedInv, DeskServed, ClerkServed
  <2>3. Good(q, id)'
    BY <1>1, <2>2, GoodStays
  <2>4. /\ DOMAIN importRows' = DOMAIN importRows /\ \A p \in DOMAIN importRows : p # q => importRows'[p] = importRows[p]
        /\ importRows[q].resolved \/ importRows'[q].served = id
    BY <1>1, <2>1, DeskRows, ClerkRows
  <2>5. SameRow(importRows[q], importRows'[q])
    BY <1>1, <2>2 DEF RowsKept
  <2>6. CASE r = q /\ importRows'[q].served = id
    <3>1. importRows[r].status = "CONFLICT" => importRows[r].moveIn # Q!NoDate
      BY <1>1, <2>2, <2>6 DEF ServedInv, RowsServed, RowServed
    <3>2. importRows'[r].status = importRows[r].status /\ importRows'[r].moveIn = importRows[r].moveIn /\ importRows'[r].served = id
      BY <2>5, <2>6 DEF SameRow
    <3> QED BY <2>3, <2>6, <3>1, <3>2 DEF RowServed, Good, Exists, Q!Turnover
  <2>7. CASE r = q /\ importRows[q].resolved
    BY <1>2, <2>2, <2>5, <2>7 DEF SameRow
  <2>8. CASE r # q
    BY <1>2, <2>4, <2>8
  <2> QED BY <2>4, <2>6, <2>7, <2>8
<1>6. CASE UNCHANGED importRows
  BY <1>2, <1>6
<1> QED BY <1>3, <1>4, <1>5, <1>6
        DEF Q!Next, Q!vars, Q!Desk, Q!Clerk, Q!KeepManual, Q!AcceptReport, Q!AcceptWrite, Q!Correct, Q!CorrectWrite,
            Q!DeskFail, Q!ReconcileBegin, Q!Match, Q!MatchWrite, Q!ReconcileEnd, Q!ReconcileFail, Q!Tick,
            Q!OpenTurnover, Q!EndTurnover, Q!PatchStatus, Q!NightTransition, Q!Elsewhere

\* Entries of the log stay, and name turnovers that exist.
LEMMA StepSkips ==
  ASSUME QueuesInv, [Q!Next]_(Q!vars)
  PROVE  /\ skips \subseteq skips' /\ instant' \in 0..LastInstant
         /\ \A e \in skips' : /\ e \in [turnover : Q!TurnoverIds, value : {Q!SkipText}, at : 0..LastInstant]
                              /\ e.turnover[2] \in DOMAIN turns'[e.turnover[1]]
<1>1. Q!TypeOK /\ TurnsKept /\ TypeInv
  BY StepTurns DEF QueuesInv, TypeInv
<1>2. \A id : Exists(id) => id[2] \in DOMAIN turns'[id[1]]
  BY <1>1, ExistsStays DEF Exists
<1>3. \A e \in skips : /\ e \in [turnover : Q!TurnoverIds, value : {Q!SkipText}, at : 0..LastInstant]
                       /\ e.turnover[2] \in DOMAIN turns'[e.turnover[1]]
  BY <1>1, <1>2 DEF TypeInv, Q!TypeOK
<1>4. CASE Q!ImportAvailable
  <2>1. instant' = instant /\ instant \in 0..LastInstant
    BY <1>1, <1>4 DEF Q!ImportAvailable, Q!Import, Q!TypeOK
  <2>2. PICK file \in AvailableFiles :
          skips' = skips \cup {[turnover |-> Q!OpenOf(u), value |-> Q!SkipText, at |-> instant] :
                      u \in {v \in Units : /\ Q!Seen(file, v) /\ Q!OpenOf(v) # Q!NoTurnover
                                           /\ Q!Skips(Q!Turnover(Q!OpenOf(v)), Q!LineOf(file, v))}}
    BY <1>4 DEF Q!ImportAvailable
  <2>3. ASSUME NEW u \in Units, Q!OpenOf(u) # Q!NoTurnover
        PROVE  Q!OpenOf(u) \in Q!TurnoverIds /\ Q!OpenOf(u)[2] \in DOMAIN turns'[Q!OpenOf(u)[1]]
    BY <1>1, <1>2, <2>3, OpenExists DEF Exists
  <2> QED BY <1>3, <2>1, <2>2, <2>3
<1>5. CASE Q!Tick
  BY <1>1, <1>3, <1>5, OperationsConstants DEF Q!Tick, Q!TypeOK, Q!QueueConstants
<1>6. CASE UNCHANGED <<skips, instant>>
  BY <1>1, <1>3, <1>6 DEF Q!TypeOK
<1> QED BY <1>4, <1>5, <1>6
        DEF Q!Next, Q!vars, Q!Desk, Q!Clerk, Q!KeepManual, Q!AcceptReport, Q!AcceptWrite, Q!Correct, Q!CorrectWrite,
            Q!DeskResolve, Q!DeskFail, Q!ReconcileBegin, Q!Match, Q!MatchWrite, Q!MatchResolve, Q!ReconcileEnd,
            Q!ReconcileFail, Q!OpenTurnover, Q!EndTurnover, Q!PatchStatus, Q!NightTransition, Q!Elsewhere,
            Q!ImportMoveIns, Q!Import

\* TypeOK, table by table.
RowsIn ==
  /\ Len(batches) <= LastBatch
  /\ DOMAIN importRows = UNION {{b} \X DOMAIN batches[b].file : b \in DOMAIN batches}
  /\ \A r \in DOMAIN importRows : /\ importRows[r] \in Q!RowType
                                  /\ importRows[r].reason # Q!None => Q!Flagged(importRows[r].status)

SkipsIn ==
  /\ \A e \in skips : e \in [turnover : Q!TurnoverIds, value : {Q!SkipText}, at : 0..LastInstant]
  /\ instant \in 0..LastInstant

CallsIn ==
  /\ review.row \in (DOMAIN importRows) \cup {<<0, 0>>} /\ review.turnover \in Q!TurnoverIds \cup {Q!NoTurnover}
  /\ clerk.todo \subseteq DOMAIN importRows /\ clerk.turnover \in Q!TurnoverIds \cup {Q!NoTurnover}

LEMMA TypeParts == Q!TypeOK <=> TurnsTyped /\ RowsIn /\ SkipsIn /\ CallsIn
BY DEF Q!TypeOK, TurnsTyped, RowsIn, SkipsIn, CallsIn

LEMMA StepQueues == QueuesInv /\ [Q!Next]_(Q!vars) => QueuesInv'
<1> SUFFICES ASSUME QueuesInv, [Q!Next]_(Q!vars) PROVE QueuesInv'
  OBVIOUS
<1>1. TurnsTyped' /\ RowsTyped'
  BY StepTurns, StepRows DEF QueuesInv, TurnsKept, RowsKept
<1>2. DeskOK' /\ DeskServed' /\ ClerkOK' /\ ClerkServed' /\ RowsServed'
  BY StepDesk, StepClerk, StepServed
<1>3. Q!TypeOK'
  <2>1. TurnsTyped' /\ RowsIn'
    BY <1>1 DEF RowsTyped, RowsIn, QueueLines, RowOK
  <2>2. SkipsIn'
    BY StepSkips DEF SkipsIn, Q!TurnoverIds
  <2>3. CallsIn'
    BY <1>2 DEF CallsIn, DeskOK, ClerkOK
  <2> QED BY <2>1, <2>2, <2>3, TypeParts, PTL
<1>4. batches' \in Seq(BatchType)
  BY <1>1 DEF RowsTyped, BatchType
<1>5. \A e \in skips' : e.turnover \in Q!TurnoverIds /\ e.turnover[2] \in DOMAIN turns'[e.turnover[1]]
  BY StepSkips
<1> QED BY <1>2, <1>3, <1>4, <1>5 DEF QueuesInv, TypeInv, ServedInv, BatchType, Exists, Q!TurnoverIds

LEMMA StepSkipInv == QueuesInv /\ SkipInv /\ [Q!Next]_(Q!vars) => SkipInv'
<1> SUFFICES ASSUME QueuesInv, SkipInv, [Q!Next]_(Q!vars), NEW r \in DOMAIN importRows',
                    importRows'[r].status = "SKIPPED_OVERRIDE"
             PROVE  [turnover |-> importRows'[r].of, value |-> Q!SkipText, at |-> importRows'[r].at] \in skips'
  BY DEF SkipInv
<1>1. RowsKept /\ TypeInv /\ Q!TypeOK /\ skips \subseteq skips'
  BY StepRows, StepSkips DEF QueuesInv, TypeInv
<1>2. CASE r \in DOMAIN importRows
  <2>1. SameRow(importRows[r], importRows'[r])
    BY <1>1, <1>2 DEF RowsKept
  <2> QED BY <1>1, <1>2, <2>1 DEF SkipInv, SameRow
<1>3. CASE Q!ImportAvailable /\ r \notin DOMAIN importRows
  BY <1>1, <1>3, AvailableRows
<1>4. CASE Q!ImportMoveIns /\ r \notin DOMAIN importRows
  BY <1>1, <1>4, MoveInRows, MoveInRowOK
<1>5. CASE Q!DeskResolve \/ Q!MatchResolve
  BY <1>1, <1>2, <1>5, DeskRows, ClerkRows
<1>6. CASE UNCHANGED importRows
  BY <1>2, <1>6
<1> QED BY <1>2, <1>3, <1>4, <1>5, <1>6
        DEF Q!Next, Q!vars, Q!Desk, Q!Clerk, Q!KeepManual, Q!AcceptReport, Q!AcceptWrite, Q!Correct, Q!CorrectWrite,
            Q!DeskFail, Q!ReconcileBegin, Q!Match, Q!MatchWrite, Q!ReconcileEnd, Q!ReconcileFail, Q!Tick,
            Q!OpenTurnover, Q!EndTurnover, Q!PatchStatus, Q!NightTransition, Q!Elsewhere

\* A unit without an open turnover gets none from the clerk.
LEMMA MatchOpens ==
  ASSUME QueuesInv, Q!MatchWrite, NEW u, Q!OpenOf(u) = Q!NoTurnover
  PROVE  Q!OpenOf(u)' = Q!NoTurnover
<1>1. PICK id : id = clerk.turnover
  OBVIOUS
<1>2. TypeInv /\ Q!TypeOK /\ Exists(id)
  BY <1>1, ClerkHolds DEF QueuesInv, TypeInv, Q!MatchWrite
<1>3. /\ id = <<id[1], id[2]>> /\ Q!Turnover(id) \in Q!TurnoverType /\ id[1] \in Units
      /\ id[2] \in DOMAIN turns[id[1]]
  BY <1>2, TurnoverTyped DEF Exists
<1>4. ~(u \in Units /\ \E n \in DOMAIN turns[u] : turns[u][n].open)
  <2>1. ASSUME u \in Units, NEW n \in DOMAIN turns[u], turns[u][n].open PROVE FALSE
    <3>1. Q!OpenOf(u)[1] = u /\ Q!OpenOf(u) = <<u, CHOOSE k \in DOMAIN turns[u] : turns[u][k].open>>
      BY <2>1 DEF Q!OpenOf
    <3> QED BY <2>1, <3>1, OperationsConstants DEF Q!NoTurnover, Q!QueueConstants
  <2> QED BY <2>1
<1>5. ~(u \in Units /\ \E n \in DOMAIN turns'[u] : turns'[u][n].open)
  <2>1. CASE UNCHANGED turns
    BY <1>4, <2>1
  <2>2. CASE Q!SetTurnover(id, [Q!Turnover(id) EXCEPT !.moveIn = importRows[clerk.row].moveIn]) /\ ~UNCHANGED turns
    <3> DEFINE new == [Q!Turnover(id) EXCEPT !.moveIn = importRows[clerk.row].moveIn]
    <3>1. new.open = Q!Turnover(id).open
      BY <1>3 DEF Q!TurnoverType
    <3>2. Follows(Q!Turnover(id), new)
      <4>1. clerk.row \in DOMAIN importRows /\ importRows[clerk.row].status = "CONFLICT"
        BY ClerkHolds, <1>2 DEF QueuesInv, ServedInv, ClerkServed, Q!MatchWrite
      <4>2. importRows[clerk.row].moveIn \in Dates
        BY <1>2, <4>1 DEF Q!TypeOK, Q!RowType, QueuesInv, ServedInv, RowsServed, RowServed
      <4> QED BY <1>3, <4>2, ColumnsFollow
    <3> HIDE DEF new
    <3>3. /\ turns'[id[1]][id[2]] = new
          /\ \A v \in Units : /\ DOMAIN turns'[v] = DOMAIN turns[v]
                              /\ \A n \in DOMAIN turns[v] : <<v, n>> # id => turns'[v][n] = turns[v][n]
      BY <1>2, <2>2, <3>2, OneTurn DEF new
    <3>4. ASSUME u \in Units, NEW n \in DOMAIN turns'[u], turns'[u][n].open PROVE FALSE
      <4>1. n \in DOMAIN turns[u]
        BY <3>3, <3>4
      <4>2. CASE <<u, n>> = id
        BY <1>3, <1>4, <3>1, <3>3, <3>4, <4>1, <4>2 DEF Q!Turnover
      <4>3. CASE <<u, n>> # id
        BY <1>4, <3>3, <3>4, <4>1, <4>3
      <4> QED BY <4>2, <4>3
    <3> QED BY <3>4
  <2> QED BY <1>1, <2>1, <2>2 DEF Q!MatchWrite
<1> QED BY <1>5 DEF Q!OpenOf, Q!NoTurnover

LEMMA StepOrphans == QueuesInv /\ OrphanInv /\ [Q!Next]_(Q!vars) => OrphanInv'
<1> SUFFICES ASSUME QueuesInv, OrphanInv, [Q!Next]_(Q!vars),
                    clerk'.alone, clerk'.step \in {"next", "write", "resolve"},
                    NEW r \in Q!PendingMoveIns'
             PROVE  \/ r \in clerk'.todo
                    \/ clerk'.step \in {"write", "resolve"} /\ r = clerk'.row
                    \/ Orphan(r)'
  BY DEF OrphanInv
<1>1. ClerkOK /\ TypeInv
  BY DEF QueuesInv, TypeInv
<1>2. r \in DOMAIN importRows' /\ importRows'[r].status = "CONFLICT" /\ ~importRows'[r].resolved
      /\ importRows'[r].reason = "MOVE_IN_WITHOUT_OPEN_TURNOVER"
  BY DEF Q!PendingMoveIns, Q!Unresolved
<1>3. CASE UNCHANGED <<importRows, turns>>
  <2>1. r \in Q!PendingMoveIns
    BY <1>2, <1>3 DEF Q!PendingMoveIns, Q!Unresolved
  <2>4. Orphan(r)' <=> Orphan(r)
    BY <1>3 DEF Orphan, Q!OpenOf, Q!NoTurnover
  <2>5. CASE Q!ReconcileBegin
    BY <1>1, <2>1, <2>5 DEF Q!ReconcileBegin, Q!IdleClerk
  <2>6. CASE Q!Match
    <3>1. PICK q \in clerk.todo :
            clerk' = IF Q!OpenOf(importRows[q].unit) = Q!NoTurnover THEN [clerk EXCEPT !.todo = @ \ {q}]
                     ELSE [clerk EXCEPT !.todo = @ \ {q}, !.step = "write", !.row = q,
                                        !.turnover = Q!OpenOf(importRows[q].unit)]
      BY <2>6 DEF Q!Match
    <3>2. /\ clerk'.todo = clerk.todo \ {q} /\ clerk.alone /\ clerk.step = "next"
          /\ Q!OpenOf(importRows[q].unit) # Q!NoTurnover => clerk'.step = "write" /\ clerk'.row = q
      BY <1>1, <2>6, <3>1 DEF ClerkOK, Q!Match
    <3>3. r \in clerk.todo \/ Orphan(r)
      BY <2>1, <3>2 DEF OrphanInv
    <3> QED BY <2>4, <3>2, <3>3 DEF Orphan
  <2>7. CASE Q!ReconcileEnd \/ Q!ReconcileFail
    BY <2>7 DEF Q!ReconcileEnd, Q!ReconcileFail, Q!IdleClerk
  <2>8. CASE Q!MatchWrite
    <3>1. clerk' = [clerk EXCEPT !.step = "resolve"]
      BY <2>8 DEF Q!MatchWrite, Q!IdleClerk
    <3>2. clerk'.todo = clerk.todo /\ clerk'.row = clerk.row /\ clerk.alone /\ clerk.step = "write"
          /\ clerk'.step = "resolve"
      BY <1>1, <2>8, <3>1 DEF ClerkOK, Q!MatchWrite
    <3> QED BY <2>1, <2>4, <3>2 DEF OrphanInv
  <2>9. CASE UNCHANGED clerk
    BY <2>1, <2>4, <2>9 DEF OrphanInv
  <2>10. CASE Q!MatchResolve
    <3>1. r # clerk.row
      BY <1>1, <1>2, <2>10, ClerkRows
    <3>2. clerk' = [clerk EXCEPT !.step = "next", !.row = <<0, 0>>, !.turnover = Q!NoTurnover]
          /\ clerk.step = "resolve"
      BY <2>10 DEF Q!MatchResolve
    <3>3. clerk'.todo = clerk.todo /\ clerk.alone
      BY <1>1, <3>2 DEF ClerkOK
    <3> QED BY <2>1, <2>4, <3>1, <3>2, <3>3 DEF OrphanInv
  <2>11. CASE Q!Disturb
    BY <1>1, <2>11 DEF Q!Disturb, ClerkOK
  <2> QED BY <2>5, <2>6, <2>7, <2>8, <2>9, <2>10, <2>11
          DEF Q!Next, Q!vars, Q!Desk, Q!Clerk, Q!KeepManual, Q!AcceptReport, Q!AcceptWrite, Q!Correct, Q!CorrectWrite,
              Q!DeskResolve, Q!DeskFail, Q!Tick, Q!OpenTurnover, Q!EndTurnover, Q!PatchStatus, Q!NightTransition,
              Q!Elsewhere, Q!ImportAvailable, Q!ImportMoveIns, Q!Import
<1>4. CASE Q!MatchWrite /\ ~UNCHANGED turns
  <2>1. clerk' = [clerk EXCEPT !.step = "resolve"] /\ importRows' = importRows
    BY <1>4 DEF Q!MatchWrite
  <2>2. clerk'.todo = clerk.todo /\ clerk'.row = clerk.row /\ clerk.alone /\ clerk.step = "write"
        /\ clerk'.step = "resolve"
    BY <1>1, <1>4, <2>1 DEF ClerkOK, Q!MatchWrite
  <2>3. r \in Q!PendingMoveIns
    BY <1>2, <2>1 DEF Q!PendingMoveIns, Q!Unresolved
  <2>4. PICK u : u = importRows[r].unit /\ u = importRows'[r].unit
    BY <2>1
  <2>5. Q!OpenOf(u) = Q!NoTurnover => Q!OpenOf(u)' = Q!NoTurnover
    BY <1>4, MatchOpens
  <2>6. Orphan(r) => Orphan(r)'
    BY <2>4, <2>5 DEF Orphan, Q!OpenOf, Q!NoTurnover
  <2> QED BY <2>2, <2>3, <2>6 DEF OrphanInv
<1>5. CASE Q!MatchResolve
  <2>1. /\ DOMAIN importRows' = DOMAIN importRows /\ importRows'[clerk.row].resolved
        /\ \A q \in DOMAIN importRows : q # clerk.row => importRows'[q] = importRows[q]
    BY <1>1, <1>5, ClerkRows
  <2>2. r # clerk.row /\ importRows'[r] = importRows[r] /\ r \in DOMAIN importRows
    BY <1>2, <2>1
  <2>3. r \in Q!PendingMoveIns
    BY <1>2, <2>2 DEF Q!PendingMoveIns, Q!Unresolved
  <2>4. clerk' = [clerk EXCEPT !.step = "next", !.row = <<0, 0>>, !.turnover = Q!NoTurnover]
        /\ clerk.step = "resolve" /\ UNCHANGED turns
    BY <1>5 DEF Q!MatchResolve
  <2>5. clerk'.todo = clerk.todo /\ clerk.alone
    BY <1>1, <2>4 DEF ClerkOK
  <2>6. r \in clerk.todo \/ Orphan(r)
    BY <2>2, <2>3, <2>4, <2>5 DEF OrphanInv
  <2> QED BY <2>2, <2>4, <2>5, <2>6 DEF Orphan, Q!OpenOf, Q!NoTurnover
<1>6. CASE Q!Disturb
  BY <1>1, <1>6 DEF Q!Disturb, ClerkOK
<1> QED BY <1>3, <1>4, <1>5, <1>6
        DEF Q!Next, Q!vars, Q!Desk, Q!Clerk, Q!KeepManual, Q!AcceptReport, Q!AcceptWrite, Q!Correct, Q!CorrectWrite,
            Q!DeskResolve, Q!DeskFail, Q!ReconcileBegin, Q!Match, Q!MatchWrite, Q!ReconcileEnd, Q!ReconcileFail,
            Q!Tick, Q!OpenTurnover, Q!EndTurnover, Q!PatchStatus, Q!NightTransition, Q!Elsewhere,
            Q!ImportAvailable, Q!ImportMoveIns, Q!Import

LEMMA SkipsShow == Q!TypeOK /\ SkipInv => Q!SkippedIsListed
<1> SUFFICES ASSUME Q!TypeOK, SkipInv, NEW r \in Q!Unresolved("SKIPPED_OVERRIDE")
             PROVE  \E c \in Q!OverrideConflicts : c.row = r /\ c.entry.turnover = importRows[r].of
  BY DEF Q!SkippedIsListed
<1> DEFINE e == [turnover |-> importRows[r].of, value |-> Q!SkipText, at |-> importRows[r].at]
           c == [row |-> r, entry |-> e]
<1>1. r \in DOMAIN importRows /\ importRows[r].status = "SKIPPED_OVERRIDE" /\ ~importRows[r].resolved
  BY DEF Q!Unresolved
<1>2. r \in Q!SkippedRows /\ e \in skips
  BY <1>1 DEF Q!SkippedRows, SkipInv
<1>3. importRows[r].at \in Int
  BY <1>1, OperationsConstants DEF Q!TypeOK, Q!RowType, Q!QueueConstants
<1>4. Q!Near(importRows[c.row].at, c.entry.at)
  BY <1>3 DEF Q!Near
<1>5. c \in Q!OverrideConflicts
  BY <1>2, <1>4 DEF Q!OverrideConflicts
<1> QED BY <1>5

LEMMA QueuesServe == QueuesInv => Q!ResolvedWereServed
<1> SUFFICES ASSUME QueuesInv, NEW r \in DOMAIN importRows, importRows[r].resolved
             PROVE  Good(r, importRows[r].served) /\ importRows[r].served # Q!NoTurnover
  BY DEF Q!ResolvedWereServed, Good
<1>1. Good(r, importRows[r].served)
  BY DEF QueuesInv, ServedInv, RowsServed, RowServed
<1> QED BY <1>1, TurnoverTyped DEF Good, QueuesInv, TypeInv

LEMMA EndOrphans == OrphanInv /\ [Q!Next]_(Q!vars) =>
  (Q!ReconcileEnd /\ clerk.alone => \A r \in Q!PendingMoveIns : Q!OpenOf(importRows[r].unit) = Q!NoTurnover)
BY DEF OrphanInv, Q!ReconcileEnd, Orphan

LEMMA QueueTypes == Q!Spec => []Q!TypeOK
<1>1. QueuesInv => Q!TypeOK
  BY DEF QueuesInv, TypeInv
<1>2. QueuesInv /\ UNCHANGED Q!vars => QueuesInv'
  BY StepQueues
<1> QED BY <1>1, InitQueues, StepQueues, PTL DEF Q!Spec

LEMMA SkipsListed == Q!Spec => []Q!SkippedIsListed
<1>1. QueuesInv => Q!TypeOK
  BY DEF QueuesInv, TypeInv
<1> QED BY <1>1, InitQueues, StepQueues, StepSkipInv, SkipsShow, PTL DEF Q!Spec

LEMMA ResolutionsServe == Q!Spec => []Q!ResolvedWereServed
BY InitQueues, StepQueues, QueuesServe, PTL DEF Q!Spec

LEMMA OrphansRemain == Q!Spec => Q!QueueHoldsOrphans
BY InitQueues, StepQueues, StepOrphans, EndOrphans, PTL DEF Q!Spec, Q!QueueHoldsOrphans

-----------------------------------------------------------------------------
(* The parts together *)

LEMMA PartsBegin == OperationsInit => Init /\ Q!Init
BY DEF OperationsInit

LEMMA PartsStep == [OperationsNext]_<<vars, queueVars>> => [Next]_vars /\ [Q!Next]_(Q!vars)
<1> SUFFICES ASSUME [OperationsNext]_<<vars, queueVars>> PROVE [Next]_vars /\ [Q!Next]_(Q!vars)
  OBVIOUS
<1>1. UNCHANGED queueVars => UNCHANGED Q!vars
  BY DEF queueVars, Q!vars
<1>2. QueuesNext => Q!Next
  BY DEF QueuesNext, Q!Next, Q!Desk, Q!Clerk
<1> QED BY <1>1, <1>2 DEF OperationsNext

\* A behaviour of the operations is one of Registry and one of ReportQueues, so
\* the theorems about either hold of it.
THEOREM Composed == OperationsSpec => Spec /\ Q!Spec
BY PartsBegin, PartsStep, PTL DEF OperationsSpec, Spec, Q!Spec

\* Rows, batches, entries of the log and what every call holds stay within what
\* the columns admit, and only flagged rows keep a reason.
THEOREM OperationsTypes == OperationsSpec => []OperationsTypeOK
BY Composed, RegistryTypes, QueueTypes, PTL DEF OperationsTypeOK

\* However imports, closes, nights and decisions follow one another, a row that
\* was skipped whole is on the list of override conflicts with its own turnover
\* until it is resolved (get_override_conflicts).
THEOREM SkipsStayListed == OperationsSpec => []SkippedIsListed
BY Composed, SkipsListed, PTL DEF SkippedIsListed

\* Whatever fails or ends between the commits of a resolution, a row is resolved
\* only when its unit's turnover has what the row was there for
\* (resolve_invalid_row, reconcile_pending_move_ins).
THEOREM RowsLeaveServed == OperationsSpec => []ResolvedWereServed
BY Composed, ResolutionsServe, PTL DEF ResolvedWereServed

\* A reconciliation during which nobody else writes leaves only move-ins whose
\* units have no open turnover (reconcile_pending_move_ins).
THEOREM OnlyOrphansStay == OperationsSpec => QueueHoldsOrphans
BY Composed, OrphansRemain, PTL DEF QueueHoldsOrphans
=============================================================================
