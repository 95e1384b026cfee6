---------------------------- MODULE BoardProofs ----------------------------
(***************************************************************************)
(* Theorems about Board, for any units, reports, dates, days and any       *)
(* number of actors at work: a load that nobody disturbs leaves the board  *)
(* true, two bring it to the report, a third changes nothing, and an       *)
(* overridden status keeps to its rule.                                    *)
(***************************************************************************)
EXTENDS Board, FiniteSetTheorems, WellFoundedInduction, TLAPS

-----------------------------------------------------------------------------
(* The first of some days, however many *)

\* Every set of days has a first one.
LEMMA FirstDay ==
  ASSUME NEW S, S \subseteq Nat, S # {}
  PROVE  Min(S) \in S
<1> PICK s \in S : TRUE
  OBVIOUS
<1> DEFINE T == {x \in S : x <= s}
           Before(x) == {y \in T : y < x}
           sets == {Before(x) : x \in T}
<1>1. IsFiniteSet(T) /\ s \in T /\ T \subseteq Nat
  <2>1. T \in SUBSET Nat /\ s \in Nat /\ \A x \in T : x <= s
    OBVIOUS
  <2>2. IsFiniteSet(T)
    <3> HIDE DEF T
    <3> QED BY <2>1, FS_BoundedSetOfNaturals
  <2>3. s \in T
    <3>1. s <= s
      BY <2>1
    <3> QED BY <3>1
  <2> QED BY <2>1, <2>2, <2>3
<1>2. IsWellFoundedOn(StrictSubsetOrdering(T), SUBSET T)
  <2> HIDE DEF T
  <2>1. FiniteSubsetsOf(T) = SUBSET T
    BY <1>1, FS_FiniteSubsetsOfFinite
  <2> QED BY <2>1, FS_StrictSubsetOrderingWellFounded
<1>3. sets \subseteq SUBSET T /\ sets # {}
  BY <1>1
<1>4. PICK least \in sets : \A z \in sets : ~(<<z, least>> \in StrictSubsetOrdering(T))
  <2> HIDE DEF sets
  <2> QED BY <1>2, <1>3, WFMin
<1>5. PICK x \in T : least = Before(x)
  BY <1>4
<1> HIDE DEF T
<1>6. \A y \in T : x <= y
  <2> SUFFICES ASSUME NEW y \in T, ~(x <= y) PROVE FALSE
    OBVIOUS
  <2>1. x \in Nat /\ y \in Nat /\ y < x
    BY <1>1
  <2>2. y \in Before(x) /\ y \notin Before(y)
    BY <2>1
  <2>3. Before(y) \subseteq Before(x)
    <3>1. ASSUME NEW z \in T, z < y PROVE z < x
      BY <1>1, <2>1, <3>1
    <3> QED BY <3>1
  <2>4. Before(x) \in SUBSET T /\ Before(y) \in SUBSET T /\ Before(y) \in sets
    OBVIOUS
  <2>5. <<Before(y), Before(x)>> \in StrictSubsetOrdering(T)
    <3> HIDE DEF Before
    <3> QED BY <2>2, <2>3, <2>4 DEF StrictSubsetOrdering
  <2> QED BY <1>4, <1>5, <2>4, <2>5
<1>7. \A y \in S : x <= y
  <2> TAKE y \in S
  <2>1. x \in Nat /\ y \in Nat /\ s \in Nat /\ x <= s
    BY <1>1 DEF T
  <2>2. CASE y <= s
    BY <1>6, <2>2 DEF T
  <2>3. CASE ~(y <= s)
    BY <2>1, <2>3
  <2> QED BY <2>2, <2>3
<1>8. x \in S
  BY DEF T
<1> QED BY <1>7, <1>8 DEF Min

\* The clock stays within the days, and a day that has passed is over.
LEMMA Clock ==
  /\ Min(Days) \in Days
  /\ \A now \in Days : now # Max(Days) =>
       Min({d \in Days : d > now}) \in {d \in Days : d > now}
<1>1. Min(Days) \in Days
  BY BoardConstants, FirstDay
<1>2. ASSUME NEW now \in Days, now # Max(Days)
      PROVE  Min({d \in Days : d > now}) \in {d \in Days : d > now}
  <2> DEFINE S == {d \in Days : d > now}
  <2>1. S # {}
    <3> SUFFICES ASSUME S = {} PROVE FALSE
      OBVIOUS
    <3>1. \A y \in Days : now >= y
      BY BoardConstants
    <3>2. \A z \in Days : (\A y \in Days : z >= y) => z = now
      <4> SUFFICES ASSUME NEW z \in Days, \A y \in Days : z >= y PROVE z = now
        OBVIOUS
      <4>1. z >= now /\ now >= z /\ z \in Nat /\ now \in Nat
        BY <3>1, BoardConstants
      <4> QED BY <4>1
    <3>3. Max(Days) = now
      BY <3>1, <3>2 DEF Max
    <3> QED BY <1>2, <3>3
  <2>2. S \subseteq Nat
    BY BoardConstants
  <2>3. Min(S) \in S
    <3> HIDE DEF S
    <3> QED BY <2>1, <2>2, FirstDay
  <2> QED BY <2>3
<1> QED BY <1>1, <1>2

-----------------------------------------------------------------------------
(* Fields to write *)

Cells == [gen : 0..LastGen, open : BOOLEAN, moveOut : Nat,
          available : Nat \cup {NoDate}, status : AvailabilityStatuses \cup {None},
          manual : ManualStatuses \cup {None}, override : BOOLEAN,
          ready : {"placeholder", "report", None}]

Snapshots == [status : AvailabilityStatuses \cup {None}, available : Nat \cup {NoDate},
              ready : BOOLEAN]

Columns == {"status", "manual", "available", "ready", "override"}

\* What update_turnover is given here.
FieldsOK(f) ==
  /\ DOMAIN f \subseteq Columns
  /\ "status" \in DOMAIN f => f.status \in AvailabilityStatuses \cup {None}
  /\ "manual" \in DOMAIN f => f.manual \in ManualStatuses
  /\ "available" \in DOMAIN f => f.available \in Nat
  /\ "ready" \in DOMAIN f => f.ready \in {"placeholder", "report"}
  /\ "override" \in DOMAIN f => f.override \in BOOLEAN

\* A column after an update.
Now(f, t, c) == IF c \in DOMAIN f THEN f[c] ELSE t[c]

\* An update keeps the types, and sets the columns that it is given.
LEMMA Updated ==
  ASSUME NEW t \in Cells, NEW f, FieldsOK(f)
  PROVE  /\ Over(f, t) \in Cells
         /\ Over(f, t) = [gen |-> t.gen, open |-> t.open, moveOut |-> t.moveOut,
                          available |-> Now(f, t, "available"), status |-> Now(f, t, "status"),
                          manual |-> Now(f, t, "manual"), override |-> Now(f, t, "override"),
                          ready |-> Now(f, t, "ready")]
<1> DEFINE now == Over(f, t)
           All == {"gen", "open", "moveOut", "available", "status", "manual", "override", "ready"}
<1>1. /\ now = [c \in DOMAIN f \cup DOMAIN t |-> IF c \in DOMAIN f THEN f[c] ELSE t[c]]
      /\ DOMAIN t = All
  BY DEF Over, Cells
<1>2. now = [c \in All |-> IF c \in DOMAIN f THEN f[c] ELSE t[c]]
  BY <1>1 DEF FieldsOK, Columns
<1>3. {"gen", "open", "moveOut"} \cap DOMAIN f = {}
  BY DEF FieldsOK, Columns
<1> DEFINE new == [gen |-> t.gen, open |-> t.open, moveOut |-> t.moveOut,
                   available |-> Now(f, t, "available"), status |-> Now(f, t, "status"),
                   manual |-> Now(f, t, "manual"), override |-> Now(f, t, "override"),
                   ready |-> Now(f, t, "ready")]
<1>4. now = new
  <2> HIDE DEF now
  <2> QED BY <1>2, <1>3 DEF Now
<1>5. /\ Now(f, t, "available") \in Nat \cup {NoDate}
      /\ Now(f, t, "status") \in AvailabilityStatuses \cup {None}
      /\ Now(f, t, "manual") \in ManualStatuses \cup {None}
      /\ Now(f, t, "override") \in BOOLEAN
      /\ Now(f, t, "ready") \in {"placeholder", "report", None}
  BY DEF Now, FieldsOK, Cells
<1>6. new \in Cells
  BY <1>5 DEF Cells
<1> HIDE DEF now, new
<1> QED BY <1>4, <1>6 DEF now, new

\* The same, column by column.
LEMMA UpdatedColumns ==
  ASSUME NEW t \in Cells, NEW f, FieldsOK(f), NEW n, n = Over(f, t)
  PROVE  /\ n \in Cells /\ n.gen = t.gen /\ n.open = t.open /\ n.moveOut = t.moveOut
         /\ n.available = Now(f, t, "available") /\ n.status = Now(f, t, "status")
         /\ n.manual = Now(f, t, "manual") /\ n.override = Now(f, t, "override")
         /\ n.ready = Now(f, t, "ready")
<1> DEFINE available == Now(f, t, "available")  status == Now(f, t, "status")
           manual == Now(f, t, "manual")  override == Now(f, t, "override")
           ready == Now(f, t, "ready")
<1>1. n \in Cells
        /\ n = [gen |-> t.gen, open |-> t.open, moveOut |-> t.moveOut, available |-> available,
                status |-> status, manual |-> manual, override |-> override, ready |-> ready]
  BY Updated
<1> HIDE DEF available, status, manual, override, ready
<1>2. n.gen = t.gen /\ n.open = t.open /\ n.moveOut = t.moveOut /\ n.available = available
        /\ n.status = status /\ n.manual = manual /\ n.override = override /\ n.ready = ready
  BY <1>1
<1> QED BY <1>1, <1>2 DEF available, status, manual, override, ready

\* The fields that are known beforehand.
LEMMA FixedFields ==
  /\ FieldsOK(NoFields) /\ DOMAIN NoFields = {}
  /\ FieldsOK(TransitionFields)
  /\ DOMAIN TransitionFields = {"status", "manual", "override"}
  /\ FieldsOK([ready |-> "placeholder"])
<1>1. FieldsOK(NoFields) /\ DOMAIN NoFields = {}
  BY DEF FieldsOK, NoFields, Columns
<1>2. DOMAIN TransitionFields = {"status", "manual", "override"} /\ FieldsOK(TransitionFields)
  BY DEF FieldsOK, TransitionFields, Columns, AvailabilityStatuses, ManualStatuses
<1>3. FieldsOK([ready |-> "placeholder"])
  BY DEF FieldsOK, Columns
<1> QED BY <1>1, <1>2, <1>3

LEMMA ArrivedFieldsOK ==
  ASSUME NEW row \in Snapshots, row.available \in Nat
  PROVE  /\ FieldsOK(ArrivedFields(row)) /\ ArrivedFields(row).available \in Nat
         /\ "override" \notin DOMAIN ArrivedFields(row)
<1> DEFINE F == ArrivedFields(row)
<1>1. /\ DOMAIN F = {"status", "manual", "available"} \cup (IF row.ready THEN {"ready"} ELSE {})
      /\ F.status = "vacant not ready" /\ F.manual = "Vacant Not Ready"
      /\ F.available = row.available
      /\ row.ready => F.ready = "report"
  <2>1. CASE row.ready
    BY <2>1 DEF ArrivedFields, Over
  <2>2. CASE ~row.ready
    BY <2>2 DEF ArrivedFields, Over, NoFields
  <2> QED BY <2>1, <2>2
<1> HIDE DEF F
<1>2. FieldsOK(F)
  BY <1>1 DEF FieldsOK, Columns, AvailabilityStatuses, ManualStatuses
<1> QED BY <1>1, <1>2 DEF F, Snapshots

\* The manual status of a report's status is never NULL.
LEMMA ManualOfStatus ==
  \A s \in AvailabilityStatuses : ManualReadyOf(s) \in ManualStatuses /\ ManualReadyOf(s) # None
BY DEF ManualReadyOf, AvailabilityStatuses, ManualStatuses, ReadyStatuses, None

\* The report's status is written over the turnover's.
Takes(t, row) == row.status # None /\ (~t.override \/ row.status = t.status)

LEMMA StatusFieldsAre ==
  ASSUME NEW t \in Cells, NEW row \in Snapshots
  PROVE  LET F == StatusFields(t, row)
         IN  /\ DOMAIN F = (IF Takes(t, row) /\ t.status # row.status THEN {"status", "manual"} ELSE {})
                             \cup (IF Takes(t, row) /\ t.override THEN {"override"} ELSE {})
             /\ "status" \in DOMAIN F => F.status = row.status /\ F.manual = ManualReadyOf(row.status)
             /\ "override" \in DOMAIN F => F.override = FALSE
<1> DEFINE F == StatusFields(t, row)
<1>1. Takes(t, row) <=> ~(row.status = None \/ ~ShouldApplyImportValue(t.status, t.override, row.status))
  BY DEF Takes, ShouldApplyImportValue
<1>2. CASE ~Takes(t, row)
  <2>1. F = NoFields
    BY <1>1, <1>2 DEF StatusFields
  <2> HIDE DEF F
  <2>2. DOMAIN F = {}
    BY <2>1 DEF NoFields
  <2> QED BY <1>2, <2>2 DEF F
<1>3. CASE Takes(t, row)
  <2> DEFINE S == IF t.status = row.status THEN NoFields
                  ELSE [status |-> row.status, manual |-> ManualReadyOf(row.status)]
             off == FALSE
             O == IF t.override THEN [override |-> off] ELSE NoFields
  <2>1. row.status \in AvailabilityStatuses /\ ManualReadyOf(row.status) # None
    BY <1>3, ManualOfStatus DEF Takes, Snapshots
  <2>2. Over([status |-> row.status], [manual |-> ManualReadyOf(row.status)])
          = [status |-> row.status, manual |-> ManualReadyOf(row.status)]
    BY DEF Over
  <2>3. F = Over(S, O)
    BY <1>1, <1>3, <2>1, <2>2 DEF StatusFields
  <2> HIDE DEF F, off
  <2>4. /\ DOMAIN S = (IF t.status # row.status THEN {"status", "manual"} ELSE {})
        /\ t.status # row.status => S.status = row.status /\ S.manual = ManualReadyOf(row.status)
    BY DEF NoFields
  <2>5. /\ DOMAIN O = (IF t.override THEN {"override"} ELSE {})
        /\ t.override => O.override = off
    BY DEF NoFields
  <2> HIDE DEF S, O
  <2>6. /\ DOMAIN F = DOMAIN S \cup DOMAIN O
        /\ \A c \in DOMAIN F : F[c] = IF c \in DOMAIN S THEN S[c] ELSE O[c]
    BY <2>3 DEF Over
  <2>7. "status" \in DOMAIN F => F.status = row.status /\ F.manual = ManualReadyOf(row.status)
    BY <2>4, <2>5, <2>6
  <2>8. "override" \in DOMAIN F => F.override = off
    BY <2>4, <2>5, <2>6
  <2> QED BY <1>3, <2>4, <2>5, <2>6, <2>7, <2>8 DEF F, off
<1> QED BY <1>2, <1>3

\* What a report's row changes of a turnover, column by column.
LEMMA ReportFieldsAre ==
  ASSUME NEW t \in Cells, NEW row \in Snapshots
  PROVE  LET F == ReportFields(t, row)
         IN  /\ DOMAIN F = DOMAIN StatusFields(t, row)
                             \cup (IF row.available \in {NoDate, t.available} THEN {} ELSE {"available"})
                             \cup (IF row.ready /\ t.ready # "report" THEN {"ready"} ELSE {})
             /\ "status" \in DOMAIN F => F.status = row.status /\ F.manual = ManualReadyOf(row.status)
             /\ "override" \in DOMAIN F => F.override = FALSE
             /\ "available" \in DOMAIN F => F.available = row.available
             /\ "ready" \in DOMAIN F => F.ready = "report"
             /\ DOMAIN F = {} => F = NoFields
             /\ DOMAIN NoFields = {}
<1> DEFINE F == ReportFields(t, row)
           S == StatusFields(t, row)
           A == IF row.available \in {NoDate, t.available} THEN NoFields
                ELSE [available |-> row.available]
           R == IF row.ready /\ t.ready # "report" THEN [ready |-> "report"] ELSE NoFields
           off == FALSE
<1>1. F = Over(S, Over(A, R))
  BY DEF ReportFields
<1>2. /\ DOMAIN S \subseteq {"status", "manual", "override"}
      /\ "status" \in DOMAIN S => S.status = row.status /\ S.manual = ManualReadyOf(row.status)
      /\ "override" \in DOMAIN S => S.override = off
      /\ "status" \in DOMAIN S <=> "manual" \in DOMAIN S
  <2> DEFINE changes == Takes(t, row) /\ t.status # row.status
             clears == Takes(t, row) /\ t.override
  <2>1. DOMAIN S = (IF changes THEN {"status", "manual"} ELSE {}) \cup (IF clears THEN {"override"} ELSE {})
    BY StatusFieldsAre
  <2>2. "status" \in DOMAIN S => S.status = row.status /\ S.manual = ManualReadyOf(row.status)
    BY StatusFieldsAre
  <2>3. "override" \in DOMAIN S => S.override = off
    BY StatusFieldsAre
  <2> HIDE DEF changes, clears, S, off
  <2> QED BY <2>1, <2>2, <2>3
<1>3. /\ DOMAIN A = IF row.available \in {NoDate, t.available} THEN {} ELSE {"available"}
      /\ "available" \in DOMAIN A => A.available = row.available
  BY DEF NoFields
<1>4. /\ DOMAIN R = IF row.ready /\ t.ready # "report" THEN {"ready"} ELSE {}
      /\ "ready" \in DOMAIN R => R.ready = "report"
  BY DEF NoFields
<1> HIDE DEF F, S, A, R, off
<1> DEFINE AR == Over(A, R)
<1>5. /\ DOMAIN AR = DOMAIN A \cup DOMAIN R
      /\ \A c \in DOMAIN AR : AR[c] = IF c \in DOMAIN A THEN A[c] ELSE R[c]
  BY DEF Over
<1> HIDE DEF AR
<1>6. /\ F = [c \in DOMAIN S \cup DOMAIN AR |-> IF c \in DOMAIN S THEN S[c] ELSE AR[c]]
  BY <1>1 DEF Over, AR
<1>7. /\ DOMAIN F = DOMAIN S \cup DOMAIN AR
      /\ \A c \in DOMAIN F : F[c] = IF c \in DOMAIN S THEN S[c] ELSE AR[c]
      /\ DOMAIN F = {} => F = NoFields
      /\ DOMAIN NoFields = {}
  BY <1>6 DEF NoFields
<1>8. "status" \in DOMAIN F => F.status = row.status /\ F.manual = ManualReadyOf(row.status)
  <2> SUFFICES ASSUME "status" \in DOMAIN F
               PROVE  F.status = row.status /\ F.manual = ManualReadyOf(row.status)
    OBVIOUS
  <2>1. "status" \in DOMAIN S /\ "manual" \in DOMAIN S
    BY <1>2, <1>3, <1>4, <1>5, <1>7
  <2> QED BY <1>2, <1>7, <2>1
<1>9. "override" \in DOMAIN F => F.override = off
  BY <1>2, <1>3, <1>4, <1>5, <1>7
<1>10. "available" \in DOMAIN F => F.available = row.available
  BY <1>2, <1>3, <1>4, <1>5, <1>7
<1>11. "ready" \in DOMAIN F => F.ready = "report"
  BY <1>2, <1>3, <1>4, <1>5, <1>7
<1> QED BY <1>3, <1>4, <1>5, <1>7, <1>8, <1>9, <1>10, <1>11 DEF F, S, off

\* When a report's row has nothing to change.
LEMMA NothingToChange ==
  ASSUME NEW t \in Cells, NEW row \in Snapshots
  PROVE  ReportFields(t, row) = NoFields
           <=> /\ Takes(t, row) => t.status = row.status /\ ~t.override
               /\ row.available \in {NoDate, t.available}
               /\ row.ready => t.ready = "report"
<1> DEFINE F == ReportFields(t, row)
           S == StatusFields(t, row)
<1>1. DOMAIN S = (IF Takes(t, row) /\ t.status # row.status THEN {"status", "manual"} ELSE {})
                    \cup (IF Takes(t, row) /\ t.override THEN {"override"} ELSE {})
  BY StatusFieldsAre
<1>2. /\ DOMAIN F = DOMAIN S
                      \cup (IF row.available \in {NoDate, t.available} THEN {} ELSE {"available"})
                      \cup (IF row.ready /\ t.ready # "report" THEN {"ready"} ELSE {})
      /\ DOMAIN F = {} => F = NoFields
      /\ DOMAIN NoFields = {}
  BY ReportFieldsAre
<1> HIDE DEF F, S
<1>3. F = NoFields <=> DOMAIN F = {}
  BY <1>2
<1>4. DOMAIN S = {} <=> (Takes(t, row) => t.status = row.status /\ ~t.override)
  <2> DEFINE changes == Takes(t, row) /\ t.status # row.status
             clears == Takes(t, row) /\ t.override
  <2>1. DOMAIN S = (IF changes THEN {"status", "manual"} ELSE {}) \cup (IF clears THEN {"override"} ELSE {})
    BY <1>1
  <2> HIDE DEF changes, clears
  <2>2. DOMAIN S = {} <=> ~changes /\ ~clears
    BY <2>1
  <2> QED BY <2>2 DEF changes, clears
<1>5. DOMAIN F = {} <=> /\ DOMAIN S = {}
                        /\ row.available \in {NoDate, t.available}
                        /\ ~(row.ready /\ t.ready # "report")
  <2> DEFINE dated == row.available \in {NoDate, t.available}
             readied == row.ready /\ t.ready # "report"
  <2>1. DOMAIN F = DOMAIN S \cup (IF dated THEN {} ELSE {"available"})
                            \cup (IF readied THEN {"ready"} ELSE {})
    BY <1>2
  <2> HIDE DEF dated, readied
  <2>2. DOMAIN F = {} <=> DOMAIN S = {} /\ dated /\ ~readied
    BY <2>1
  <2> QED BY <2>2 DEF dated, readied
<1> QED BY <1>3, <1>4, <1>5 DEF F

LEMMA ReportFieldsOK ==
  ASSUME NEW t \in Cells, NEW row \in Snapshots
  PROVE  /\ FieldsOK(ReportFields(t, row))
         /\ "status" \in DOMAIN ReportFields(t, row) => ~t.override
<1> DEFINE F == ReportFields(t, row)
           S == StatusFields(t, row)
           off == FALSE
<1>1. /\ DOMAIN S \subseteq {"status", "manual", "override"}
      /\ "status" \in DOMAIN S \/ "manual" \in DOMAIN S => Takes(t, row) /\ t.status # row.status
      /\ "manual" \in DOMAIN S => "status" \in DOMAIN S
  <2> DEFINE changes == Takes(t, row) /\ t.status # row.status
             clears == Takes(t, row) /\ t.override
  <2>1. DOMAIN S = (IF changes THEN {"status", "manual"} ELSE {}) \cup (IF clears THEN {"override"} ELSE {})
    BY StatusFieldsAre
  <2> HIDE DEF changes, clears, S
  <2>2. changes = (Takes(t, row) /\ t.status # row.status)
    BY DEF changes
  <2> QED BY <2>1, <2>2
<1>2. /\ DOMAIN F = DOMAIN S
                      \cup (IF row.available \in {NoDate, t.available} THEN {} ELSE {"available"})
                      \cup (IF row.ready /\ t.ready # "report" THEN {"ready"} ELSE {})
      /\ "status" \in DOMAIN F => F.status = row.status /\ F.manual = ManualReadyOf(row.status)
      /\ "override" \in DOMAIN F => F.override = off
      /\ "available" \in DOMAIN F => F.available = row.available
      /\ "ready" \in DOMAIN F => F.ready = "report"
  BY ReportFieldsAre
<1>3. off \in BOOLEAN
  OBVIOUS
<1> HIDE DEF F, S, off
<1>4. DOMAIN F \subseteq Columns
  BY <1>1, <1>2 DEF Columns
<1>5. ("status" \in DOMAIN F \/ "manual" \in DOMAIN F) =>
        "status" \in DOMAIN F /\ Takes(t, row) /\ t.status # row.status
  BY <1>1, <1>2
<1>6. ASSUME "status" \in DOMAIN F \/ "manual" \in DOMAIN F
      PROVE  /\ F.status \in AvailabilityStatuses /\ F.manual \in ManualStatuses
             /\ ~t.override
  <2>1. row.status \in AvailabilityStatuses /\ F.status = row.status /\ F.manual = ManualReadyOf(row.status)
    BY <1>2, <1>5, <1>6 DEF Takes, Snapshots
  <2> QED BY <1>5, <1>6, <2>1, ManualOfStatus DEF Takes
<1>7. "available" \in DOMAIN F => F.available \in Nat
  <2> SUFFICES ASSUME "available" \in DOMAIN F PROVE F.available \in Nat
    OBVIOUS
  <2>1. F.available = row.available /\ "available" \notin DOMAIN S
    BY <1>1, <1>2
  <2>2. row.available # NoDate
    BY <1>2, <2>1
  <2> QED BY <2>1, <2>2 DEF Snapshots
<1>8. "override" \in DOMAIN F => F.override \in BOOLEAN
  BY <1>2, <1>3
<1>9. FieldsOK(F)
  BY <1>2, <1>4, <1>6, <1>7, <1>8 DEF FieldsOK
<1> QED BY <1>6, <1>9 DEF F

\* A unit that has left the report: an overridden status stays.
LEMMA LeftFieldsOK ==
  ASSUME NEW t \in Cells
  PROVE  /\ FieldsOK(LeftFields(t))
         /\ "status" \in DOMAIN LeftFields(t) => ~t.override
<1>1. CASE ~StatusIsVacant(t.status) \/ ~ShouldApplyImportValue(t.status, t.override, None)
  <2>1. LeftFields(t) = NoFields
    BY <1>1 DEF LeftFields
  <2> QED BY <2>1, FixedFields
<1>2. CASE StatusIsVacant(t.status) /\ ShouldApplyImportValue(t.status, t.override, None)
  <2>1. LeftFields(t) = [status |-> None]
    BY <1>2 DEF LeftFields
  <2>2. ~t.override
    BY <1>2 DEF StatusIsVacant, ShouldApplyImportValue, None
  <2>3. FieldsOK([status |-> None])
    BY DEF FieldsOK, Columns
  <2> QED BY <2>1, <2>2, <2>3
<1> QED BY <1>1, <1>2

\* A report applied twice changes nothing more.
LEMMA ReportTwice ==
  ASSUME NEW t \in Cells, NEW row \in Snapshots
  PROVE  ReportFields(Over(ReportFields(t, row), t), row) = NoFields
<1> DEFINE F == ReportFields(t, row)
           S == StatusFields(t, row)
           n == Over(F, t)
           off == FALSE
<1>1. /\ DOMAIN S = (IF Takes(t, row) /\ t.status # row.status THEN {"status", "manual"} ELSE {})
                      \cup (IF Takes(t, row) /\ t.override THEN {"override"} ELSE {})
  BY StatusFieldsAre
<1>2. /\ DOMAIN F = DOMAIN S
                      \cup (IF row.available \in {NoDate, t.available} THEN {} ELSE {"available"})
                      \cup (IF row.ready /\ t.ready # "report" THEN {"ready"} ELSE {})
      /\ "status" \in DOMAIN F => F.status = row.status /\ F.manual = ManualReadyOf(row.status)
      /\ "override" \in DOMAIN F => F.override = off
      /\ "available" \in DOMAIN F => F.available = row.available
      /\ "ready" \in DOMAIN F => F.ready = "report"
  BY ReportFieldsAre
<1>3. FieldsOK(F)
  BY ReportFieldsOK
<1>4. off = FALSE
  OBVIOUS
<1> HIDE DEF F, S, off
<1>5. n \in Cells /\ n.available = Now(F, t, "available") /\ n.status = Now(F, t, "status")
        /\ n.override = Now(F, t, "override") /\ n.ready = Now(F, t, "ready")
  BY <1>3, UpdatedColumns
<1> HIDE DEF n
<1>6. row.available \in {NoDate, n.available}
  BY <1>2, <1>5 DEF Now
<1>7. row.ready => n.ready = "report"
  BY <1>2, <1>5 DEF Now
<1>8. ASSUME Takes(n, row) PROVE n.status = row.status /\ ~n.override
  <2> DEFINE changes == Takes(t, row) /\ t.status # row.status
             clears == Takes(t, row) /\ t.override
  <2>1. DOMAIN S = (IF changes THEN {"status", "manual"} ELSE {}) \cup (IF clears THEN {"override"} ELSE {})
    BY <1>1
  <2> HIDE DEF changes, clears
  <2>2. /\ "status" \in DOMAIN F <=> changes
        /\ "override" \in DOMAIN F <=> clears
    BY <1>2, <2>1
  <2>3. n.status = (IF changes THEN row.status ELSE t.status)
    BY <1>2, <1>5, <2>2 DEF Now
  <2>4. n.override = (IF clears THEN off ELSE t.override)
    BY <1>2, <1>5, <2>2 DEF Now
  <2>5. CASE Takes(t, row)
    <3>1. n.status = row.status
      BY <2>3, <2>5 DEF changes
    <3>2. ~n.override
      BY <2>4, <2>5, <1>4 DEF clears
    <3> QED BY <3>1, <3>2
  <2>6. CASE ~Takes(t, row)
    <3>1. n.status = t.status /\ n.override = t.override
      BY <2>3, <2>4, <2>6 DEF changes, clears
    <3> QED BY <1>8, <2>6, <3>1 DEF Takes
  <2> QED BY <2>5, <2>6
<1> QED BY <1>5, <1>6, <1>7, <1>8, NothingToChange DEF n, F

\* What the later stages of a load write leaves the report with nothing to change.
LEMMA MovedOnFollows ==
  ASSUME NEW t \in Cells, NEW row \in Snapshots, StatusIsOnNotice(row.status),
         ReportFields(t, row) = NoFields
  PROVE  ReportFields(Over(TransitionFields, t), row) = NoFields
<1> DEFINE n == Over(TransitionFields, t)
           on == TRUE
<1>1. /\ DOMAIN TransitionFields = {"status", "manual", "override"}
      /\ TransitionFields.status = "vacant not ready" /\ TransitionFields.override = on
      /\ FieldsOK(TransitionFields)
  BY FixedFields DEF TransitionFields
<1>2. on = TRUE
  OBVIOUS
<1> HIDE DEF on
<1>3. n \in Cells /\ n.available = t.available /\ n.status = "vacant not ready"
        /\ n.override = on /\ n.ready = t.ready
  <2> DEFINE f == TransitionFields
  <2>1. n = Over(f, t) /\ FieldsOK(f)
    BY <1>1
  <2>3. /\ DOMAIN f = {"status", "manual", "override"}
        /\ f.status = "vacant not ready" /\ f.override = on
    BY <1>1
  <2> HIDE DEF f, n
  <2>2. n \in Cells /\ n.available = Now(f, t, "available") /\ n.status = Now(f, t, "status")
          /\ n.override = Now(f, t, "override") /\ n.ready = Now(f, t, "ready")
    BY <2>1, UpdatedColumns
  <2> QED BY <2>2, <2>3 DEF Now
<1> HIDE DEF n
<1>4. ~Takes(n, row)
  BY <1>2, <1>3 DEF Takes, StatusIsOnNotice
<1>5. row.available \in {NoDate, t.available} /\ (row.ready => t.ready = "report")
  BY NothingToChange
<1> QED BY <1>3, <1>4, <1>5, NothingToChange DEF n

LEMMA BackfilledFollows ==
  ASSUME NEW t \in Cells, NEW row \in Snapshots, t.ready = None,
         ReportFields(t, row) = NoFields
  PROVE  ReportFields(Over([ready |-> "placeholder"], t), row) = NoFields
<1> DEFINE n == Over([ready |-> "placeholder"], t)
<1>1. n \in Cells /\ n.available = t.available /\ n.status = t.status
        /\ n.override = t.override
  <2> DEFINE f == [ready |-> "placeholder"]
  <2>1. n = Over(f, t) /\ FieldsOK(f) /\ DOMAIN f = {"ready"}
    BY FixedFields
  <2> HIDE DEF f, n
  <2>2. n \in Cells /\ n.available = Now(f, t, "available") /\ n.status = Now(f, t, "status")
          /\ n.override = Now(f, t, "override")
    BY <2>1, UpdatedColumns
  <2> QED BY <2>1, <2>2 DEF Now
<1> HIDE DEF n
<1>2. /\ Takes(t, row) => t.status = row.status /\ ~t.override
      /\ row.available \in {NoDate, t.available} /\ (row.ready => t.ready = "report")
  BY NothingToChange
<1>3. ~row.ready
  BY <1>2 DEF None
<1>4. Takes(n, row) <=> Takes(t, row)
  BY <1>1 DEF Takes
<1> QED BY <1>1, <1>2, <1>3, <1>4, NothingToChange DEF n

-----------------------------------------------------------------------------
(***************************************************************************)
(* Types.  What an actor keeps depends on where in its work it is.         *)
(***************************************************************************)
Locals == {"stage", "step", "day", "rows", "todo", "target", "fields", "alone"}

Writes == {"next", "create", "update"}

PlaceOK(a, p) ==
  \/ p.stage = "idle" /\ p.step = "-"
  \/ a = "loop" /\ p.stage = "reconcile" /\ p.step \in {"enter", "next", "write"}
  \/ a = "loop" /\ p.stage = "ensure" /\ p.step \in {"enter"} \cup Writes
  \/ a = "loop" /\ p.stage \in {"transition", "backfill"} /\ p.step \in {"enter", "next"}
  \/ a = "job" /\ p.stage = "transition" /\ p.step \in {"enter", "next"}
  \/ a = "job" /\ p.stage = "create" /\ p.step \in {"enter", "forget"} \cup Writes
  \/ a = "import" /\ p.stage = "import" /\ p.step \in {"look", "update"}

LocalsOK(a, p) ==
  /\ DOMAIN p = Locals /\ PlaceOK(a, p)
  /\ p.day \in Days \cup {0} /\ p.alone \in BOOLEAN
  /\ p.rows \in [Units -> Snapshots] /\ (a # "job" => p.rows \in Reports)
  /\ p.todo \subseteq Units \X Nat
  /\ p.step \in {"write", "create", "update", "forget"} => p.target \in Units \X Nat
  /\ p.step \in {"write", "create", "update"} /\ a # "import" =>
       FieldsOK(p.fields) /\ (p.step # "write" => "override" \notin DOMAIN p.fields)
  /\ p.step = "create" => p.fields.available \in Nat
  /\ p.step = "look" => \A u \in Units : FieldsOK(p.fields[u])
  /\ p.stage = "create" /\ p.step # "enter" =>
       \A x \in p.todo : p.rows[x[1]].available \in Nat

TypeInv == TypeOK /\ \A a \in Actors : LocalsOK(a, proc[a])

LEMMA RowTypes ==
  /\ NoRow \in Snapshots /\ Reports \subseteq [Units -> Snapshots]
  /\ [u \in Units |-> NoRow] \in Reports
<1>1. NoRow \in Snapshots
  BY DEF NoRow, Snapshots, NoDate, None
<1>2. ReportRows \subseteq Snapshots
  BY BoardConstants DEF Snapshots
<1> QED BY <1>1, <1>2 DEF Reports

LEMMA IdleOK == \A a \in Actors : LocalsOK(a, Idle)
<1> DEFINE none == [u \in Units |-> NoRow]
<1>1. none \in Reports /\ none \in [Units -> Snapshots]
  BY RowTypes
<1>2. Idle = [stage |-> "idle", step |-> "-", day |-> 0, rows |-> none,
              todo |-> {}, target |-> <<>>, fields |-> NoFields, alone |-> FALSE]
  BY DEF Idle
<1> HIDE DEF none
<1> QED BY <1>1, <1>2 DEF LocalsOK, PlaceOK, Locals

\* What another actor keeps when a moves on: a busy one is not alone any more.
LEMMA AloneNoMore ==
  ASSUME NEW p, NEW b \in Actors, LocalsOK(b, p)
  PROVE  /\ LocalsOK(b, [p EXCEPT !.alone = FALSE])
         /\ ~[p EXCEPT !.alone = FALSE].alone
<1> DEFINE off == FALSE
           q == [p EXCEPT !.alone = off]
<1>1. off \in BOOLEAN /\ ~off
  OBVIOUS
<1> HIDE DEF off
<1>2. /\ q.stage = p.stage /\ q.step = p.step /\ q.day = p.day /\ q.rows = p.rows
      /\ q.todo = p.todo /\ q.target = p.target /\ q.fields = p.fields
      /\ q.alone = off /\ DOMAIN q = DOMAIN p
  BY DEF LocalsOK, Locals
<1> HIDE DEF q
<1>3. LocalsOK(b, q)
  BY <1>1, <1>2 DEF LocalsOK, PlaceOK
<1> QED BY <1>1, <1>2, <1>3 DEF q, off

LEMMA SetTypes ==
  ASSUME NEW a \in Actors, NEW p, Set(a, p), LocalsOK(a, p), \A b \in Actors : LocalsOK(b, proc[b])
  PROVE  \A b \in Actors : LocalsOK(b, proc'[b])
<1> TAKE b \in Actors
<1>1. proc'[b] = IF b = a THEN p ELSE IF Busy(b) THEN [proc[b] EXCEPT !.alone = FALSE] ELSE proc[b]
  BY DEF Set
<1>2. LocalsOK(b, [proc[b] EXCEPT !.alone = FALSE])
  BY AloneNoMore
<1> QED BY <1>1, <1>2

\* The turnovers and their history.
TurnOK ==
  /\ turn \in [Units -> Cells] /\ operated \in [Units -> BOOLEAN]
  /\ \A u \in Units : ~turn[u].open => turn[u] = [NoTurnover EXCEPT !.gen = turn[u].gen]

LEMMA WriteTypes ==
  ASSUME TurnOK, NEW u \in Units, turn[u].open, NEW f, FieldsOK(f), Write(u, f)
  PROVE  TurnOK'
<1> DEFINE n == Over(f, turn[u])
<1>1. turn[u] \in Cells
  BY DEF TurnOK
<1>2. n \in Cells /\ n.open = turn[u].open
  BY <1>1, UpdatedColumns
<1>3. turn' = [turn EXCEPT ![u] = n]
  BY DEF Write
<1>4. operated' \in [Units -> BOOLEAN]
  BY DEF Write, TurnOK
<1> HIDE DEF n
<1>5. turn' \in [Units -> Cells]
  BY <1>2, <1>3 DEF TurnOK
<1>6. \A v \in Units : turn'[v] = IF v = u THEN n ELSE turn[v]
  BY <1>3 DEF TurnOK
<1> QED BY <1>2, <1>4, <1>5, <1>6 DEF TurnOK

\* A turnover as it is created, and the place of one that has ended.
LEMMA NewCells ==
  /\ \A g \in 0..LastGen : [NoTurnover EXCEPT !.gen = g] \in Cells
  /\ \A g \in 0..LastGen : /\ ~[NoTurnover EXCEPT !.gen = g].open
                           /\ [NoTurnover EXCEPT !.gen = g].gen = g
  /\ \A u \in Units, d \in Nat : TurnOK /\ CanCreate(u) =>
       /\ Created(u, d) \in Cells /\ Created(u, d).open /\ ~Created(u, d).override
       /\ Created(u, d).gen = turn[u].gen + 1
  /\ NoTurnover \in Cells
<1> DEFINE on == TRUE  off == FALSE
<1>0. on /\ ~off /\ on \in BOOLEAN /\ off \in BOOLEAN /\ LastGen \in Nat
  BY BoardConstants
<1>1. NoTurnover = [gen |-> 0, open |-> off, moveOut |-> 0, available |-> NoDate,
                    status |-> None, manual |-> None, override |-> off, ready |-> None]
  BY DEF NoTurnover
<1> HIDE DEF on, off
<1>2. NoTurnover \in Cells
  BY <1>0, <1>1 DEF Cells
<1>3. ASSUME NEW g \in 0..LastGen
      PROVE  /\ [NoTurnover EXCEPT !.gen = g] \in Cells /\ ~[NoTurnover EXCEPT !.gen = g].open
             /\ [NoTurnover EXCEPT !.gen = g].gen = g
  <2> DEFINE c == [NoTurnover EXCEPT !.gen = g]
  <2>1. c = [gen |-> g, open |-> off, moveOut |-> 0, available |-> NoDate,
             status |-> None, manual |-> None, override |-> off, ready |-> None]
    BY <1>1
  <2> HIDE DEF c
  <2>2. c \in Cells /\ ~c.open /\ c.gen = g
    BY <1>0, <2>1 DEF Cells
  <2> QED BY <2>2 DEF c
<1>4. ASSUME NEW u \in Units, NEW d \in Nat, TurnOK, CanCreate(u)
      PROVE  /\ Created(u, d) \in Cells /\ Created(u, d).open /\ ~Created(u, d).override
             /\ Created(u, d).gen = turn[u].gen + 1
  <2> DEFINE c == Created(u, d)
             g == turn[u].gen + 1
  <2>1. g \in 0..LastGen
    BY <1>0, <1>4 DEF CanCreate, TurnOK, Cells
  <2>2. c = [gen |-> g, open |-> on, moveOut |-> d, available |-> NoDate,
             status |-> None, manual |-> None, override |-> off, ready |-> "placeholder"]
    <3>1. c = [NoTurnover EXCEPT !.gen = g, !.open = on, !.moveOut = d, !.ready = "placeholder"]
      BY DEF Created, on
    <3> HIDE DEF c, g
    <3> QED BY <1>1, <3>1
  <2> HIDE DEF c, g
  <2>3. c \in Cells /\ c.open /\ ~c.override /\ c.gen = g
    BY <1>0, <2>1, <2>2 DEF Cells
  <2> QED BY <2>3 DEF c, g
<1> QED BY <1>2, <1>3, <1>4

LEMMA CreateTypes ==
  ASSUME TurnOK, NEW u \in Units, NEW d \in Nat, Create(u, d)
  PROVE  TurnOK'
<1> DEFINE n == Created(u, d)
<1>1. n \in Cells /\ n.open
  BY NewCells DEF Create
<1>2. turn' = [turn EXCEPT ![u] = n] /\ operated' = [operated EXCEPT ![u] = FALSE]
  BY DEF Create
<1> HIDE DEF n
<1>3. turn' \in [Units -> Cells] /\ operated' \in [Units -> BOOLEAN]
  BY <1>1, <1>2 DEF TurnOK
<1>4. \A v \in Units : turn'[v] = IF v = u THEN n ELSE turn[v]
  BY <1>2 DEF TurnOK
<1> QED BY <1>1, <1>3, <1>4 DEF TurnOK

\* The other handlers.
LEMMA ByHandTypes ==
  ASSUME TypeInv, TurnOK, NEW u \in Units, NEW t \in Cells, NEW operates \in BOOLEAN,
         t.open \/ t = [NoTurnover EXCEPT !.gen = t.gen],
         ByHand(u, t, operates)
  PROVE  TurnOK' /\ \A b \in Actors : LocalsOK(b, proc'[b])
<1>1. turn' = [turn EXCEPT ![u] = t] /\ operated' = [operated EXCEPT ![u] = operates]
  BY DEF ByHand
<1>2. turn' \in [Units -> Cells] /\ operated' \in [Units -> BOOLEAN]
  BY <1>1 DEF TurnOK
<1>3. \A v \in Units : turn'[v] = IF v = u THEN t ELSE turn[v]
  BY <1>1 DEF TurnOK
<1>4. TurnOK'
  BY <1>2, <1>3 DEF TurnOK
<1>5. ASSUME NEW b \in Actors PROVE LocalsOK(b, proc'[b])
  <2>1. proc'[b] = IF Busy(b) THEN [proc[b] EXCEPT !.alone = FALSE] ELSE proc[b]
    BY DEF ByHand
  <2>2. LocalsOK(b, proc[b])
    BY DEF TypeInv
  <2>3. LocalsOK(b, [proc[b] EXCEPT !.alone = FALSE])
    BY <2>2, AloneNoMore
  <2> QED BY <2>1, <2>2, <2>3
<1> QED BY <1>4, <1>5

LEMMA StageOrder ==
  /\ StageAfter("reconcile") = "ensure" /\ StageAfter("ensure") = "transition"
  /\ StageAfter("transition") = "backfill" /\ StageAfter("backfill") = "idle"
<1>1. /\ Stages[1] = "reconcile" /\ Stages[2] = "ensure" /\ Stages[3] = "transition"
      /\ Stages[4] = "backfill" /\ Stages[5] = "idle"
  BY DEF Stages
<1>2. \A n \in 1..4 : n = 1 \/ n = 2 \/ n = 3 \/ n = 4
  OBVIOUS
<1>3. ASSUME NEW s, NEW m \in 1..4, Stages[m] = s,
             \A n \in 1..4 : Stages[n] = s => n = m
      PROVE  StageAfter(s) = Stages[m + 1]
  BY <1>3 DEF StageAfter
<1>4. StageAfter("reconcile") = Stages[1 + 1]
  BY <1>1, <1>2, <1>3
<1>5. StageAfter("ensure") = Stages[2 + 1]
  BY <1>1, <1>2, <1>3
<1>6. StageAfter("transition") = Stages[3 + 1]
  BY <1>1, <1>2, <1>3
<1>7. StageAfter("backfill") = Stages[4 + 1]
  BY <1>1, <1>2, <1>3
<1> QED BY <1>1, <1>4, <1>5, <1>6, <1>7

\* An actor at the beginning of a stage.
Enter(stage, day, alone) ==
  [Idle EXCEPT !.stage = stage, !.step = "enter", !.day = day, !.alone = alone]

LEMMA EnterIs ==
  /\ \A stage, day, alone : /\ Enter(stage, day, alone).stage = stage
                           /\ Enter(stage, day, alone).step = "enter"
                           /\ Enter(stage, day, alone).day = day
  /\ \A stage, day, alone : Enter(stage, day, alone).alone = alone
BY DEF Enter, Idle

LEMMA EnterOK ==
  ASSUME NEW a \in Actors, NEW stage, NEW day \in Days \cup {0}, NEW alone \in BOOLEAN,
         PlaceOK(a, [stage |-> stage, step |-> "enter"])
  PROVE  LET q == Enter(stage, day, alone)
         IN  /\ LocalsOK(a, q)
             /\ q.stage = stage /\ q.step = "enter" /\ q.day = day /\ q.alone = alone
<1> DEFINE q == Enter(stage, day, alone)
<1>1. LocalsOK(a, Idle)
  BY IdleOK
<1>2. /\ q.stage = stage /\ q.step = "enter" /\ q.day = day /\ q.alone = alone
      /\ q.rows = Idle.rows /\ q.todo = Idle.todo /\ q.target = Idle.target
      /\ q.fields = Idle.fields /\ DOMAIN q = Locals
  BY <1>1 DEF LocalsOK, Locals, Enter
<1> HIDE DEF q
<1>3. PlaceOK(a, q)
  <2> DEFINE place == [stage |-> stage, step |-> "enter"]
  <2>1. PlaceOK(a, place) /\ place.stage = stage /\ place.step = "enter"
    OBVIOUS
  <2> HIDE DEF place
  <2> QED BY <1>2, <2>1 DEF PlaceOK
<1>4. Idle.todo = {}
  BY DEF Idle
<1>5. LocalsOK(a, q)
  BY <1>1, <1>2, <1>3, <1>4 DEF LocalsOK
<1> QED BY <1>2, <1>5 DEF q

\* What comes after a stage.
LEMMA NextStageIs ==
  ASSUME TypeInv, NEW a \in {"loop", "job"}, Busy(a), NEW completed \in BOOLEAN,
         NextStage(a, completed)
  PROVE  /\ Set(a, proc'[a]) /\ LocalsOK(a, proc'[a])
         /\ a = "loop" /\ proc[a].stage # "backfill" =>
              /\ proc'[a].step = "enter" /\ proc'[a].day = proc[a].day
              /\ proc'[a].alone = (proc[a].alone /\ completed)
              /\ proc[a].stage = "reconcile" => proc'[a].stage = "ensure"
              /\ proc[a].stage = "ensure" => proc'[a].stage = "transition"
              /\ proc[a].stage = "transition" => proc'[a].stage = "backfill"
              /\ quiet' = quiet
         /\ a = "loop" /\ proc[a].stage = "backfill" =>
              /\ proc'[a] = Idle
              /\ quiet' = IF proc[a].alone /\ completed /\ proc[a].day = today
                          THEN Min({quiet + 1, 2}) ELSE 0
         /\ a = "job" => quiet' = 0
<1>0. PICK alone \in BOOLEAN : alone = (proc[a].alone /\ completed)
  OBVIOUS
<1> DEFINE p == proc[a]
           next == IF a = "loop" THEN StageAfter(p.stage)
                   ELSE IF p.stage = "transition" THEN "create" ELSE "idle"
           q == Enter(next, p.day, alone)
           goal == IF next = "idle" THEN Idle ELSE q
<1>1. /\ Set(a, goal)
      /\ quiet' = IF a # "loop" THEN 0
                  ELSE IF next # "idle" THEN quiet
                  ELSE IF alone /\ p.day = today THEN Min({quiet + 1, 2}) ELSE 0
  BY <1>0 DEF NextStage, Enter
<1>2. LocalsOK(a, p) /\ a \in Actors
  BY DEF TypeInv, Actors
<1>3. alone \in BOOLEAN /\ p.day \in Days \cup {0}
  BY <1>2 DEF LocalsOK
<1>4. /\ a = "loop" => p.stage \in {"reconcile", "ensure", "transition", "backfill"}
      /\ a = "job" => p.stage \in {"transition", "create"}
  BY <1>2 DEF LocalsOK, PlaceOK, Busy
<1>5. /\ a = "loop" /\ p.stage = "reconcile" => next = "ensure"
      /\ a = "loop" /\ p.stage = "ensure" => next = "transition"
      /\ a = "loop" /\ p.stage = "transition" => next = "backfill"
      /\ a = "loop" /\ p.stage = "backfill" => next = "idle"
      /\ a = "job" => next = "create" \/ next = "idle"
  BY StageOrder
<1>6. /\ a = "loop" => next \in {"ensure", "transition", "backfill", "idle"}
      /\ a = "job" => next \in {"create", "idle"}
  BY <1>4, <1>5
<1>7. proc'[a] = goal
  BY <1>1, <1>2 DEF Set
<1> HIDE DEF next, p
<1>8. next # "idle" => /\ LocalsOK(a, q) /\ q.stage = next /\ q.step = "enter" /\ q.day = p.day
                       /\ q.alone = alone
  <2> SUFFICES ASSUME next # "idle"
               PROVE  LocalsOK(a, q) /\ q.stage = next /\ q.step = "enter" /\ q.day = p.day
                       /\ q.alone = alone
    OBVIOUS
  <2>1. PlaceOK(a, [stage |-> next, step |-> "enter"])
    BY <1>6 DEF PlaceOK
  <2> QED BY <1>2, <1>3, <2>1, EnterOK
<1> HIDE DEF q
<1>9. LocalsOK(a, goal)
  BY <1>2, <1>8, IdleOK
<1>10. CASE a = "job"
  BY <1>1, <1>7, <1>9, <1>10
<1>11. CASE a = "loop" /\ p.stage = "backfill"
  BY <1>1, <1>5, <1>7, <1>9, <1>11, <1>0 DEF p
<1>12. CASE a = "loop" /\ p.stage # "backfill"
  <2>1. next # "idle"
    BY <1>4, <1>5, <1>12
  <2>2. goal = q
    BY <2>1
  <2>3. proc'[a].alone = alone
    BY <1>7, <1>8, <2>1, <2>2
  <2> QED BY <1>1, <1>4, <1>5, <1>7, <1>8, <1>9, <1>12, <2>1, <2>2, <2>3, <1>0 DEF p
<1> QED BY <1>10, <1>11, <1>12

\* A move within a stage, to a step that keeps nothing but the list.
LEMMA MovedOK ==
  ASSUME NEW a \in Actors, NEW p, LocalsOK(a, p), NEW q, DOMAIN q = Locals,
         q.stage = p.stage, q.day = p.day, q.alone = p.alone, q.rows = p.rows,
         q.todo \subseteq p.todo, q.step = "next", PlaceOK(a, q),
         p.step # "enter" \/ q.todo = {} \/ p.stage # "create"
  PROVE  LocalsOK(a, q)
BY DEF LocalsOK

\* The types of what a step of the loop leaves, when it leaves the turnovers typed.
LEMMA SameTables ==
  ASSUME TypeInv, TurnOK', \A b \in Actors : LocalsOK(b, proc'[b]),
         notice' = notice, report' = report, today' = today, quiet' \in 0..2
  PROVE  TypeInv'
BY DEF TypeInv, TypeOK, TurnOK, Cells, LocalsOK

LEMMA TypeFacts ==
  ASSUME TypeInv
  PROVE  /\ TurnOK /\ report \in Reports /\ report \in [Units -> Snapshots]
         /\ today \in Days /\ quiet \in 0..2 /\ \A a \in Actors : LocalsOK(a, proc[a])
         /\ \A u \in Units : turn[u] \in Cells /\ turn[u].gen \in Nat
BY RowTypes, BoardConstants DEF TypeInv, TypeOK, TurnOK, Cells

\* The load that the loop is at, and the import.
L == proc["loop"]
M == proc["import"]

\* What a step within a stage keeps, and a step that writes no table.
Stays(a) == /\ proc'[a].stage = proc[a].stage /\ proc'[a].day = proc[a].day
            /\ proc'[a].alone = proc[a].alone
OnlyReads == UNCHANGED <<turn, notice, report, today, operated, quiet>>

\* The actor's next locals are typed, and whoever else was at work is not alone.
Moved(a) == Set(a, proc'[a]) /\ LocalsOK(a, proc'[a])

LEMMA MovedTypes ==
  ASSUME TypeInv, NEW a \in Actors, Moved(a), TurnOK', UNCHANGED <<notice, report, today>>, quiet' \in 0..2
  PROVE  TypeInv'
<1>1. \A b \in Actors : LocalsOK(b, proc'[b])
  BY SetTypes, TypeFacts DEF Moved, Actors
<1> QED BY <1>1, SameTables

LEMMA SetIs ==
  ASSUME NEW a \in Actors, NEW q, Set(a, q)
  PROVE  proc'[a] = q /\ Set(a, proc'[a])
BY DEF Set

LEMMA LoadBeginIs ==
  ASSUME TypeInv, LoadBegin
  PROVE  /\ Moved("loop") /\ OnlyReads /\ ~Busy("loop")
         /\ L'.stage = "reconcile" /\ L'.step = "enter" /\ L'.day = today
         /\ L'.alone = ~OthersBusy("loop")
<1> PICK alone \in BOOLEAN : alone = ~OthersBusy("loop")
  OBVIOUS
<1>1. Set("loop", Enter("reconcile", today, alone)) /\ UNCHANGED <<turn, notice, report, today, operated, quiet>>
  BY DEF LoadBegin, Enter
<1> DEFINE q == Enter("reconcile", today, alone)
<1>2. LocalsOK("loop", q)
  <2>1. PlaceOK("loop", [stage |-> "reconcile", step |-> "enter"])
    BY DEF PlaceOK
  <2>2. "loop" \in Actors /\ today \in Days \cup {0}
    BY TypeFacts DEF Actors
  <2> QED BY <2>1, <2>2, EnterOK
<1>3. q.stage = "reconcile" /\ q.step = "enter" /\ q.day = today /\ q.alone = alone
  <2>1. q.stage = "reconcile" /\ q.step = "enter" /\ q.day = today
    BY EnterIs
  <2>2. q.alone = alone
    BY EnterIs
  <2> QED BY <2>1, <2>2
<1>4. ~Busy("loop")
  BY DEF LoadBegin, MayBegin
<1> HIDE DEF q
<1>5. L' = q /\ Set("loop", L')
  BY <1>1, SetIs DEF q, L, Actors
<1> QED BY <1>1, <1>2, <1>3, <1>4, <1>5 DEF Moved, OnlyReads, L, q

\* A step of an actor that leaves everything but its locals, and quiet, alone.
LEMMA OnlyLocals ==
  ASSUME TypeInv, NEW a \in Actors, NEW q, Set(a, q), LocalsOK(a, q), quiet' \in 0..2,
         UNCHANGED <<turn, notice, report, today, operated>>
  PROVE  TypeInv'
<1>1. \A b \in Actors : LocalsOK(b, proc'[b])
  BY SetTypes, TypeFacts
<1>2. TurnOK'
  BY TypeFacts DEF TurnOK
<1> QED BY <1>1, <1>2, SameTables

LEMMA ReadReportIs ==
  ASSUME TypeInv, ReadReport
  PROVE  /\ Moved("loop") /\ OnlyReads /\ Stays("loop")
         /\ L.stage \in {"reconcile", "ensure"} /\ L.step = "enter" /\ L'.step = "next"
         /\ L'.rows = report
         /\ L'.todo = {<<u, 0>> : u \in {v \in Units : report[v] # NoRow}}
<1> DEFINE p == proc["loop"]
           todo == {<<u, 0>> : u \in {v \in Units : report[v] # NoRow}}
           q == [p EXCEPT !.step = "next", !.rows = report, !.todo = todo]
<1>1. Set("loop", q) /\ UNCHANGED <<turn, notice, report, today, operated, quiet>>
        /\ p.stage \in {"reconcile", "ensure"}
  BY DEF ReadReport
<1>2. LocalsOK("loop", p) /\ "loop" \in Actors
  BY TypeFacts DEF Actors
<1>3. todo \subseteq Units \X Nat
  OBVIOUS
<1> HIDE DEF todo
<1>4. /\ DOMAIN q = Locals /\ q.step = "next" /\ q.rows = report /\ q.todo = todo
      /\ q.stage = p.stage /\ q.day = p.day /\ q.alone = p.alone
  BY <1>2 DEF LocalsOK, Locals
<1> HIDE DEF q, p
<1>5. LocalsOK("loop", q)
  <2>1. PlaceOK("loop", q)
    BY <1>1, <1>4 DEF PlaceOK, Writes
  <2> QED BY <1>1, <1>2, <1>3, <1>4, <2>1, TypeFacts DEF LocalsOK
<1>6. L' = q /\ Set("loop", L') /\ L = p
  BY <1>1, <1>2, SetIs DEF p, L
<1>7. p.step = "enter"
  BY DEF ReadReport, p
<1> QED BY <1>1, <1>4, <1>5, <1>6, <1>7 DEF Moved, OnlyReads, Stays, L, todo

\* A step of a takes x off its list.
Took(a, x) ==
  x \in proc[a].todo /\ x[1] \in Units /\ x[2] \in Nat /\ x = <<x[1], x[2]>>
    /\ proc'[a].todo = proc[a].todo \ {x}

LEMMA ReconcileReadIs ==
  ASSUME TypeInv, ReconcileRead
  PROVE  /\ Moved("loop") /\ OnlyReads /\ Stays("loop") /\ L'.rows = L.rows
         /\ L.stage = "reconcile" /\ L.step = "next"
         /\ \E x \in L.todo :
              /\ Took("loop", x)
              /\ LET fields == ReportFields(turn[x[1]], L.rows[x[1]])
                 IN  \/ /\ ~turn[x[1]].open \/ fields = NoFields
                        /\ L'.step = "next"
                     \/ /\ turn[x[1]].open /\ fields # NoFields
                        /\ L'.step = "write" /\ L'.target = <<x[1], turn[x[1]].gen>>
                        /\ L'.fields = fields
<1> DEFINE p == proc["loop"]
<1> PICK x \in p.todo :
       LET u == x[1]
           fields == ReportFields(turn[u], p.rows[u])
           rest == [p EXCEPT !.todo = @ \ {x}]
       IN  Set("loop", IF turn[u].open /\ fields # NoFields
                       THEN [rest EXCEPT !.step = "write", !.target = <<u, turn[u].gen>>,
                                         !.fields = fields]
                       ELSE rest)
  BY DEF ReconcileRead
<1> DEFINE u == x[1]
           fields == ReportFields(turn[u], p.rows[u])
           rest == [p EXCEPT !.todo = p.todo \ {x}]
           target == <<u, turn[u].gen>>
           q == [rest EXCEPT !.step = "write", !.target = target, !.fields = fields]
           goal == IF turn[u].open /\ fields # NoFields THEN q ELSE rest
<1>1. /\ p.stage = "reconcile" /\ p.step = "next" /\ Set("loop", goal)
      /\ UNCHANGED <<turn, notice, report, today, operated, quiet>>
  BY DEF ReconcileRead, At
<1>2. LocalsOK("loop", p) /\ "loop" \in Actors /\ u \in Units /\ x[2] \in Nat
        /\ x = <<x[1], x[2]>>
  BY TypeFacts DEF Actors, LocalsOK
<1>3. FieldsOK(fields)
  <2>1. p.rows \in [Units -> Snapshots]
    BY <1>2 DEF LocalsOK
  <2> QED BY <1>2, <2>1, ReportFieldsOK, TypeFacts
<1>4. target \in Units \X Nat
  BY <1>2, TypeFacts
<1> HIDE DEF fields, target, u
<1>5. /\ DOMAIN rest = Locals /\ rest.stage = p.stage /\ rest.step = p.step /\ rest.day = p.day
      /\ rest.rows = p.rows /\ rest.alone = p.alone /\ rest.todo = p.todo \ {x}
  BY <1>2 DEF LocalsOK, Locals
<1> HIDE DEF rest
<1>6. /\ DOMAIN q = Locals /\ q.stage = p.stage /\ q.step = "write" /\ q.day = p.day
      /\ q.rows = p.rows /\ q.alone = p.alone /\ q.todo = p.todo \ {x}
      /\ q.target = target /\ q.fields = fields
  BY <1>5 DEF Locals
<1> HIDE DEF q, p
<1>7. LocalsOK("loop", rest)
  <2>1. PlaceOK("loop", rest)
    BY <1>1, <1>5 DEF PlaceOK
  <2> QED BY <1>1, <1>2, <1>5, <2>1, MovedOK
<1>8. LocalsOK("loop", q)
  <2>1. PlaceOK("loop", q)
    BY <1>1, <1>6 DEF PlaceOK
  <2> QED BY <1>1, <1>2, <1>3, <1>4, <1>6, <2>1 DEF LocalsOK
<1>9. LocalsOK("loop", goal)
  BY <1>7, <1>8
<1>10. L' = goal /\ Set("loop", L') /\ L = p
  <2> HIDE DEF goal
  <2> QED BY <1>1, <1>2, SetIs DEF p, L
<1>11. Took("loop", x)
  BY <1>2, <1>5, <1>6, <1>10 DEF Took, u, L
<1>12. Moved("loop") /\ OnlyReads /\ Stays("loop") /\ L'.rows = L.rows
  BY <1>1, <1>5, <1>6, <1>9, <1>10 DEF Moved, OnlyReads, Stays, L
<1>13. CASE turn[u].open /\ fields # NoFields
  BY <1>1, <1>6, <1>10, <1>11, <1>12, <1>13 DEF u, fields, target
<1>14. CASE ~(turn[u].open /\ fields # NoFields)
  BY <1>1, <1>5, <1>10, <1>11, <1>12, <1>14 DEF u, fields
<1> QED BY <1>13, <1>14

LEMMA ReconcileWriteIs ==
  ASSUME TypeInv, ReconcileWrite
  PROVE  /\ L.stage = "reconcile" /\ L.step = "write" /\ L.target[1] \in Units /\ FieldsOK(L.fields)
         /\ UNCHANGED <<notice, report, today>>
         /\ \/ /\ Applies(L.target[1], L.target[2]) /\ Write(L.target[1], L.fields)
               /\ Moved("loop") /\ Stays("loop") /\ L'.rows = L.rows /\ L'.todo = L.todo
               /\ L'.step = "next" /\ quiet' = quiet
            \/ /\ ~Applies(L.target[1], L.target[2]) /\ NextStage("loop", FALSE)
               /\ UNCHANGED <<turn, operated>>
<1> DEFINE p == proc["loop"]
           u == p.target[1]
           q == [p EXCEPT !.step = "next", !.target = <<>>, !.fields = NoFields]
<1>1. /\ p.stage = "reconcile" /\ p.step = "write" /\ UNCHANGED <<notice, report, today>>
      /\ IF Applies(u, p.target[2])
           THEN Write(u, p.fields) /\ UNCHANGED quiet /\ Set("loop", q)
           ELSE NextStage("loop", FALSE) /\ UNCHANGED <<turn, operated>>
  BY DEF ReconcileWrite, At
<1>2. LocalsOK("loop", p) /\ "loop" \in Actors
  BY TypeFacts DEF Actors
<1>3. u \in Units /\ FieldsOK(p.fields)
  BY <1>1, <1>2 DEF LocalsOK
<1>4. /\ DOMAIN q = Locals /\ q.stage = p.stage /\ q.step = "next" /\ q.day = p.day
      /\ q.rows = p.rows /\ q.alone = p.alone /\ q.todo = p.todo
  BY <1>2 DEF LocalsOK, Locals
<1> HIDE DEF q
<1>5. LocalsOK("loop", q)
  <2> HIDE DEF p
  <2>1. PlaceOK("loop", q)
    BY <1>1, <1>4 DEF PlaceOK, Writes
  <2> QED BY <1>1, <1>2, <1>4, <2>1, MovedOK
<1>6. CASE Applies(u, p.target[2])
  <2>1. Write(u, p.fields) /\ quiet' = quiet /\ Set("loop", q)
    BY <1>1, <1>6
  <2>2. proc'["loop"] = q /\ Set("loop", proc'["loop"])
    BY <1>2, <2>1, SetIs
  <2> QED BY <1>1, <1>3, <1>4, <1>5, <1>6, <2>1, <2>2 DEF Moved, Stays, L
<1>7. CASE ~Applies(u, p.target[2])
  BY <1>1, <1>3, <1>7 DEF L
<1> QED BY <1>6, <1>7

LEMMA EnsureLookIs ==
  ASSUME TypeInv, EnsureLook
  PROVE  /\ Moved("loop") /\ OnlyReads /\ Stays("loop") /\ L'.rows = L.rows
         /\ L.stage = "ensure" /\ L.step = "next"
         /\ \E x \in L.todo :
              /\ Took("loop", x)
              /\ LET row == L.rows[x[1]]
                     due == StatusIsOnNotice(row.status) /\ Arrived(row, L.day)
                 IN  \/ /\ ~due \/ turn[x[1]].open
                        /\ L'.step = "next"
                     \/ /\ due /\ ~turn[x[1]].open
                        /\ L'.step = "create" /\ L'.target = <<x[1], 0>>
<1> DEFINE p == proc["loop"]
<1> PICK x \in p.todo :
       LET row == p.rows[x[1]]
           due == StatusIsOnNotice(row.status) /\ Arrived(row, p.day)
           rest == [p EXCEPT !.todo = @ \ {x}]
       IN  Set("loop", IF due /\ ~turn[x[1]].open
                       THEN [rest EXCEPT !.step = "create", !.target = <<x[1], 0>>,
                                         !.fields = ArrivedFields(row)]
                       ELSE rest)
  BY DEF EnsureLook
<1> DEFINE u == x[1]
           row == p.rows[u]
           due == StatusIsOnNotice(row.status) /\ Arrived(row, p.day)
           fields == ArrivedFields(row)
           rest == [p EXCEPT !.todo = p.todo \ {x}]
           target == <<u, 0>>
           q == [rest EXCEPT !.step = "create", !.target = target, !.fields = fields]
           goal == IF due /\ ~turn[u].open THEN q ELSE rest
<1>1. /\ p.stage = "ensure" /\ p.step = "next" /\ Set("loop", goal)
      /\ UNCHANGED <<turn, notice, report, today, operated, quiet>>
  BY DEF EnsureLook, At
<1>2. LocalsOK("loop", p) /\ "loop" \in Actors /\ u \in Units /\ x[2] \in Nat
        /\ x = <<x[1], x[2]>>
  BY TypeFacts DEF Actors, LocalsOK
<1>3. row \in Snapshots /\ target \in Units \X Nat
  BY <1>2 DEF LocalsOK
<1>4. due => row.available \in Nat
  BY <1>3 DEF Arrived, Snapshots
<1>5. due => FieldsOK(fields) /\ "override" \notin DOMAIN fields /\ fields.available \in Nat
  BY <1>3, <1>4, ArrivedFieldsOK
<1> HIDE DEF fields, target, u, due
<1>6. /\ DOMAIN rest = Locals /\ rest.stage = p.stage /\ rest.step = p.step /\ rest.day = p.day
      /\ rest.rows = p.rows /\ rest.alone = p.alone /\ rest.todo = p.todo \ {x}
  BY <1>2 DEF LocalsOK, Locals
<1> HIDE DEF rest
<1>7. /\ DOMAIN q = Locals /\ q.stage = p.stage /\ q.step = "create" /\ q.day = p.day
      /\ q.rows = p.rows /\ q.alone = p.alone /\ q.todo = p.todo \ {x}
      /\ q.target = target /\ q.fields = fields
  BY <1>6 DEF Locals
<1> HIDE DEF q, p
<1>8. LocalsOK("loop", rest)
  <2>1. PlaceOK("loop", rest)
    BY <1>1, <1>6 DEF PlaceOK, Writes
  <2> QED BY <1>1, <1>2, <1>6, <2>1, MovedOK
<1>9. due => LocalsOK("loop", q)
  <2>1. PlaceOK("loop", q)
    BY <1>1, <1>7 DEF PlaceOK, Writes
  <2> QED BY <1>1, <1>2, <1>3, <1>5, <1>7, <2>1 DEF LocalsOK
<1>10. LocalsOK("loop", goal)
  BY <1>8, <1>9
<1>11. L' = goal /\ Set("loop", L') /\ L = p
  <2> HIDE DEF goal
  <2> QED BY <1>1, <1>2, SetIs DEF p, L
<1>12. Took("loop", x)
  BY <1>2, <1>6, <1>7, <1>11 DEF Took, u, L
<1>13. Moved("loop") /\ OnlyReads /\ Stays("loop") /\ L'.rows = L.rows
  BY <1>1, <1>6, <1>7, <1>10, <1>11 DEF Moved, OnlyReads, Stays, L
<1>14. CASE due /\ ~turn[u].open
  BY <1>1, <1>7, <1>11, <1>12, <1>13, <1>14 DEF u, due, target
<1>15. CASE ~(due /\ ~turn[u].open)
  BY <1>1, <1>6, <1>11, <1>12, <1>13, <1>15 DEF u, due
<1> QED BY <1>14, <1>15

LEMMA CreateDueIs ==
  ASSUME TypeInv, NEW a \in {"loop", "job"}, CreateDue(a)
  PROVE  /\ Moved(a) /\ Stays(a) /\ proc'[a].rows = proc[a].rows /\ proc'[a].todo = proc[a].todo
         /\ proc[a].step = "create" /\ proc[a].target[1] \in Units
         /\ UNCHANGED <<notice, report, today>> /\ quiet' = (IF a = "loop" THEN quiet ELSE 0)
         /\ \/ /\ turn[proc[a].target[1]].open /\ UNCHANGED <<turn, operated>>
               /\ proc'[a].step = "next"
            \/ /\ proc[a].fields.available \in Nat
               /\ Create(proc[a].target[1], proc[a].fields.available)
               /\ proc'[a].step = "update"
               /\ proc'[a].target = <<proc[a].target[1], turn[proc[a].target[1]].gen + 1>>
<1> DEFINE p == proc[a]
           u == p.target[1]
           target == <<u, turn[u].gen + 1>>
           q1 == [p EXCEPT !.step = "next", !.target = <<>>, !.fields = NoFields]
           q2 == [p EXCEPT !.step = "update", !.target = target]
<1>1. /\ p.step = "create" /\ UNCHANGED <<notice, report, today>>
      /\ quiet' = (IF a = "loop" THEN quiet ELSE 0)
      /\ IF turn[u].open THEN UNCHANGED <<turn, operated>> /\ Set(a, q1)
         ELSE Create(u, p.fields.available) /\ Set(a, q2)
  BY DEF CreateDue, Noise
<1>2. LocalsOK(a, p) /\ a \in Actors
  BY TypeFacts DEF Actors
<1>3. u \in Units /\ FieldsOK(p.fields) /\ p.fields.available \in Nat
        /\ "override" \notin DOMAIN p.fields
  BY <1>1, <1>2 DEF LocalsOK
<1>4. target \in Units \X Nat
  BY <1>3, TypeFacts
<1>5. /\ DOMAIN q1 = Locals /\ q1.stage = p.stage /\ q1.step = "next" /\ q1.day = p.day
      /\ q1.rows = p.rows /\ q1.alone = p.alone /\ q1.todo = p.todo
  BY <1>2 DEF LocalsOK, Locals
<1> HIDE DEF target
<1>6. /\ DOMAIN q2 = Locals /\ q2.stage = p.stage /\ q2.step = "update" /\ q2.day = p.day
      /\ q2.rows = p.rows /\ q2.alone = p.alone /\ q2.todo = p.todo
      /\ q2.target = target /\ q2.fields = p.fields
  BY <1>2 DEF LocalsOK, Locals
<1> HIDE DEF q1, q2
<1>7. LocalsOK(a, q1) /\ LocalsOK(a, q2)
  <2> HIDE DEF p
  <2>1. PlaceOK(a, q1) /\ PlaceOK(a, q2)
    BY <1>1, <1>2, <1>5, <1>6 DEF LocalsOK, PlaceOK, Writes
  <2>2. LocalsOK(a, q1)
    BY <1>1, <1>2, <1>5, <2>1, MovedOK
  <2>3. LocalsOK(a, q2)
    BY <1>1, <1>2, <1>3, <1>4, <1>6, <2>1 DEF LocalsOK
  <2> QED BY <2>2, <2>3
<1>8. CASE turn[u].open
  <2>1. UNCHANGED <<turn, operated>> /\ Set(a, q1)
    BY <1>1, <1>8
  <2>2. proc'[a] = q1 /\ Set(a, proc'[a])
    BY <1>2, <2>1, SetIs
  <2> QED BY <1>1, <1>3, <1>5, <1>7, <1>8, <2>1, <2>2 DEF Moved, Stays
<1>9. CASE ~turn[u].open
  <2>1. Create(u, p.fields.available) /\ Set(a, q2)
    BY <1>1, <1>9
  <2>2. proc'[a] = q2 /\ Set(a, proc'[a])
    BY <1>2, <2>1, SetIs
  <2> QED BY <1>1, <1>3, <1>6, <1>7, <2>1, <2>2 DEF Moved, Stays, target
<1> QED BY <1>8, <1>9

LEMMA UpdateDueIs ==
  ASSUME TypeInv, NEW a \in {"loop", "job"}, UpdateDue(a)
  PROVE  /\ Moved(a) /\ Stays(a) /\ proc'[a].rows = proc[a].rows /\ proc'[a].todo = proc[a].todo
         /\ proc[a].step = "update" /\ proc[a].target[1] \in Units
         /\ FieldsOK(proc[a].fields) /\ "override" \notin DOMAIN proc[a].fields
         /\ UNCHANGED <<notice, report, today>> /\ quiet' = (IF a = "loop" THEN quiet ELSE 0)
         /\ proc'[a].step \in {"next", "forget"} /\ (a = "loop" => proc'[a].step = "next")
         /\ \/ /\ Applies(proc[a].target[1], proc[a].target[2])
               /\ Write(proc[a].target[1], proc[a].fields)
            \/ UNCHANGED <<turn, operated>>
<1> DEFINE p == proc[a]
           u == p.target[1]
           done == IF a = "job" THEN "forget" ELSE "next"
           kept == IF a = "job" THEN p.target ELSE <<>>
           q1 == [p EXCEPT !.step = done, !.fields = NoFields, !.target = kept]
           q2 == [p EXCEPT !.step = "next", !.target = <<>>, !.fields = NoFields]
<1>1. /\ p.step = "update" /\ UNCHANGED <<notice, report, today>>
      /\ quiet' = (IF a = "loop" THEN quiet ELSE 0)
      /\ IF Applies(u, p.target[2]) THEN Write(u, p.fields) /\ Set(a, q1)
         ELSE UNCHANGED <<turn, operated>> /\ Set(a, q2)
  BY DEF UpdateDue, Noise
<1>2. LocalsOK(a, p) /\ a \in Actors
  BY TypeFacts DEF Actors
<1>3. u \in Units /\ FieldsOK(p.fields) /\ p.target \in Units \X Nat
        /\ "override" \notin DOMAIN p.fields
  BY <1>1, <1>2 DEF LocalsOK
<1>4. /\ a = "job" => done = "forget" /\ kept = p.target
      /\ a = "loop" => done = "next"
      /\ done \in {"forget", "next"}
  OBVIOUS
<1> HIDE DEF done, kept
<1>5. /\ DOMAIN q1 = Locals /\ q1.stage = p.stage /\ q1.step = done /\ q1.day = p.day
      /\ q1.rows = p.rows /\ q1.alone = p.alone /\ q1.todo = p.todo /\ q1.target = kept
  BY <1>2 DEF LocalsOK, Locals
<1>6. /\ DOMAIN q2 = Locals /\ q2.stage = p.stage /\ q2.step = "next" /\ q2.day = p.day
      /\ q2.rows = p.rows /\ q2.alone = p.alone /\ q2.todo = p.todo
  BY <1>2 DEF LocalsOK, Locals
<1> HIDE DEF q1, q2
<1>7. LocalsOK(a, q1) /\ LocalsOK(a, q2)
  <2> HIDE DEF p
  <2>1. PlaceOK(a, q1) /\ PlaceOK(a, q2)
    BY <1>1, <1>2, <1>4, <1>5, <1>6 DEF LocalsOK, PlaceOK, Writes
  <2>2. LocalsOK(a, q2)
    BY <1>1, <1>2, <1>6, <2>1, MovedOK
  <2>3. LocalsOK(a, q1)
    BY <1>1, <1>2, <1>3, <1>4, <1>5, <2>1 DEF LocalsOK
  <2> QED BY <2>2, <2>3
<1>8. CASE Applies(u, p.target[2])
  <2>1. Write(u, p.fields) /\ Set(a, q1)
    BY <1>1, <1>8
  <2>2. proc'[a] = q1 /\ Set(a, proc'[a])
    BY <1>2, <2>1, SetIs
  <2> QED BY <1>1, <1>3, <1>4, <1>5, <1>7, <1>8, <2>1, <2>2 DEF Moved, Stays
<1>9. CASE ~Applies(u, p.target[2])
  <2>1. UNCHANGED <<turn, operated>> /\ Set(a, q2)
    BY <1>1, <1>9
  <2>2. proc'[a] = q2 /\ Set(a, proc'[a])
    BY <1>2, <2>1, SetIs
  <2> QED BY <1>1, <1>3, <1>6, <1>7, <2>1, <2>2 DEF Moved, Stays
<1> QED BY <1>8, <1>9

\* What the transition reads, and each turnover of its list.
LEMMA TransitionReadIs ==
  ASSUME TypeInv, NEW a \in {"loop", "job"}, TransitionRead(a)
  PROVE  /\ Moved(a) /\ OnlyReads /\ Stays(a)
         /\ proc[a].stage = "transition" /\ proc[a].step = "enter" /\ proc'[a].step = "next"
         /\ proc'[a].todo = {<<u, turn[u].gen>> : u \in {v \in Units : MovesOn(turn[v], proc[a].day)}}
<1> DEFINE p == proc[a]
           todo == {<<u, turn[u].gen>> : u \in {v \in Units : MovesOn(turn[v], p.day)}}
           q == [p EXCEPT !.step = "next", !.todo = todo]
<1>1. /\ p.stage = "transition" /\ p.step = "enter" /\ Set(a, q)
      /\ UNCHANGED <<turn, notice, report, today, operated, quiet>>
  BY DEF TransitionRead, At
<1>2. LocalsOK(a, p) /\ a \in Actors
  BY TypeFacts DEF Actors
<1>3. todo \subseteq Units \X Nat
  BY TypeFacts
<1> HIDE DEF todo
<1>4. /\ DOMAIN q = Locals /\ q.stage = p.stage /\ q.step = "next" /\ q.day = p.day
      /\ q.rows = p.rows /\ q.alone = p.alone /\ q.todo = todo
  BY <1>2 DEF LocalsOK, Locals
<1> HIDE DEF q
<1>5. LocalsOK(a, q)
  <2> HIDE DEF p
  <2>1. PlaceOK(a, q)
    BY <1>1, <1>2, <1>4 DEF LocalsOK, PlaceOK
  <2> QED BY <1>1, <1>2, <1>3, <1>4, <2>1 DEF LocalsOK
<1>6. proc'[a] = q /\ Set(a, proc'[a])
  BY <1>1, <1>2, SetIs
<1> QED BY <1>1, <1>4, <1>5, <1>6 DEF Moved, Stays, OnlyReads, todo

LEMMA TransitionWriteIs ==
  ASSUME TypeInv, NEW a \in {"loop", "job"}, TransitionWrite(a)
  PROVE  /\ Moved(a) /\ Stays(a) /\ proc[a].stage = "transition" /\ proc[a].step = "next"
         /\ proc'[a].step = "next"
         /\ UNCHANGED <<notice, report, today>> /\ quiet' = (IF a = "loop" THEN quiet ELSE 0)
         /\ \E x \in proc[a].todo :
              /\ Took(a, x)
              /\ \/ Applies(x[1], x[2]) /\ Write(x[1], TransitionFields)
                 \/ ~Applies(x[1], x[2]) /\ UNCHANGED <<turn, operated>>
<1> DEFINE p == proc[a]
<1> PICK x \in p.todo :
       /\ IF Applies(x[1], x[2]) THEN Write(x[1], TransitionFields)
          ELSE UNCHANGED <<turn, operated>>
       /\ Set(a, [p EXCEPT !.todo = @ \ {x}])
  BY DEF TransitionWrite
<1> DEFINE q == [p EXCEPT !.todo = p.todo \ {x}]
<1>1. /\ p.stage = "transition" /\ p.step = "next" /\ Set(a, q)
      /\ UNCHANGED <<notice, report, today>> /\ quiet' = (IF a = "loop" THEN quiet ELSE 0)
      /\ \/ Applies(x[1], x[2]) /\ Write(x[1], TransitionFields)
         \/ ~Applies(x[1], x[2]) /\ UNCHANGED <<turn, operated>>
  BY DEF TransitionWrite, At, Noise
<1>2. LocalsOK(a, p) /\ a \in Actors /\ x[1] \in Units /\ x[2] \in Nat /\ x = <<x[1], x[2]>>
  BY TypeFacts DEF Actors, LocalsOK
<1>3. /\ DOMAIN q = Locals /\ q.stage = p.stage /\ q.step = p.step /\ q.day = p.day
      /\ q.rows = p.rows /\ q.alone = p.alone /\ q.todo = p.todo \ {x}
  BY <1>2 DEF LocalsOK, Locals
<1> HIDE DEF q
<1>4. LocalsOK(a, q)
  <2> HIDE DEF p
  <2>1. PlaceOK(a, q)
    BY <1>1, <1>2, <1>3 DEF LocalsOK, PlaceOK
  <2> QED BY <1>1, <1>2, <1>3, <2>1, MovedOK
<1>5. proc'[a] = q /\ Set(a, proc'[a])
  BY <1>1, <1>2, SetIs
<1>6. Took(a, x)
  BY <1>2, <1>3, <1>5 DEF Took
<1> QED BY <1>1, <1>3, <1>4, <1>5, <1>6 DEF Moved, Stays

LEMMA BackfillReadIs ==
  ASSUME TypeInv, BackfillRead
  PROVE  /\ Moved("loop") /\ OnlyReads /\ Stays("loop")
         /\ L.stage = "backfill" /\ L.step = "enter" /\ L'.step = "next"
         /\ L'.todo = {<<u, turn[u].gen>> : u \in {v \in Units : turn[v].open /\ turn[v].ready = None}}
<1> DEFINE p == proc["loop"]
           todo == {<<u, turn[u].gen>> : u \in {v \in Units : turn[v].open /\ turn[v].ready = None}}
           q == [p EXCEPT !.step = "next", !.todo = todo]
<1>1. /\ p.stage = "backfill" /\ p.step = "enter" /\ Set("loop", q)
      /\ UNCHANGED <<turn, notice, report, today, operated, quiet>>
  BY DEF BackfillRead, At
<1>2. LocalsOK("loop", p) /\ "loop" \in Actors
  BY TypeFacts DEF Actors
<1>3. todo \subseteq Units \X Nat
  BY TypeFacts
<1> HIDE DEF todo
<1>4. /\ DOMAIN q = Locals /\ q.stage = p.stage /\ q.step = "next" /\ q.day = p.day
      /\ q.rows = p.rows /\ q.alone = p.alone /\ q.todo = todo
  BY <1>2 DEF LocalsOK, Locals
<1> HIDE DEF q
<1>5. LocalsOK("loop", q)
  <2> HIDE DEF p
  <2>1. PlaceOK("loop", q)
    BY <1>1, <1>4 DEF PlaceOK
  <2> QED BY <1>1, <1>2, <1>3, <1>4, <2>1 DEF LocalsOK
<1>6. L' = q /\ Set("loop", L')
  BY <1>1, <1>2, SetIs DEF L
<1> QED BY <1>1, <1>4, <1>5, <1>6 DEF Moved, Stays, OnlyReads, todo, L

LEMMA BackfillWriteIs ==
  ASSUME TypeInv, BackfillWrite
  PROVE  /\ Moved("loop") /\ Stays("loop") /\ L.stage = "backfill" /\ L.step = "next"
         /\ L'.step = "next" /\ UNCHANGED <<notice, report, today, quiet>>
         /\ \E x \in L.todo :
              /\ Took("loop", x)
              /\ \/ Applies(x[1], x[2]) /\ Write(x[1], [ready |-> "placeholder"])
                 \/ ~Applies(x[1], x[2]) /\ UNCHANGED <<turn, operated>>
<1> DEFINE p == proc["loop"]
<1> PICK x \in p.todo :
       /\ IF Applies(x[1], x[2]) THEN Write(x[1], [ready |-> "placeholder"])
          ELSE UNCHANGED <<turn, operated>>
       /\ Set("loop", [p EXCEPT !.todo = @ \ {x}])
  BY DEF BackfillWrite
<1> DEFINE q == [p EXCEPT !.todo = p.todo \ {x}]
<1>1. /\ p.stage = "backfill" /\ p.step = "next" /\ Set("loop", q)
      /\ UNCHANGED <<notice, report, today, quiet>>
      /\ \/ Applies(x[1], x[2]) /\ Write(x[1], [ready |-> "placeholder"])
         \/ ~Applies(x[1], x[2]) /\ UNCHANGED <<turn, operated>>
  BY DEF BackfillWrite, At
<1>2. LocalsOK("loop", p) /\ "loop" \in Actors /\ x[1] \in Units /\ x[2] \in Nat
        /\ x = <<x[1], x[2]>>
  BY TypeFacts DEF Actors, LocalsOK
<1>3. /\ DOMAIN q = Locals /\ q.stage = p.stage /\ q.step = p.step /\ q.day = p.day
      /\ q.rows = p.rows /\ q.alone = p.alone /\ q.todo = p.todo \ {x}
  BY <1>2 DEF LocalsOK, Locals
<1> HIDE DEF q
<1>4. LocalsOK("loop", q)
  <2> HIDE DEF p
  <2>1. PlaceOK("loop", q)
    BY <1>1, <1>3 DEF PlaceOK
  <2> QED BY <1>1, <1>2, <1>3, <2>1, MovedOK
<1>5. L' = q /\ Set("loop", L')
  BY <1>1, <1>2, SetIs DEF L
<1>6. Took("loop", x)
  BY <1>2, <1>3, <1>5 DEF Took, L
<1> QED BY <1>1, <1>3, <1>4, <1>5, <1>6 DEF Moved, Stays, L

NoticesOK == notice \in [Units -> [available : Nat \cup {NoDate}, ready : BOOLEAN]]

LEMMA JobBeginIs ==
  ASSUME TypeInv, JobBegin
  PROVE  Moved("job") /\ OnlyReads
<1> DEFINE p == Idle
           q == [p EXCEPT !.stage = "transition", !.step = "enter", !.day = today]
<1>1. Set("job", q) /\ UNCHANGED <<turn, notice, report, today, operated, quiet>>
  BY DEF JobBegin
<1>2. LocalsOK("job", p) /\ "job" \in Actors /\ today \in Days /\ p.todo = {}
  BY IdleOK, TypeFacts DEF Actors, Idle
<1> HIDE DEF p
<1>3. /\ DOMAIN q = Locals /\ q.stage = "transition" /\ q.step = "enter" /\ q.day = today
      /\ q.rows = p.rows /\ q.alone = p.alone /\ q.todo = p.todo
  BY <1>2 DEF LocalsOK, Locals
<1> HIDE DEF q
<1>4. PlaceOK("job", q)
  BY <1>3 DEF PlaceOK
<1>5. LocalsOK("job", q)
  BY <1>2, <1>3, <1>4 DEF LocalsOK
<1>6. proc'["job"] = q /\ Set("job", proc'["job"])
  BY <1>1, <1>2, SetIs
<1> QED BY <1>1, <1>5, <1>6 DEF Moved, OnlyReads

LEMMA JobReadIs ==
  ASSUME TypeInv, JobRead
  PROVE  Moved("job") /\ OnlyReads
<1> DEFINE p == proc["job"]
           todo == {<<u, 0>> : u \in {v \in Units : Eligible(notice[v], p.day)}}
           seen == [u \in Units |-> [status |-> None, available |-> notice[u].available,
                                     ready |-> notice[u].ready]]
           alone == ~OthersBusy("job")
           q == [p EXCEPT !.step = "next", !.alone = alone, !.todo = todo, !.rows = seen]
<1>1. /\ p.stage = "create" /\ p.step = "enter" /\ Set("job", q)
      /\ UNCHANGED <<turn, notice, report, today, operated, quiet>>
  BY DEF JobRead, At
<1>2. LocalsOK("job", p) /\ "job" \in Actors /\ NoticesOK
  BY TypeFacts DEF Actors, TypeInv, TypeOK, NoticesOK
<1>3. seen \in [Units -> Snapshots] /\ todo \subseteq Units \X Nat
  BY <1>2 DEF NoticesOK, Snapshots
<1>4. \A x \in todo : seen[x[1]].available \in Nat
  <2> TAKE x \in todo
  <2>1. PICK u \in Units : Eligible(notice[u], p.day) /\ x = <<u, 0>>
    OBVIOUS
  <2>2. notice[u].available \in Nat
    BY <1>2, <2>1 DEF NoticesOK, Eligible, Arrived
  <2> QED BY <2>1, <2>2
<1> HIDE DEF seen, todo, alone
<1>5. /\ DOMAIN q = Locals /\ q.stage = p.stage /\ q.step = "next" /\ q.day = p.day
      /\ q.rows = seen /\ q.alone = alone /\ q.todo = todo
  BY <1>2 DEF LocalsOK, Locals
<1> HIDE DEF q, p
<1>6. PlaceOK("job", q)
  BY <1>1, <1>5 DEF PlaceOK, Writes
<1>7. LocalsOK("job", q)
  BY <1>1, <1>2, <1>3, <1>4, <1>5, <1>6 DEF LocalsOK, alone
<1>8. proc'["job"] = q /\ Set("job", proc'["job"])
  BY <1>1, <1>2, SetIs
<1> QED BY <1>1, <1>7, <1>8 DEF Moved, OnlyReads

LEMMA JobLookIs ==
  ASSUME TypeInv, JobLook
  PROVE  Moved("job") /\ OnlyReads
<1> DEFINE p == proc["job"]
<1> PICK x \in p.todo :
       LET rest == [p EXCEPT !.todo = @ \ {x}]
       IN  Set("job", IF turn[x[1]].open THEN rest
                      ELSE [rest EXCEPT !.step = "create", !.target = <<x[1], 0>>,
                                        !.fields = ArrivedFields(p.rows[x[1]])])
  BY DEF JobLook
<1> DEFINE u == x[1]
           fields == ArrivedFields(p.rows[u])
           rest == [p EXCEPT !.todo = p.todo \ {x}]
           target == <<u, 0>>
           q == [rest EXCEPT !.step = "create", !.target = target, !.fields = fields]
           goal == IF turn[u].open THEN rest ELSE q
<1>1. /\ p.stage = "create" /\ p.step = "next" /\ Set("job", goal)
      /\ UNCHANGED <<turn, notice, report, today, operated, quiet>>
  BY DEF JobLook, At
<1>2. LocalsOK("job", p) /\ "job" \in Actors /\ u \in Units
  BY TypeFacts DEF Actors, LocalsOK
<1>3. p.rows[u] \in Snapshots /\ p.rows[u].available \in Nat /\ target \in Units \X Nat
  BY <1>1, <1>2 DEF LocalsOK
<1>4. FieldsOK(fields) /\ "override" \notin DOMAIN fields /\ fields.available \in Nat
  BY <1>3, ArrivedFieldsOK
<1> HIDE DEF fields, target, u
<1>5. /\ DOMAIN rest = Locals /\ rest.stage = p.stage /\ rest.step = p.step /\ rest.day = p.day
      /\ rest.rows = p.rows /\ rest.alone = p.alone /\ rest.todo = p.todo \ {x}
  BY <1>2 DEF LocalsOK, Locals
<1> HIDE DEF rest
<1>6. /\ DOMAIN q = Locals /\ q.stage = p.stage /\ q.step = "create" /\ q.day = p.day
      /\ q.rows = p.rows /\ q.alone = p.alone /\ q.todo = p.todo \ {x}
      /\ q.target = target /\ q.fields = fields
  BY <1>5 DEF Locals
<1> HIDE DEF q, p
<1>7. LocalsOK("job", rest)
  <2>1. PlaceOK("job", rest)
    BY <1>1, <1>5 DEF PlaceOK, Writes
  <2> QED BY <1>1, <1>2, <1>5, <2>1, MovedOK
<1>8. LocalsOK("job", q)
  <2>1. PlaceOK("job", q)
    BY <1>1, <1>6 DEF PlaceOK, Writes
  <2> QED BY <1>1, <1>2, <1>3, <1>4, <1>6, <2>1 DEF LocalsOK
<1>9. LocalsOK("job", goal)
  BY <1>7, <1>8
<1> HIDE DEF goal
<1>10. proc'["job"] = goal /\ Set("job", proc'["job"])
  BY <1>1, <1>2, SetIs
<1> QED BY <1>1, <1>9, <1>10 DEF Moved, OnlyReads

LEMMA JobForgetIs ==
  ASSUME TypeInv, JobForget
  PROVE  Moved("job") /\ NoticesOK' /\ UNCHANGED <<turn, report, today, operated>> /\ quiet' = 0
<1> DEFINE p == proc["job"]
           q == [p EXCEPT !.step = "next", !.target = <<>>]
<1>1. /\ p.stage = "create" /\ p.step = "forget" /\ Set("job", q)
      /\ notice' = [notice EXCEPT ![p.target[1]] = NoNotice]
      /\ UNCHANGED <<turn, report, today, operated>> /\ quiet' = 0
  BY DEF JobForget, At, Noise
<1>2. LocalsOK("job", p) /\ "job" \in Actors /\ NoticesOK
  BY TypeFacts DEF Actors, TypeInv, TypeOK, NoticesOK
<1>3. NoNotice \in [available : Nat \cup {NoDate}, ready : BOOLEAN]
  BY DEF NoNotice, NoDate
<1>4. NoticesOK'
  BY <1>1, <1>2, <1>3 DEF NoticesOK
<1>5. /\ DOMAIN q = Locals /\ q.stage = p.stage /\ q.step = "next" /\ q.day = p.day
      /\ q.rows = p.rows /\ q.alone = p.alone /\ q.todo = p.todo
  BY <1>2 DEF LocalsOK, Locals
<1> HIDE DEF q, p
<1>6. PlaceOK("job", q)
  BY <1>1, <1>5 DEF PlaceOK, Writes
<1>7. LocalsOK("job", q)
  BY <1>1, <1>2, <1>5, <1>6, MovedOK
<1>8. proc'["job"] = q /\ Set("job", proc'["job"])
  BY <1>1, <1>2, SetIs
<1> QED BY <1>1, <1>4, <1>7, <1>8 DEF Moved

\* What an import decides for a unit, on the turnover it has read.
Decision(file, u) ==
  IF ~turn[u].open THEN NoFields
  ELSE IF file[u] = NoRow THEN LeftFields(turn[u]) ELSE ReportFields(turn[u], file[u])

LEMMA DecisionOK ==
  ASSUME TypeInv, NEW file \in Reports, NEW u \in Units
  PROVE  /\ FieldsOK(Decision(file, u))
         /\ turn[u].open /\ "status" \in DOMAIN Decision(file, u) => ~turn[u].override
<1>1. turn[u] \in Cells /\ file[u] \in Snapshots
  BY TypeFacts, RowTypes
<1>2. CASE ~turn[u].open
  BY <1>2, FixedFields DEF Decision
<1>3. CASE turn[u].open /\ file[u] = NoRow
  BY <1>1, <1>3, LeftFieldsOK DEF Decision
<1>4. CASE turn[u].open /\ file[u] # NoRow
  BY <1>1, <1>4, ReportFieldsOK DEF Decision
<1> QED BY <1>2, <1>3, <1>4

LEMMA ImportReadIs ==
  ASSUME TypeInv, ImportRead
  PROVE  /\ Moved("import") /\ OnlyReads /\ ~Busy("import")
         /\ M'.step = "look" /\ M'.alone = ~OthersBusy("import")
         /\ \A u \in Units : M'.fields[u] = Decision(M'.rows, u)
<1> PICK file \in Reports :
       Set("import",
         [Idle EXCEPT !.stage = "import", !.step = "look", !.rows = file,
                      !.alone = ~OthersBusy("import"),
                      !.todo = {<<u, turn[u].gen>> : u \in {v \in Units : turn[v].open}},
                      !.fields = [u \in Units |->
                        IF ~turn[u].open THEN NoFields
                        ELSE IF file[u] = NoRow THEN LeftFields(turn[u])
                        ELSE ReportFields(turn[u], file[u])]])
  BY DEF ImportRead
<1> DEFINE p == Idle
           alone == ~OthersBusy("import")
           todo == {<<u, turn[u].gen>> : u \in {v \in Units : turn[v].open}}
           fields == [u \in Units |-> Decision(file, u)]
           q == [p EXCEPT !.stage = "import", !.step = "look", !.rows = file, !.alone = alone,
                          !.todo = todo, !.fields = fields]
<1>1. /\ Set("import", q) /\ UNCHANGED <<turn, notice, report, today, operated, quiet>>
      /\ ~Busy("import")
  BY DEF ImportRead, MayBegin, Decision
<1>2. LocalsOK("import", p) /\ "import" \in Actors /\ file \in [Units -> Snapshots]
  BY IdleOK, RowTypes DEF Actors
<1>3. \A u \in Units : FieldsOK(fields[u])
  BY DecisionOK
<1>4. todo \subseteq Units \X Nat /\ alone \in BOOLEAN
  BY TypeFacts
<1>5. \A u \in Units : fields[u] = Decision(file, u)
  OBVIOUS
<1>6. alone = ~OthersBusy("import")
  OBVIOUS
<1> HIDE DEF p, alone, todo, fields
<1>7. /\ DOMAIN q = Locals /\ q.stage = "import" /\ q.step = "look" /\ q.day = p.day
      /\ q.rows = file /\ q.alone = alone /\ q.todo = todo /\ q.fields = fields
  BY <1>2 DEF LocalsOK, Locals
<1> HIDE DEF q
<1>8. PlaceOK("import", q)
  BY <1>7 DEF PlaceOK
<1>9. LocalsOK("import", q)
  BY <1>2, <1>3, <1>4, <1>7, <1>8 DEF LocalsOK
<1>10. proc'["import"] = q /\ Set("import", proc'["import"])
  BY <1>1, <1>2, SetIs
<1> QED BY <1>1, <1>5, <1>6, <1>7, <1>9, <1>10 DEF Moved, OnlyReads, M

\* An actor that is done.
LEMMA DoneIs ==
  ASSUME NEW a \in Actors, Set(a, Idle)
  PROVE  Moved(a) /\ proc'[a] = Idle
<1>1. proc'[a] = Idle /\ Set(a, proc'[a])
  BY SetIs
<1> QED BY <1>1, IdleOK DEF Moved

LEMMA ImportCreateIs ==
  ASSUME TypeInv, ImportCreate
  PROVE  /\ Moved("import") /\ UNCHANGED <<notice, report, today>> /\ quiet' = 0
         /\ M.step = "look" /\ M'.alone = M.alone
         /\ \E u \in Units :
              \/ /\ M'.step = "look" /\ M'.rows = M.rows /\ M'.fields = M.fields
                 /\ UNCHANGED <<turn, operated>>
              \/ /\ \E d \in Nat : Create(u, d)
                 /\ M'.step = "update" /\ M'.target = <<u, turn[u].gen + 1>>
<1> DEFINE p == proc["import"]
<1> PICK u \in Missing(p) :
           IF turn[u].open
             THEN Set("import", [p EXCEPT !.todo = @ \cup {<<u, 0>>}]) /\ UNCHANGED <<turn, operated>>
             ELSE /\ Create(u, p.rows[u].available)
                  /\ Set("import", [p EXCEPT !.step = "update", !.target = <<u, turn[u].gen + 1>>])
  BY DEF ImportCreate
<1> DEFINE target == <<u, turn[u].gen + 1>>
           todo == p.todo \cup {<<u, 0>>}
           q == [p EXCEPT !.step = "update", !.target = target]
           r == [p EXCEPT !.todo = todo]
<1>1. /\ p.stage = "import" /\ p.step = "look" /\ UNCHANGED <<notice, report, today>> /\ quiet' = 0
      /\ IF turn[u].open THEN Set("import", r) /\ UNCHANGED <<turn, operated>>
         ELSE Create(u, p.rows[u].available) /\ Set("import", q)
  BY DEF ImportCreate, At, Noise
<1>2. LocalsOK("import", p) /\ "import" \in Actors
  BY TypeFacts DEF Actors
<1>3. u \in Units /\ p.rows[u].available \in Nat
  <2>1. u \in Units /\ p.rows[u].available # NoDate
    BY DEF Missing
  <2> QED BY <1>2, <2>1 DEF LocalsOK, Snapshots
<1>4. target \in Units \X Nat /\ todo \subseteq Units \X Nat
  BY <1>2, <1>3, TypeFacts DEF LocalsOK
<1> HIDE DEF target, todo
<1>5. /\ DOMAIN q = Locals /\ q.stage = p.stage /\ q.step = "update" /\ q.day = p.day
      /\ q.rows = p.rows /\ q.alone = p.alone /\ q.todo = p.todo /\ q.target = target
  BY <1>2 DEF LocalsOK, Locals
<1>6. /\ DOMAIN r = Locals /\ r.stage = p.stage /\ r.step = p.step /\ r.day = p.day
      /\ r.rows = p.rows /\ r.alone = p.alone /\ r.todo = todo /\ r.fields = p.fields
  BY <1>2 DEF LocalsOK, Locals
<1> HIDE DEF q, r
<1>7. LocalsOK("import", q) /\ LocalsOK("import", r)
  <2> HIDE DEF p
  <2>1. PlaceOK("import", q) /\ PlaceOK("import", r)
    BY <1>1, <1>5, <1>6 DEF PlaceOK
  <2>2. LocalsOK("import", q)
    BY <1>1, <1>2, <1>4, <1>5, <2>1 DEF LocalsOK
  <2>3. LocalsOK("import", r)
    BY <1>1, <1>2, <1>4, <1>6, <2>1 DEF LocalsOK
  <2> QED BY <2>2, <2>3
<1>8. CASE turn[u].open
  <2>1. Set("import", r) /\ UNCHANGED <<turn, operated>>
    BY <1>1, <1>8
  <2>2. proc'["import"] = r /\ Set("import", proc'["import"])
    BY <1>2, <2>1, SetIs
  <2> QED BY <1>1, <1>3, <1>6, <1>7, <2>1, <2>2 DEF Moved, M
<1>9. CASE ~turn[u].open
  <2>1. Create(u, p.rows[u].available) /\ Set("import", q)
    BY <1>1, <1>9
  <2>2. proc'["import"] = q /\ Set("import", proc'["import"])
    BY <1>2, <2>1, SetIs
  <2> QED BY <1>1, <1>3, <1>5, <1>7, <2>1, <2>2 DEF Moved, M, target
<1> QED BY <1>8, <1>9

LEMMA ImportUpdateIs ==
  ASSUME TypeInv, ImportUpdate
  PROVE  /\ Moved("import") /\ M' = Idle /\ UNCHANGED <<notice, report, today>> /\ quiet' = 0
         /\ M.step = "update" /\ M.target[1] \in Units
         /\ \/ /\ Applies(M.target[1], M.target[2])
               /\ \E f : FieldsOK(f) /\ Write(M.target[1], f)
            \/ UNCHANGED <<turn, operated>>
<1> DEFINE p == proc["import"]
           u == p.target[1]
           fields == ReportFields(NoTurnover, p.rows[u])
<1>1. /\ p.step = "update" /\ UNCHANGED <<notice, report, today>> /\ quiet' = 0
      /\ IF Applies(u, p.target[2]) THEN Write(u, fields) ELSE UNCHANGED <<turn, operated>>
      /\ Set("import", Idle)
  BY DEF ImportUpdate, At, Noise
<1>2. LocalsOK("import", p) /\ "import" \in Actors
  BY TypeFacts DEF Actors
<1>3. u \in Units /\ p.rows[u] \in Snapshots
  BY <1>1, <1>2 DEF LocalsOK
<1>4. FieldsOK(fields)
  BY <1>3, NewCells, ReportFieldsOK
<1> HIDE DEF fields
<1> QED BY <1>1, <1>2, <1>3, <1>4, DoneIs DEF M

LEMMA ImportCommitIs ==
  ASSUME TypeInv, ImportCommit
  PROVE  /\ Moved("import") /\ M' = Idle /\ today' = today /\ quiet' = 0 /\ M.step = "look"
         /\ TurnOK' /\ NoticesOK' /\ report' \in Reports
         /\ \A u \in Units : \/ turn'[u] = turn[u]
                             \/ /\ turn[u].open /\ FieldsOK(M.fields[u])
                                /\ turn'[u] = Over(M.fields[u], turn[u])
<1> DEFINE p == proc["import"]
           writes == {x \in p.todo : p.fields[x[1]] # NoFields}
           written(u) == \E x \in writes : x[1] = u
<1>1. /\ p.step = "look" /\ Set("import", Idle) /\ quiet' = 0 /\ today' = today
  BY DEF ImportCommit, At, Noise
<1>2. LocalsOK("import", p) /\ "import" \in Actors /\ NoticesOK
  BY TypeFacts DEF Actors, TypeInv, TypeOK, NoticesOK
<1>3. \A u \in Units : FieldsOK(p.fields[u])
  BY <1>1, <1>2 DEF LocalsOK
<1>4. Moved("import") /\ M' = Idle
  BY <1>1, <1>2, DoneIs DEF M
<1>5. CASE \A x \in writes : Applies(x[1], x[2])
  <2> DEFINE onNotice(u) == /\ StatusIsOnNotice(p.rows[u].status) /\ p.rows[u].available # NoDate
                            /\ \A x \in p.todo : x[1] # u
  <2>1. /\ turn' = [u \in Units |-> IF written(u) THEN Over(p.fields[u], turn[u]) ELSE turn[u]]
        /\ operated' = [u \in Units |-> operated[u] /\ ~(\E x \in writes :
                          x[1] = u /\ "status" \in DOMAIN p.fields[u])]
        /\ notice' = [u \in Units |-> IF onNotice(u)
                        THEN [available |-> p.rows[u].available, ready |-> p.rows[u].ready]
                        ELSE notice[u]]
        /\ report' = p.rows
    BY <1>5 DEF ImportCommit
  <2>2. \A u \in Units : written(u) => turn[u].open
    BY <1>5 DEF Applies
  <2>3. NoticesOK'
    <3> HIDE DEF onNotice
    <3>1. \A u \in Units : p.rows[u] \in Snapshots
      BY <1>2 DEF LocalsOK
    <3> QED BY <1>2, <2>1, <3>1 DEF NoticesOK, Snapshots
  <2> HIDE DEF writes, written, p
  <2>4. \A u \in Units : \/ turn'[u] = turn[u]
                         \/ /\ turn[u].open /\ FieldsOK(p.fields[u])
                            /\ turn'[u] = Over(p.fields[u], turn[u])
    BY <1>3, <2>1, <2>2
  <2>5. \A u \in Units : turn'[u] \in Cells /\ turn'[u].open = turn[u].open
    BY <2>4, UpdatedColumns, TypeFacts
  <2>6. TurnOK'
    <3>1. turn' \in [Units -> Cells]
      BY <2>1, <2>5
    <3>2. operated' \in [Units -> BOOLEAN]
      BY <2>1
    <3>3. ASSUME NEW u \in Units, ~turn'[u].open
          PROVE  turn'[u] = [NoTurnover EXCEPT !.gen = turn'[u].gen]
      <4>1. turn'[u] = turn[u] /\ ~turn[u].open
        BY <2>4, <2>5, <3>3
      <4> QED BY <4>1, TypeFacts DEF TurnOK
    <3> QED BY <3>1, <3>2, <3>3 DEF TurnOK
  <2>7. report' \in Reports
    BY <1>2, <2>1 DEF LocalsOK
  <2> QED BY <1>1, <1>4, <2>3, <2>4, <2>6, <2>7 DEF M, p
<1>6. CASE ~(\A x \in writes : Applies(x[1], x[2]))
  <2>1. UNCHANGED <<turn, operated, notice, report>>
    BY <1>6 DEF ImportCommit
  <2>2. TurnOK' /\ NoticesOK' /\ report' \in Reports
    BY <1>2, <2>1, TypeFacts DEF TurnOK, NoticesOK
  <2> QED BY <1>1, <1>4, <2>1, <2>2 DEF M
<1> QED BY <1>5, <1>6

\* quiet counts to two.
LEMMA CountsQuiet ==
  \A n \in 0..2 : Min({n + 1, 2}) = IF n = 0 THEN 1 ELSE 2
<1> TAKE n \in 0..2
<1> DEFINE m == IF n = 0 THEN 1 ELSE 2
           S == {n + 1, 2}
<1>1. m \in S /\ \A y \in S : m =< y
  OBVIOUS
<1>2. \A x \in S : (\A y \in S : x =< y) => x = m
  OBVIOUS
<1> HIDE DEF m, S
<1>3. Min(S) = m
  BY <1>1, <1>2 DEF Min
<1> QED BY <1>3 DEF m, S

LEMMA TablesTypes ==
  ASSUME TurnOK', NoticesOK', report' \in Reports, today' \in Days, quiet' \in 0..2,
         \A b \in Actors : LocalsOK(b, proc'[b])
  PROVE  TypeInv'
<1>1. \A b \in Actors : proc'[b].day \in Days \cup {0} /\ proc'[b].alone \in BOOLEAN
  BY DEF LocalsOK
<1> QED BY <1>1 DEF TypeInv, TypeOK, TurnOK, NoticesOK, Cells

LEMMA NextStageTypes ==
  ASSUME TypeInv, NEW a \in {"loop", "job"}, Busy(a), NEW completed \in BOOLEAN,
         NextStage(a, completed), UNCHANGED <<turn, notice, report, today, operated>>
  PROVE  TypeInv'
<1>1. Moved(a) /\ a \in Actors
  BY NextStageIs DEF Moved, Actors
<1>2. quiet' \in 0..2
  <2>1. quiet \in 0..2 /\ Min({quiet + 1, 2}) \in 0..2
    <3>1. quiet \in 0..2
      BY TypeFacts
    <3>2. Min({quiet + 1, 2}) = IF quiet = 0 THEN 1 ELSE 2
      BY <3>1, CountsQuiet
    <3> QED BY <3>1, <3>2
  <2>2. CASE a = "loop" /\ proc[a].stage = "backfill"
    BY <2>1, <2>2, NextStageIs
  <2>3. CASE a = "loop" /\ proc[a].stage # "backfill"
    BY <2>1, <2>3, NextStageIs
  <2>4. CASE a = "job"
    BY <2>4, NextStageIs
  <2> QED BY <2>2, <2>3, <2>4
<1>3. TurnOK'
  BY TypeFacts DEF TurnOK
<1> QED BY <1>1, <1>2, <1>3, MovedTypes

LEMMA InitTypes == Init => TypeInv
<1> SUFFICES ASSUME Init PROVE TypeInv
  OBVIOUS
<1>1. turn \in [Units -> Cells] /\ \A u \in Units : turn[u] = NoTurnover
  BY NewCells DEF Init
<1>2. NoTurnover.gen = 0
  BY DEF NoTurnover
<1>3. [NoTurnover EXCEPT !.gen = 0] = NoTurnover
  <2> DEFINE off == FALSE
  <2>1. NoTurnover = [gen |-> 0, open |-> off, moveOut |-> 0, available |-> NoDate,
                      status |-> None, manual |-> None, override |-> off, ready |-> None]
    BY DEF NoTurnover
  <2> HIDE DEF off
  <2> QED BY <2>1
<1>4. notice \in [Units -> [available : Nat \cup {NoDate}, ready : BOOLEAN]]
  <2>1. NoNotice \in [available : Nat \cup {NoDate}, ready : BOOLEAN]
    BY DEF NoNotice, NoDate
  <2> QED BY <2>1 DEF Init
<1>5. report \in Reports /\ today \in Days /\ quiet \in 0..2 /\ operated \in [Units -> BOOLEAN]
  BY RowTypes, Clock DEF Init
<1>6. \A a \in Actors : LocalsOK(a, proc[a])
  BY IdleOK DEF Init
<1>7. \A a \in Actors : proc[a].day \in Days \cup {0} /\ proc[a].alone \in BOOLEAN
  BY <1>6 DEF LocalsOK
<1>8. \A u \in Units : turn[u] = [NoTurnover EXCEPT !.gen = turn[u].gen]
  BY <1>1, <1>2, <1>3
<1> QED BY <1>1, <1>4, <1>5, <1>6, <1>7, <1>8 DEF TypeInv, TypeOK, Cells

\* The other handlers write one turnover.
LEMMA HandlersAre ==
  ASSUME TypeInv, PatchStatus \/ ChangeMoveOut \/ PatchReady \/ EndTurnover \/ CreateTurnover
  PROVE  \E u \in Units : \E t \in Cells : \E operates \in BOOLEAN :
           /\ t.open \/ t = [NoTurnover EXCEPT !.gen = t.gen]
           /\ ByHand(u, t, operates)
           /\ \/ operates
              \/ t.open /\ turn[u].open /\ t.gen = turn[u].gen /\ t.status = turn[u].status
              \/ ~t.open
              \/ t.gen # turn[u].gen
<1>1. CASE PatchStatus
  <2> PICK u \in Units, s \in Patched :
         turn[u].open /\ ByHand(u, [turn[u] EXCEPT !.status = s, !.manual = ManualReadyOf(s)], TRUE)
    BY <1>1 DEF PatchStatus
  <2> DEFINE m == ManualReadyOf(s)
             t == [turn[u] EXCEPT !.status = s, !.manual = m]
  <2>1. s \in AvailabilityStatuses /\ m \in ManualStatuses
    BY BoardConstants, ManualOfStatus
  <2>2. turn[u] \in Cells /\ ByHand(u, t, TRUE) /\ turn[u].open
    BY TypeFacts
  <2> HIDE DEF m
  <2>3. t \in Cells /\ t.open
    BY <2>1, <2>2 DEF Cells
  <2> HIDE DEF t
  <2> QED BY <2>2, <2>3
<1>2. CASE PatchReady
  <2> PICK u \in Units : turn[u].open /\ ByHand(u, [turn[u] EXCEPT !.ready = None], operated[u])
    BY <1>2 DEF PatchReady
  <2> DEFINE t == [turn[u] EXCEPT !.ready = None]
             operates == operated[u]
  <2>1. turn[u] \in Cells /\ ByHand(u, t, operates) /\ turn[u].open /\ operates \in BOOLEAN
    BY TypeFacts DEF TurnOK
  <2>2. t \in Cells /\ t.open /\ t.gen = turn[u].gen /\ t.status = turn[u].status
    BY <2>1 DEF Cells
  <2> HIDE DEF t, operates
  <2> QED BY <2>1, <2>2
<1>3. CASE EndTurnover
  <2> PICK u \in Units : turn[u].open /\ ByHand(u, [NoTurnover EXCEPT !.gen = turn[u].gen], FALSE)
    BY <1>3 DEF EndTurnover
  <2> DEFINE t == [NoTurnover EXCEPT !.gen = turn[u].gen]
             operates == FALSE
  <2>1. turn[u].gen \in 0..LastGen
    BY TypeFacts DEF Cells
  <2>2. t \in Cells /\ ~t.open /\ t.gen = turn[u].gen /\ operates \in BOOLEAN
    BY <2>1, NewCells
  <2>3. ByHand(u, t, operates) /\ t = [NoTurnover EXCEPT !.gen = t.gen]
    BY <2>2
  <2> HIDE DEF t, operates
  <2> QED BY <2>2, <2>3
<1>4. CASE CreateTurnover
  <2> PICK u \in Units, d \in MoveOuts : CanCreate(u) /\ ByHand(u, Created(u, d), FALSE)
    BY <1>4 DEF CreateTurnover
  <2> DEFINE t == Created(u, d)
             operates == FALSE
  <2>1. TurnOK /\ d \in Nat /\ turn[u].gen \in Nat
    BY TypeFacts, BoardConstants
  <2>2. t \in Cells /\ t.open /\ t.gen = turn[u].gen + 1 /\ operates \in BOOLEAN
    BY <2>1, NewCells
  <2>3. ByHand(u, t, operates)
    OBVIOUS
  <2> HIDE DEF t, operates
  <2> QED BY <2>1, <2>2, <2>3
<1>5. CASE ChangeMoveOut
  <2> PICK u \in Units, d \in MoveOuts :
         turn[u].open /\ ByHand(u, [turn[u] EXCEPT !.moveOut = d], operated[u])
    BY <1>5 DEF ChangeMoveOut
  <2> DEFINE t == [turn[u] EXCEPT !.moveOut = d]
             operates == operated[u]
  <2>1. turn[u] \in Cells /\ ByHand(u, t, operates) /\ turn[u].open /\ operates \in BOOLEAN
    BY TypeFacts DEF TurnOK
  <2>2. t \in Cells /\ t.open /\ t.gen = turn[u].gen /\ t.status = turn[u].status
    BY <2>1, BoardConstants DEF Cells
  <2> HIDE DEF t, operates
  <2> QED BY <2>1, <2>2
<1> QED BY <1>1, <1>2, <1>3, <1>4, <1>5

-----------------------------------------------------------------------------
(***************************************************************************)
(* What a step does to the actors that do not take it                      *)
(***************************************************************************)

\* b's locals are as they were, but if it is at work it is not alone any more.
Aside(b) ==
  /\ proc'[b].stage = proc[b].stage /\ proc'[b].step = proc[b].step
  /\ proc'[b].day = proc[b].day /\ proc'[b].rows = proc[b].rows
  /\ proc'[b].todo = proc[b].todo /\ proc'[b].target = proc[b].target
  /\ proc'[b].fields = proc[b].fields
  /\ Busy(b) => ~proc'[b].alone
  /\ ~Busy(b) => proc'[b] = proc[b]

LEMMA AsideFrom ==
  ASSUME TypeInv, NEW b \in Actors,
         proc'[b] = IF Busy(b) THEN [proc[b] EXCEPT !.alone = FALSE] ELSE proc[b]
  PROVE  Aside(b)
<1> DEFINE off == FALSE
           p == proc[b]
           q == [p EXCEPT !.alone = off]
<1>1. DOMAIN p = Locals
  BY TypeFacts DEF LocalsOK
<1>2. proc'[b] = IF Busy(b) THEN q ELSE p
  OBVIOUS
<1>3. ~off
  OBVIOUS
<1> HIDE DEF p, off
<1>4. /\ q.stage = p.stage /\ q.step = p.step /\ q.day = p.day /\ q.rows = p.rows
      /\ q.todo = p.todo /\ q.target = p.target /\ q.fields = p.fields /\ q.alone = off
  BY <1>1 DEF Locals
<1> HIDE DEF q
<1>5. CASE Busy(b)
  BY <1>2, <1>3, <1>4, <1>5 DEF Aside, p
<1>6. CASE ~Busy(b)
  BY <1>2, <1>6 DEF Aside, p
<1> QED BY <1>5, <1>6

LEMMA SetAside ==
  ASSUME TypeInv, NEW a \in Actors, NEW q, Set(a, q), NEW b \in Actors, b # a
  PROVE  Aside(b)
<1>1. proc'[b] = IF Busy(b) THEN [proc[b] EXCEPT !.alone = FALSE] ELSE proc[b]
  BY DEF Set
<1> QED BY <1>1, AsideFrom

LEMMA ByHandAside ==
  ASSUME TypeInv, NEW u, NEW t, NEW operates, ByHand(u, t, operates)
  PROVE  \A b \in Actors : Aside(b)
<1> TAKE b \in Actors
<1>1. proc'[b] = IF Busy(b) THEN [proc[b] EXCEPT !.alone = FALSE] ELSE proc[b]
  BY DEF ByHand
<1> QED BY <1>1, AsideFrom

-----------------------------------------------------------------------------
(* Every step keeps the types *)

LEMMA OnlyReadsTypes ==
  ASSUME TypeInv, NEW a \in Actors, Moved(a), OnlyReads
  PROVE  TypeInv'
<1>1. TurnOK' /\ quiet' \in 0..2 /\ UNCHANGED <<notice, report, today>>
  BY TypeFacts DEF OnlyReads, TurnOK
<1> QED BY <1>1, MovedTypes

LEMMA WritesTypes ==
  ASSUME TypeInv, NEW a \in Actors, Moved(a), UNCHANGED <<notice, report, today>>,
         quiet' \in {quiet, 0}, NEW u \in Units, NEW f, FieldsOK(f), NEW g,
         (Applies(u, g) /\ Write(u, f)) \/ UNCHANGED <<turn, operated>>
  PROVE  TypeInv'
<1>1. TurnOK /\ quiet' \in 0..2
  BY TypeFacts
<1>2. TurnOK'
  <2>1. CASE UNCHANGED <<turn, operated>>
    BY <1>1, <2>1 DEF TurnOK
  <2>2. CASE Applies(u, g) /\ Write(u, f)
    <3>1. turn[u].open
      BY <2>2 DEF Applies
    <3> QED BY <1>1, <2>2, <3>1, WriteTypes
  <2> QED BY <2>1, <2>2
<1> QED BY <1>1, <1>2, MovedTypes

LEMMA LoadTypes ==
  ASSUME TypeInv, LoadBegin \/ Load
  PROVE  TypeInv'
<1> USE DEF Actors
<1>1. CASE LoadBegin
  BY <1>1, LoadBeginIs, OnlyReadsTypes
<1>2. CASE ReadReport
  BY <1>2, ReadReportIs, OnlyReadsTypes
<1>3. CASE ReconcileRead
  BY <1>3, ReconcileReadIs, OnlyReadsTypes
<1>4. CASE ReconcileWrite
  <2>1. CASE Applies(L.target[1], L.target[2])
    <3>1. /\ Moved("loop") /\ UNCHANGED <<notice, report, today>> /\ quiet' = quiet
          /\ L.target[1] \in Units /\ FieldsOK(L.fields)
          /\ Write(L.target[1], L.fields)
      BY <1>4, <2>1, ReconcileWriteIs
    <3> QED BY <2>1, <3>1, WritesTypes
  <2>2. CASE ~Applies(L.target[1], L.target[2])
    <3>1. NextStage("loop", FALSE) /\ UNCHANGED <<turn, notice, report, today, operated>>
      BY <1>4, <2>2, ReconcileWriteIs
    <3>2. Busy("loop")
      BY <1>4, ReconcileWriteIs DEF Busy, L
    <3> QED BY <3>1, <3>2, NextStageTypes
  <2> QED BY <2>1, <2>2
<1>5. CASE EnsureLook
  BY <1>5, EnsureLookIs, OnlyReadsTypes
<1>6. CASE CreateDue("loop")
  <2> DEFINE u == proc["loop"].target[1]
  <2>1. /\ Moved("loop") /\ UNCHANGED <<notice, report, today>> /\ quiet' = quiet /\ u \in Units
        /\ \/ UNCHANGED <<turn, operated>>
           \/ \E d \in Nat : Create(u, d)
    BY <1>6, CreateDueIs
  <2>2. TurnOK'
    BY <2>1, TypeFacts, CreateTypes DEF TurnOK
  <2> QED BY <2>1, <2>2, TypeFacts, MovedTypes
<1>7. CASE UpdateDue("loop")
  <2>1. /\ Moved("loop") /\ UNCHANGED <<notice, report, today>> /\ quiet' = quiet
        /\ proc["loop"].target[1] \in Units /\ FieldsOK(proc["loop"].fields)
        /\ \/ /\ Applies(proc["loop"].target[1], proc["loop"].target[2])
              /\ Write(proc["loop"].target[1], proc["loop"].fields)
           \/ UNCHANGED <<turn, operated>>
    BY <1>7, UpdateDueIs
  <2> QED BY <2>1, WritesTypes
<1>8. CASE TransitionRead("loop")
  BY <1>8, TransitionReadIs, OnlyReadsTypes
<1>9. CASE TransitionWrite("loop")
  <2>1. /\ Moved("loop") /\ UNCHANGED <<notice, report, today>> /\ quiet' = quiet
        /\ \E x \in proc["loop"].todo :
             /\ x[1] \in Units
             /\ \/ Applies(x[1], x[2]) /\ Write(x[1], TransitionFields)
                \/ UNCHANGED <<turn, operated>>
    BY <1>9, TransitionWriteIs DEF Took
  <2> QED BY <2>1, FixedFields, WritesTypes
<1>10. CASE BackfillRead
  BY <1>10, BackfillReadIs, OnlyReadsTypes
<1>11. CASE BackfillWrite
  <2>1. /\ Moved("loop") /\ UNCHANGED <<notice, report, today>> /\ quiet' = quiet
        /\ \E x \in L.todo :
             /\ x[1] \in Units
             /\ \/ Applies(x[1], x[2]) /\ Write(x[1], [ready |-> "placeholder"])
                \/ UNCHANGED <<turn, operated>>
    BY <1>11, BackfillWriteIs DEF Took
  <2> QED BY <2>1, FixedFields, WritesTypes
<1>12. CASE StageDone("loop")
  <2>1. Busy("loop") /\ NextStage("loop", TRUE) /\ UNCHANGED <<turn, notice, report, today, operated>>
    BY <1>12 DEF StageDone
  <2> QED BY <2>1, NextStageTypes
<1> QED BY <1>1, <1>2, <1>3, <1>4, <1>5, <1>6, <1>7, <1>8, <1>9, <1>10, <1>11, <1>12 DEF Load

LEMMA JobTypes ==
  ASSUME TypeInv, Job
  PROVE  TypeInv'
<1> USE DEF Actors
<1>1. CASE JobBegin
  BY <1>1, JobBeginIs, OnlyReadsTypes
<1>2. CASE TransitionRead("job")
  BY <1>2, TransitionReadIs, OnlyReadsTypes
<1>3. CASE TransitionWrite("job")
  <2>1. /\ Moved("job") /\ UNCHANGED <<notice, report, today>> /\ quiet' = 0
        /\ \E x \in proc["job"].todo :
             /\ x[1] \in Units
             /\ \/ Applies(x[1], x[2]) /\ Write(x[1], TransitionFields)
                \/ UNCHANGED <<turn, operated>>
    BY <1>3, TransitionWriteIs DEF Took
  <2> QED BY <2>1, FixedFields, WritesTypes
<1>4. CASE JobRead
  BY <1>4, JobReadIs, OnlyReadsTypes
<1>5. CASE JobLook
  BY <1>5, JobLookIs, OnlyReadsTypes
<1>6. CASE CreateDue("job")
  <2> DEFINE u == proc["job"].target[1]
  <2>1. /\ Moved("job") /\ UNCHANGED <<notice, report, today>> /\ quiet' = 0 /\ u \in Units
        /\ \/ UNCHANGED <<turn, operated>>
           \/ \E d \in Nat : Create(u, d)
    BY <1>6, CreateDueIs
  <2>2. TurnOK'
    BY <2>1, TypeFacts, CreateTypes DEF TurnOK
  <2> QED BY <2>1, <2>2, TypeFacts, MovedTypes
<1>7. CASE UpdateDue("job")
  <2>1. /\ Moved("job") /\ UNCHANGED <<notice, report, today>> /\ quiet' = 0
        /\ proc["job"].target[1] \in Units /\ FieldsOK(proc["job"].fields)
        /\ \/ /\ Applies(proc["job"].target[1], proc["job"].target[2])
              /\ Write(proc["job"].target[1], proc["job"].fields)
           \/ UNCHANGED <<turn, operated>>
    BY <1>7, UpdateDueIs
  <2> QED BY <2>1, WritesTypes
<1>8. CASE JobForget
  <2>1. Moved("job") /\ NoticesOK' /\ UNCHANGED <<turn, report, today, operated>> /\ quiet' = 0
    BY <1>8, JobForgetIs
  <2>2. TurnOK' /\ report' \in Reports /\ today' \in Days
    BY <2>1, TypeFacts DEF TurnOK
  <2>3. \A b \in Actors : LocalsOK(b, proc'[b])
    BY <2>1, SetTypes, TypeFacts DEF Moved
  <2> QED BY <2>1, <2>2, <2>3, TablesTypes
<1>9. CASE StageDone("job")
  <2>1. Busy("job") /\ NextStage("job", TRUE) /\ UNCHANGED <<turn, notice, report, today, operated>>
    BY <1>9 DEF StageDone
  <2> QED BY <2>1, NextStageTypes
<1> QED BY <1>1, <1>2, <1>3, <1>4, <1>5, <1>6, <1>7, <1>8, <1>9 DEF Job

LEMMA ImportTypes ==
  ASSUME TypeInv, ImportRead \/ Import
  PROVE  TypeInv'
<1> USE DEF Actors
<1>1. CASE ImportRead
  BY <1>1, ImportReadIs, OnlyReadsTypes
<1>2. CASE ImportCreate
  <2>1. /\ Moved("import") /\ UNCHANGED <<notice, report, today>> /\ quiet' = 0
        /\ \/ UNCHANGED <<turn, operated>>
           \/ \E u \in Units, d \in Nat : Create(u, d)
    BY <1>2, ImportCreateIs
  <2>2. TurnOK'
    BY <2>1, TypeFacts, CreateTypes DEF TurnOK
  <2> QED BY <2>1, <2>2, TypeFacts, MovedTypes
<1>3. CASE ImportUpdate
  <2>1. /\ Moved("import") /\ UNCHANGED <<notice, report, today>> /\ quiet' = 0
        /\ M.target[1] \in Units
        /\ \/ Applies(M.target[1], M.target[2]) /\ \E f : FieldsOK(f) /\ Write(M.target[1], f)
           \/ UNCHANGED <<turn, operated>>
    BY <1>3, ImportUpdateIs
  <2> QED BY <2>1, FixedFields, WritesTypes
<1>4. CASE ImportCommit
  <2>1. /\ Moved("import") /\ NoticesOK' /\ TurnOK' /\ report' \in Reports /\ today' = today
        /\ quiet' = 0
    BY <1>4, ImportCommitIs
  <2>2. \A b \in Actors : LocalsOK(b, proc'[b])
    BY <2>1, SetTypes, TypeFacts DEF Moved
  <2> QED BY <2>1, <2>2, TypeFacts, TablesTypes
<1> QED BY <1>1, <1>2, <1>3, <1>4 DEF Import

LEMMA HandlerTypes ==
  ASSUME TypeInv, PatchStatus \/ ChangeMoveOut \/ PatchReady \/ EndTurnover \/ CreateTurnover
  PROVE  TypeInv'
<1> PICK u \in Units : \E t \in Cells : \E operates \in BOOLEAN :
           (t.open \/ t = [NoTurnover EXCEPT !.gen = t.gen]) /\ ByHand(u, t, operates)
  BY HandlersAre
<1> PICK t \in Cells, operates \in BOOLEAN :
           (t.open \/ t = [NoTurnover EXCEPT !.gen = t.gen]) /\ ByHand(u, t, operates)
  OBVIOUS
<1>1. TurnOK' /\ \A b \in Actors : LocalsOK(b, proc'[b])
  BY TypeFacts, ByHandTypes
<1>2. UNCHANGED <<notice, report, today>> /\ quiet' = 0
  BY DEF ByHand, Noise
<1> QED BY <1>1, <1>2, SameTables

LEMMA StepTypes == TypeInv /\ [Next]_vars => TypeInv'
<1> SUFFICES ASSUME TypeInv, [Next]_vars PROVE TypeInv'
  OBVIOUS
<1>1. CASE Midnight
  <2>1. today # Max(Days) /\ today' = Min({d \in Days : d > today})
          /\ UNCHANGED <<turn, notice, report, proc, operated>> /\ quiet' = 0
    BY <1>1 DEF Midnight, Noise
  <2>2. today' \in Days
    BY <2>1, Clock, TypeFacts
  <2> QED BY <2>1, <2>2 DEF TypeInv, TypeOK
<1>2. ASSUME NEW a \in Actors, Fail(a) PROVE TypeInv'
  <2>1. CASE a = "loop"
    <3>1. Busy("loop") /\ NextStage("loop", FALSE) /\ UNCHANGED <<turn, notice, report, today, operated>>
      BY <1>2, <2>1 DEF Fail
    <3> QED BY <3>1, NextStageTypes
  <2>2. CASE a # "loop"
    <3>1. Set(a, Idle) /\ quiet' = 0 /\ UNCHANGED <<turn, notice, report, today, operated>>
      BY <1>2, <2>2 DEF Fail, Noise
    <3> QED BY <3>1, IdleOK, OnlyLocals
  <2> QED BY <2>1, <2>2
<1>3. CASE UNCHANGED vars
  BY <1>3 DEF vars, TypeInv, TypeOK
<1> QED BY <1>1, <1>2, <1>3, LoadTypes, JobTypes, ImportTypes, HandlerTypes DEF Next

LEMMA AlwaysTyped == Spec => []TypeInv
BY InitTypes, StepTypes, PTL DEF Spec

\* Every state is well typed, and a turnover that has ended keeps nothing of
\* itself but its number (update_turnover and create_turnover).
THEOREM BoardTypes == Spec => []TypeOK
<1>1. TypeInv => TypeOK
  BY DEF TypeInv
<1> QED BY <1>1, AlwaysTyped, PTL
-----------------------------------------------------------------------------
(* What the steps of the others do to a load, and to an import *)

\* A step elsewhere writes no table that a load looks at, or it ends the quiet; in
\* both cases a load that is under way is not alone any more.
Elsewhere ==
  /\ Aside("loop")
  /\ UNCHANGED <<turn, report, today, quiet>> \/ (quiet' = 0 /\ today' = today)

LEMMA MovedElsewhere ==
  ASSUME TypeInv, NEW a \in {"job", "import"}, Moved(a),
         OnlyReads \/ (quiet' = 0 /\ today' = today)
  PROVE  Elsewhere
<1>1. Aside("loop")
  <2> "loop" # a /\ a \in Actors /\ "loop" \in Actors /\ Set(a, proc'[a])
    BY DEF Actors, Moved
  <2> QED BY SetAside
<1> QED BY <1>1 DEF Elsewhere, OnlyReads

LEMMA JobElsewhere ==
  ASSUME TypeInv, Job
  PROVE  Elsewhere /\ Aside("import")
<1> "job" \in {"loop", "job"} /\ "job" \in {"job", "import"} /\ "import" # "job"
     /\ "job" \in Actors /\ "import" \in Actors
  BY DEF Actors
<1>1. Moved("job") /\ (OnlyReads \/ (quiet' = 0 /\ today' = today))
  <2>1. CASE JobBegin
    BY <2>1, JobBeginIs
  <2>2. CASE TransitionRead("job")
    BY <2>2, TransitionReadIs
  <2>3. CASE TransitionWrite("job")
    BY <2>3, TransitionWriteIs
  <2>4. CASE JobRead
    BY <2>4, JobReadIs
  <2>5. CASE JobLook
    BY <2>5, JobLookIs
  <2>6. CASE CreateDue("job")
    BY <2>6, CreateDueIs
  <2>7. CASE UpdateDue("job")
    BY <2>7, UpdateDueIs
  <2>8. CASE JobForget
    BY <2>8, JobForgetIs
  <2>9. CASE StageDone("job")
    <3>1. Busy("job") /\ NextStage("job", TRUE) /\ today' = today
      BY <2>9 DEF StageDone
    <3> QED BY <3>1, NextStageIs DEF Moved
  <2> QED BY <2>1, <2>2, <2>3, <2>4, <2>5, <2>6, <2>7, <2>8, <2>9 DEF Job
<1>2. Aside("import")
  BY <1>1, SetAside DEF Moved
<1> QED BY <1>1, <1>2, MovedElsewhere

LEMMA ImportElsewhere ==
  ASSUME TypeInv, ImportRead \/ Import
  PROVE  Elsewhere
<1> "import" \in {"job", "import"}
  OBVIOUS
<1>1. Moved("import") /\ (OnlyReads \/ (quiet' = 0 /\ today' = today))
  BY ImportReadIs, ImportCreateIs, ImportUpdateIs, ImportCommitIs DEF Import
<1> QED BY <1>1, MovedElsewhere

LEMMA HandlersElsewhere ==
  ASSUME TypeInv, PatchStatus \/ ChangeMoveOut \/ PatchReady \/ EndTurnover \/ CreateTurnover
  PROVE  Elsewhere /\ Aside("import")
<1> PICK u \in Units : \E t \in Cells : \E operates \in BOOLEAN : ByHand(u, t, operates)
  BY HandlersAre
<1> PICK t \in Cells, operates \in BOOLEAN : ByHand(u, t, operates)
  OBVIOUS
<1>1. \A b \in Actors : Aside(b)
  BY ByHandAside
<1>2. quiet' = 0 /\ today' = today
  BY DEF ByHand, Noise
<1> QED BY <1>1, <1>2 DEF Elsewhere, Actors

LEMMA FailIs ==
  ASSUME TypeInv, NEW a \in Actors, Fail(a)
  PROVE  IF a = "loop"
         THEN /\ Busy("loop") /\ NextStage("loop", FALSE)
              /\ UNCHANGED <<turn, notice, report, today, operated>>
         ELSE Elsewhere /\ (a = "import" => M' = Idle) /\ (a # "import" => Aside("import"))
<1>1. CASE a = "loop"
  BY <1>1 DEF Fail
<1>2. CASE a # "loop"
  <2>1. Set(a, Idle) /\ quiet' = 0 /\ today' = today
    BY <1>2 DEF Fail, Noise
  <2>2. Aside("loop") /\ (a # "import" => Aside("import"))
    BY <1>2, <2>1, SetAside DEF Actors
  <2>3. proc'[a] = Idle
    BY <2>1, DoneIs
  <2> QED BY <1>2, <2>1, <2>2, <2>3 DEF Elsewhere, M
<1> QED BY <1>1, <1>2

MidnightIs ==
  /\ UNCHANGED <<turn, report, proc>> /\ quiet' = 0
  /\ today' \in Nat /\ today \in Nat /\ today' > today

\* Whose step it is.
LEMMA Steps ==
  ASSUME TypeInv, [Next]_vars
  PROVE  \/ Elsewhere \/ MidnightIs \/ LoadBegin \/ Load \/ UNCHANGED vars
         \/ /\ Busy("loop") /\ NextStage("loop", FALSE)
            /\ UNCHANGED <<turn, notice, report, today, operated>>
<1>1. CASE Midnight
  <2>1. today # Max(Days) /\ today' = Min({d \in Days : d > today})
          /\ UNCHANGED <<turn, report, proc>> /\ quiet' = 0
    BY <1>1 DEF Midnight, Noise
  <2>2. today' \in Days /\ today' > today
    BY <2>1, Clock, TypeFacts
  <2> QED BY <2>1, <2>2, TypeFacts, BoardConstants DEF MidnightIs
<1>2. ASSUME NEW a \in Actors, Fail(a)
      PROVE  \/ Elsewhere
             \/ /\ Busy("loop") /\ NextStage("loop", FALSE)
                /\ UNCHANGED <<turn, notice, report, today, operated>>
  BY <1>2, FailIs
<1> QED BY <1>1, <1>2, JobElsewhere, ImportElsewhere, HandlersElsewhere DEF Next
-----------------------------------------------------------------------------
(* A load that nobody disturbs *)

\* A unit whose notice in the report has run out; a turnover to move on; one that
\* is as the report has it; one with a ready date.
Due(u)     == StatusIsOnNotice(report[u].status) /\ Arrived(report[u], today)
Late(u)    == MovesOn(turn[u], today)
Follows(u) == ReportFields(turn[u], report[u]) = NoFields
Dated(u)   == turn[u].open => turn[u].ready # None
Settles(u) == turn[u].open => Follows(u)

InStage(stage, steps) == L.stage = stage /\ L.step \in steps

\* The day that a load works with is over only once the quiet is.
DayInv ==
  /\ L.day <= today
  /\ Busy("loop") /\ quiet >= 1 => L.day = today

\* What a load has read still holds while it is alone, or nobody has written since
\* the last load: the report, and the fields to write of the turnover it looked at.
Fresh == L.alone \/ quiet >= 1
ReadInv ==
  Fresh /\ L.stage \in {"reconcile", "ensure"} /\ L.step # "enter" => L.rows = report
FieldsInv ==
  Fresh /\ InStage("reconcile", {"write"}) =>
    LET u == L.target[1]
    IN  Applies(u, L.target[2]) /\ L.fields = ReportFields(turn[u], report[u])
\* The turnover that a load has just made is not overridden.
MadeInv == L.alone /\ InStage("ensure", {"update"}) => ~turn[L.target[1]].override

\* Stage by stage, what a load that is alone, on its own day, has brought about.
EnsureInv ==
  L.alone /\ L.day = today =>
    /\ InStage("ensure", {"next", "create", "update"}) =>
         \A u \in Units : Due(u) => \/ turn[u].open \/ <<u, 0>> \in L.todo
                                    \/ L.step = "create" /\ L.target[1] = u
    /\ L.stage \in {"transition", "backfill"} => \A u \in Units : Due(u) => turn[u].open
MoveInv ==
  L.alone /\ L.day = today =>
    /\ InStage("transition", {"next"}) => \A u \in Units : Late(u) => <<u, turn[u].gen>> \in L.todo
    /\ L.stage = "backfill" => \A u \in Units : ~Late(u)
    /\ InStage("backfill", {"next"}) => \A u \in Units : Dated(u) \/ <<u, turn[u].gen>> \in L.todo

\* So that between loads the board is true.
Healed == \A u \in Units : (Due(u) => turn[u].open) /\ ~Late(u) /\ Dated(u)
HealInv == quiet >= 1 /\ ~Busy("loop") => Healed

\* The next load finds little to do: no turnover to make, none to move on but those
\* that it has put on notice itself, and none without a ready date.
QuietInv ==
  Busy("loop") /\ quiet >= 1 =>
    /\ L.step \in {"enter", "next", "write"}
    /\ \A u \in Units : Due(u) => turn[u].open
    /\ \A u \in Units : Late(u) => StatusIsOnNotice(report[u].status)
    /\ InStage("transition", {"next"}) => \A x \in L.todo : Applies(x[1], x[2]) => Late(x[1])
    /\ InStage("backfill", {"next"}) =>
         \A x \in L.todo : Applies(x[1], x[2]) => turn[x[1]].ready = None

\* It brings every open turnover to the report, and its later stages leave it there.
FollowInv ==
  L.alone /\ quiet >= 1 =>
    /\ InStage("reconcile", {"next", "write"}) =>
         \A u \in Units : \/ Settles(u) \/ <<u, 0>> \in L.todo
                          \/ L.step = "write" /\ L.target[1] = u
    /\ L.stage \in {"ensure", "transition", "backfill"} => \A u \in Units : Settles(u)

\* After it nothing is left to do.
SettledInv ==
  quiet = 2 =>
    /\ Healed /\ \A u \in Units : Settles(u)
    /\ L.step # "write"
    /\ L.stage \in {"transition", "backfill"} /\ L.step = "next" => L.todo = {}

LoadInv ==
  /\ DayInv /\ ReadInv /\ FieldsInv /\ MadeInv /\ EnsureInv /\ MoveInv /\ HealInv
  /\ QuietInv /\ FollowInv /\ SettledInv

LEMMA InitLoad == Init => LoadInv
<1> SUFFICES ASSUME Init PROVE LoadInv
  OBVIOUS
<1>1. L = Idle /\ quiet = 0 /\ today \in Nat
  BY Clock, BoardConstants DEF Init, L, Actors
<1>2. L.stage = "idle" /\ L.step = "-" /\ L.day = 0 /\ ~L.alone
  BY <1>1 DEF Idle
<1>3. ~Busy("loop")
  BY <1>2 DEF Busy, L
<1>4. DayInv /\ ReadInv /\ FieldsInv /\ MadeInv
  BY <1>1, <1>2, <1>3 DEF DayInv, ReadInv, FieldsInv, MadeInv, InStage
<1>5. EnsureInv /\ MoveInv /\ HealInv /\ QuietInv /\ FollowInv /\ SettledInv
  BY <1>1, <1>2, <1>3 DEF EnsureInv, MoveInv, HealInv, QuietInv, FollowInv, SettledInv
<1> QED BY <1>4, <1>5 DEF LoadInv

\* A load that is not under way is at no stage and no step.
LEMMA IdleFacts ==
  ASSUME TypeInv', ~Busy("loop")'
  PROVE  L'.stage = "idle" /\ L'.step = "-"
<1>1. L'.stage = "idle" /\ PlaceOK("loop", L')
  BY DEF TypeInv, Busy, L, LocalsOK, Actors
<1> QED BY <1>1 DEF PlaceOK

\* The day is over, or somebody has written and no load is alone: nothing is claimed.
LEMMA NothingClaimed ==
  ASSUME TypeInv', quiet' = 0, L'.day <= today',
         \/ ~Busy("loop")' \/ ~L'.alone
         \/ L'.day # today' /\ ReadInv' /\ FieldsInv' /\ MadeInv'
  PROVE  LoadInv'
<1>1. DayInv' /\ HealInv' /\ QuietInv' /\ FollowInv' /\ SettledInv'
  BY DEF DayInv, HealInv, QuietInv, FollowInv, SettledInv
<1>2. CASE ~Busy("loop")'
  <2>1. L'.stage = "idle" /\ L'.step = "-"
    BY <1>2, IdleFacts
  <2> QED BY <1>1, <2>1 DEF LoadInv, ReadInv, FieldsInv, MadeInv, EnsureInv, MoveInv, InStage
<1>3. CASE ~L'.alone
  BY <1>1, <1>3 DEF LoadInv, ReadInv, FieldsInv, MadeInv, EnsureInv, MoveInv, Fresh
<1>4. CASE L'.day # today' /\ ReadInv' /\ FieldsInv' /\ MadeInv'
  BY <1>1, <1>4 DEF LoadInv, EnsureInv, MoveInv
<1> QED BY <1>2, <1>3, <1>4

\* The steps of the others.
LEMMA ElsewhereKeeps ==
  ASSUME TypeInv, TypeInv', LoadInv, Elsewhere \/ MidnightIs \/ UNCHANGED vars
  PROVE  LoadInv'
<1>1. L.day \in Nat /\ L.day <= today /\ today \in Nat
  <2>1. L.day \in Days \cup {0} /\ today \in Days
    <3> LocalsOK("loop", L) /\ today \in Days
      BY TypeFacts DEF L, Actors
    <3> QED BY DEF LocalsOK
  <2>2. Days \cup {0} \subseteq Nat
    BY BoardConstants
  <2>3. L.day <= today
    BY DEF LoadInv, DayInv
  <2> QED BY <2>1, <2>2, <2>3
<1>2. CASE Elsewhere
  <2>1. /\ L'.stage = L.stage /\ L'.step = L.step /\ L'.day = L.day /\ L'.rows = L.rows
        /\ L'.todo = L.todo /\ L'.target = L.target /\ L'.fields = L.fields
        /\ Busy("loop") => ~L'.alone
        /\ Busy("loop") <=> Busy("loop")'
        /\ today' = today
    BY <1>2 DEF Elsewhere, Aside, L, Busy
  <2>2. CASE quiet' = 0
    BY <1>1, <2>1, <2>2, NothingClaimed
  <2>3. CASE UNCHANGED <<turn, report, today, quiet>>
    <3>1. CASE ~Busy("loop")
      <4>1. L' = L
        BY <1>2, <3>1 DEF Elsewhere, Aside, L
      <4> QED BY <2>1, <2>3, <4>1 DEF LoadInv, DayInv, ReadInv, FieldsInv, MadeInv, EnsureInv,
                MoveInv, HealInv, QuietInv, FollowInv, SettledInv, InStage, Fresh, Due, Late,
                Follows, Settles, Dated, Healed, Applies
    <3>2. CASE Busy("loop")
      <4>1. ~L'.alone
        BY <2>1, <3>2
      <4>2. DayInv' /\ HealInv' /\ MadeInv' /\ EnsureInv' /\ MoveInv' /\ FollowInv'
        BY <2>1, <2>3, <3>2, <4>1 DEF LoadInv, DayInv, MadeInv, EnsureInv, MoveInv, HealInv, FollowInv
      <4>3. ReadInv' /\ FieldsInv'
        BY <2>1, <2>3, <4>1 DEF LoadInv, ReadInv, FieldsInv, Fresh, InStage, Applies
      <4>4. QuietInv' /\ SettledInv'
        BY <2>1, <2>3 DEF LoadInv, QuietInv, SettledInv, InStage, Due, Late, Follows, Settles,
             Dated, Healed, Applies
      <4> QED BY <4>2, <4>3, <4>4 DEF LoadInv
    <3> QED BY <3>1, <3>2
  <2> QED BY <1>2, <2>2, <2>3 DEF Elsewhere
<1>3. CASE MidnightIs
  <2>1. /\ L' = L /\ quiet' = 0 /\ turn' = turn /\ report' = report /\ L'.day < today'
        /\ Busy("loop") <=> Busy("loop")'
    BY <1>1, <1>3 DEF MidnightIs, L, Busy
  <2>2. ReadInv' /\ FieldsInv' /\ MadeInv'
    BY <2>1 DEF LoadInv, ReadInv, FieldsInv, MadeInv, Fresh, InStage, Applies
  <2>3. L'.day # today' /\ L'.day <= today'
    BY <1>1, <1>3, <2>1 DEF MidnightIs
  <2> QED BY <2>1, <2>2, <2>3, NothingClaimed
<1>4. CASE UNCHANGED vars
  BY <1>4 DEF vars, LoadInv, DayInv, ReadInv, FieldsInv, MadeInv, EnsureInv,
     MoveInv, HealInv, QuietInv, FollowInv, SettledInv, InStage, Fresh, Due, Late,
     Follows, Settles, Dated, Healed, Applies, L, Busy
<1> QED BY <1>2, <1>3, <1>4
\* A load begins with the board as the last one has left it.
LEMMA LoadBeginKeeps ==
  ASSUME TypeInv, LoadInv, LoadBegin
  PROVE  LoadInv'
<1>1. /\ OnlyReads /\ ~Busy("loop") /\ L'.stage = "reconcile" /\ L'.step = "enter"
      /\ L'.day = today
  BY LoadBeginIs
<1>2. today \in Nat
  BY TypeFacts, BoardConstants
<1>3. turn' = turn /\ report' = report /\ today' = today /\ quiet' = quiet
  BY <1>1 DEF OnlyReads
<1>4. DayInv' /\ ReadInv' /\ FieldsInv' /\ MadeInv' /\ EnsureInv' /\ MoveInv'
  BY <1>1, <1>2, <1>3 DEF DayInv, ReadInv, FieldsInv, MadeInv, EnsureInv, MoveInv, InStage
<1>5. Busy("loop")'
  BY <1>1 DEF Busy, L
<1>6. HealInv' /\ QuietInv'
  <2>1. quiet >= 1 => Healed
    BY <1>1 DEF LoadInv, HealInv
  <2> QED BY <1>1, <1>3, <1>5, <2>1 DEF HealInv, QuietInv, Healed, InStage, Due, Late
<1>7. FollowInv' /\ SettledInv'
  BY <1>1, <1>3 DEF LoadInv, FollowInv, SettledInv, InStage, Healed, Due, Late, Dated,
     Settles, Follows
<1> QED BY <1>4, <1>6, <1>7 DEF LoadInv

\* A step within a stage that writes nothing: what is claimed of the tables and of
\* the load's day stays as it was.
LEMMA ReadsKeep ==
  ASSUME LoadInv, Busy("loop"), OnlyReads, Stays("loop")
  PROVE  /\ DayInv' /\ HealInv' /\ Busy("loop")' /\ (Fresh' <=> Fresh)
         /\ L'.stage = L.stage /\ L'.day = L.day /\ (L'.alone = L.alone)
         /\ turn' = turn /\ report' = report /\ today' = today /\ quiet' = quiet
         /\ quiet >= 1 => L.day = today
         /\ \A u \in Units : /\ Due(u)' <=> Due(u)
                             /\ Late(u)' <=> Late(u)
                             /\ Settles(u)' <=> Settles(u)
                             /\ Dated(u)' <=> Dated(u)
         /\ Healed' <=> Healed
<1>1. /\ L'.stage = L.stage /\ L'.day = L.day /\ (L'.alone = L.alone)
      /\ turn' = turn /\ report' = report /\ today' = today /\ quiet' = quiet
  BY DEF OnlyReads, Stays, L
<1>2. Busy("loop")'
  BY <1>1 DEF Busy, L
<1>3. \A u \in Units : /\ Due(u)' <=> Due(u)
                       /\ Late(u)' <=> Late(u)
                       /\ Settles(u)' <=> Settles(u)
                       /\ Dated(u)' <=> Dated(u)
  BY <1>1 DEF Due, Late, Settles, Follows, Dated
<1>4. Healed' <=> Healed
  BY <1>1 DEF Due, Late, Dated, Healed
<1>5. /\ L.day <= today
      /\ quiet >= 1 => L.day = today
  BY DEF LoadInv, DayInv
<1>6. DayInv' /\ HealInv' /\ (Fresh' <=> Fresh)
  BY <1>1, <1>2, <1>5 DEF DayInv, HealInv, Fresh
<1> QED BY <1>1, <1>2, <1>3, <1>4, <1>5, <1>6

\* A row that is not in the report changes nothing.
LEMMA AbsentFollows ==
  ASSUME TypeInv, NEW u \in Units, report[u] = NoRow
  PROVE  Settles(u)
<1>1. turn[u] \in Cells /\ NoRow \in Snapshots
  BY TypeFacts, RowTypes
<1>2. NoRow.status = None /\ NoRow.available = NoDate /\ ~NoRow.ready
  BY DEF NoRow
<1>3. ReportFields(turn[u], NoRow) = NoFields
  BY <1>1, <1>2, NothingToChange DEF Takes
<1> QED BY <1>3 DEF Settles, Follows

LEMMA ReadReportKeeps ==
  ASSUME TypeInv, LoadInv, ReadReport
  PROVE  LoadInv'
<1>1. /\ OnlyReads /\ Stays("loop") /\ L.stage \in {"reconcile", "ensure"} /\ L.step = "enter"
      /\ L'.step = "next" /\ L'.rows = report
      /\ L'.todo = {<<u, 0>> : u \in {v \in Units : report[v] # NoRow}}
  BY ReadReportIs
<1>2. Busy("loop")
  BY <1>1 DEF Busy, L
<1>3. /\ DayInv' /\ HealInv'
      /\ L'.stage = L.stage /\ L'.day = L.day /\ L'.alone = L.alone
      /\ turn' = turn /\ report' = report /\ today' = today /\ quiet' = quiet
      /\ \A u \in Units : /\ Due(u)' <=> Due(u)
                          /\ Late(u)' <=> Late(u)
                          /\ Settles(u)' <=> Settles(u)
      /\ Healed' <=> Healed
  BY <1>1, <1>2, ReadsKeep
<1>4. \A u \in Units : <<u, 0>> \in L'.todo <=> report[u] # NoRow
  BY <1>1
<1>5. \A u \in Units : Due(u) => report[u] # NoRow
  <2>1. NoRow.status = "None"
    BY DEF NoRow, None
  <2>2. ~StatusIsOnNotice("None")
    BY DEF StatusIsOnNotice
  <2> QED BY <2>1, <2>2 DEF Due
<1>6. ReadInv' /\ FieldsInv' /\ MadeInv' /\ MoveInv'
  BY <1>1, <1>3 DEF ReadInv, FieldsInv, MadeInv, MoveInv, InStage
<1>7. EnsureInv'
  BY <1>1, <1>3, <1>4, <1>5 DEF EnsureInv, InStage
<1>8. QuietInv' /\ SettledInv'
  BY <1>1, <1>2, <1>3 DEF LoadInv, QuietInv, SettledInv, InStage
<1>9. FollowInv'
  BY <1>1, <1>3, <1>4, AbsentFollows DEF LoadInv, FollowInv, InStage
<1> QED BY <1>3, <1>6, <1>7, <1>8, <1>9 DEF LoadInv

LEMMA ReconcileReadKeeps ==
  ASSUME TypeInv, LoadInv, ReconcileRead
  PROVE  LoadInv'
<1>1. /\ OnlyReads /\ Stays("loop") /\ L'.rows = L.rows /\ L.stage = "reconcile" /\ L.step = "next"
  BY ReconcileReadIs
<1>2. PICK x \in L.todo :
        /\ Took("loop", x)
        /\ LET fields == ReportFields(turn[x[1]], L.rows[x[1]])
           IN  \/ /\ ~turn[x[1]].open \/ fields = NoFields
                  /\ L'.step = "next"
               \/ /\ turn[x[1]].open /\ fields # NoFields
                  /\ L'.step = "write" /\ L'.target = <<x[1], turn[x[1]].gen>>
                  /\ L'.fields = fields
  BY ReconcileReadIs
<1> DEFINE u == x[1]
           fields == ReportFields(turn[u], L.rows[u])
<1>3. Busy("loop")
  BY <1>1 DEF Busy, L
<1>4. /\ DayInv' /\ HealInv' /\ (Fresh' <=> Fresh)
      /\ L'.stage = L.stage /\ L'.day = L.day /\ (L'.alone = L.alone)
      /\ turn' = turn /\ report' = report /\ today' = today /\ quiet' = quiet
      /\ \A v \in Units : /\ Due(v)' <=> Due(v)
                          /\ Late(v)' <=> Late(v)
                          /\ Settles(v)' <=> Settles(v)
      /\ Healed' <=> Healed
  BY <1>1, <1>3, ReadsKeep
<1>5. /\ u \in Units /\ L'.todo = L.todo \ {x}
      /\ \A v \in Units : v # u => (<<v, 0>> \in L.todo => <<v, 0>> \in L'.todo)
  BY <1>2 DEF Took, L
<1>6. Fresh => L.rows = report
  BY <1>1 DEF LoadInv, ReadInv
<1>7. L'.step \in {"next", "write"}
  BY <1>2
<1>8. Fresh /\ L'.step = "next" => Settles(u)
  BY <1>2, <1>5, <1>6 DEF Settles, Follows
<1>9. L'.step = "write" =>
        /\ turn[u].open /\ L'.fields = fields /\ fields # NoFields
        /\ L'.target[1] = u /\ L'.target[2] = turn[u].gen
  BY <1>2
<1>10. ReadInv' /\ MadeInv' /\ EnsureInv' /\ MoveInv'
  BY <1>1, <1>4, <1>6 DEF ReadInv, MadeInv, EnsureInv, MoveInv, InStage
<1>11. FieldsInv'
  <2> SUFFICES ASSUME Fresh, L'.step = "write"
               PROVE  /\ (turn[L'.target[1]].gen = L'.target[2] /\ turn[L'.target[1]].open)
                      /\ L'.fields = ReportFields(turn[L'.target[1]], report[L'.target[1]])
    BY <1>4 DEF FieldsInv, InStage, Applies
  <2> QED BY <1>6, <1>9
<1>12. QuietInv' /\ SettledInv'
  <2>1. QuietInv'
    BY <1>1, <1>3, <1>4, <1>7 DEF LoadInv, QuietInv, InStage
  <2>2. quiet = 2 => L'.step # "write"
    <3> SUFFICES ASSUME quiet = 2, L'.step = "write" PROVE FALSE
      OBVIOUS
    <3>1. Settles(u) /\ Fresh
      BY <1>5 DEF LoadInv, SettledInv, Fresh
    <3> QED BY <1>6, <1>9, <3>1 DEF Settles, Follows
  <2> QED BY <1>1, <1>4, <2>1, <2>2 DEF LoadInv, SettledInv
<1>13. FollowInv'
  <2> SUFFICES ASSUME L.alone, quiet >= 1, NEW v \in Units
               PROVE  Settles(v) \/ <<v, 0>> \in L'.todo \/ (L'.step = "write" /\ L'.target[1] = v)
    BY <1>1, <1>4 DEF FollowInv, InStage
  <2>1. Fresh /\ (Settles(v) \/ <<v, 0>> \in L.todo)
    BY <1>1 DEF LoadInv, FollowInv, InStage, Fresh
  <2> QED BY <1>5, <1>7, <1>8, <1>9, <2>1
<1> QED BY <1>4, <1>10, <1>11, <1>12, <1>13 DEF LoadInv

\* A stage is over: what it was to bring about is what the next ones start from.
LEMMA NextStageKeeps ==
  ASSUME TypeInv, LoadInv, Busy("loop"), NEW completed \in BOOLEAN,
         NextStage("loop", completed), UNCHANGED <<turn, notice, report, today, operated>>,
         completed => L.step = "next" /\ L.todo = {}
  PROVE  LoadInv'
<1>1. /\ L.stage # "backfill" =>
           /\ L'.step = "enter" /\ L'.day = L.day /\ L'.alone = (L.alone /\ completed)
           /\ L.stage = "reconcile" => L'.stage = "ensure"
           /\ L.stage = "ensure" => L'.stage = "transition"
           /\ L.stage = "transition" => L'.stage = "backfill"
           /\ quiet' = quiet
      /\ L.stage = "backfill" =>
           /\ L' = Idle
           /\ quiet' = IF L.alone /\ completed /\ L.day = today THEN Min({quiet + 1, 2}) ELSE 0
  <2> "loop" \in {"loop", "job"}
    OBVIOUS
  <2> QED BY NextStageIs DEF L
<1>2. L.stage \in {"reconcile", "ensure", "transition", "backfill"}
  <2>1. LocalsOK("loop", L) /\ L.stage # "idle"
    BY TypeFacts DEF L, Actors, Busy
  <2> QED BY <2>1 DEF LocalsOK, PlaceOK
<1>3. /\ \A u \in Units : /\ Due(u)' <=> Due(u)
                          /\ Late(u)' <=> Late(u)
                          /\ Settles(u)' <=> Settles(u)
      /\ Healed' <=> Healed
      /\ turn' = turn /\ report' = report /\ today' = today
  BY DEF Due, Late, Dated, Settles, Follows, Healed
<1>4. CASE L.stage # "backfill"
  <2>1. /\ L'.step = "enter" /\ L'.day = L.day /\ L'.alone = (L.alone /\ completed) /\ quiet' = quiet
        /\ \/ L.stage = "reconcile" /\ L'.stage = "ensure"
           \/ L.stage = "ensure" /\ L'.stage = "transition"
           \/ L.stage = "transition" /\ L'.stage = "backfill"
    BY <1>1, <1>2, <1>4
  <2>2. Busy("loop")'
    BY <2>1 DEF Busy, L
  <2>3. DayInv' /\ HealInv' /\ ReadInv' /\ FieldsInv' /\ MadeInv'
    BY <1>3, <2>1, <2>2 DEF LoadInv, DayInv, HealInv, ReadInv, FieldsInv, MadeInv, InStage
  <2>4. QuietInv' /\ SettledInv'
    BY <1>3, <2>1, <2>2 DEF LoadInv, QuietInv, SettledInv, InStage
  <2>5. EnsureInv' /\ MoveInv' /\ FollowInv'
    <3>1. CASE ~(L.alone /\ completed)
      BY <2>1, <3>1 DEF EnsureInv, MoveInv, FollowInv
    <3>2. CASE L.alone /\ completed
      <4>1. L.step = "next" /\ L.todo = {} /\ L.alone
        BY <3>2
      <4>2. EnsureInv'
        BY <1>3, <2>1, <4>1 DEF LoadInv, EnsureInv, InStage
      <4>3. MoveInv'
        BY <1>3, <2>1, <4>1 DEF LoadInv, MoveInv, InStage
      <4>4. FollowInv'
        BY <1>3, <2>1, <4>1 DEF LoadInv, FollowInv, InStage
      <4> QED BY <4>2, <4>3, <4>4
    <3> QED BY <3>1, <3>2
  <2> QED BY <2>3, <2>4, <2>5 DEF LoadInv
<1>5. CASE L.stage = "backfill"
  <2>1. L'.stage = "idle" /\ L'.step = "-" /\ L'.day = 0 /\ ~L'.alone
    BY <1>1, <1>5 DEF Idle
  <2>2. ~Busy("loop")'
    BY <2>1 DEF Busy, L
  <2>3. today \in Nat
    BY TypeFacts, BoardConstants
  <2>4. DayInv' /\ ReadInv' /\ FieldsInv' /\ MadeInv' /\ EnsureInv' /\ MoveInv' /\ QuietInv' /\ FollowInv'
    BY <1>3, <2>1, <2>2, <2>3 DEF DayInv, ReadInv, FieldsInv, MadeInv, EnsureInv, MoveInv,
       QuietInv, FollowInv, InStage
  <2>5. CASE L.alone /\ completed /\ L.day = today
    <3>1. L.step = "next" /\ L.todo = {} /\ L.alone /\ L.day = today
      BY <2>5
    <3>2. Healed
      BY <1>5, <3>1 DEF LoadInv, EnsureInv, MoveInv, InStage, Healed
    <3>3. quiet' = 2 => \A u \in Units : Settles(u)
      <4>1. quiet' = IF quiet = 0 THEN 1 ELSE 2
        BY <1>1, <1>5, <2>5, CountsQuiet, TypeFacts
      <4>2. quiet' = 2 => quiet >= 1
        BY <4>1, TypeFacts
      <4> QED BY <1>5, <3>1, <4>2 DEF LoadInv, FollowInv
    <3>4. HealInv' /\ SettledInv'
      BY <1>3, <2>1, <3>2, <3>3 DEF HealInv, SettledInv
    <3> QED BY <2>4, <3>4 DEF LoadInv
  <2>6. CASE ~(L.alone /\ completed /\ L.day = today)
    <3>1. quiet' = 0
      BY <1>1, <1>5, <2>6
    <3>2. HealInv' /\ SettledInv'
      BY <3>1 DEF HealInv, SettledInv
    <3> QED BY <2>4, <3>2 DEF LoadInv
  <2> QED BY <2>5, <2>6
<1> QED BY <1>4, <1>5

\* What an update changes, and what it leaves.
LEMMA WrittenIs ==
  ASSUME TypeInv, NEW u \in Units, NEW f, FieldsOK(f), Write(u, f)
  PROVE  /\ \A v \in Units : v # u => turn'[v] = turn[v]
         /\ turn'[u] = Over(f, turn[u])
         /\ turn'[u].moveOut = turn[u].moveOut
         /\ turn'[u].manual = Now(f, turn[u], "manual")
         /\ turn'[u].ready = Now(f, turn[u], "ready")
         /\ \A v \in Units : turn'[v].gen = turn[v].gen /\ (turn'[v].open <=> turn[v].open)
         /\ \A v \in Units : \A g : Applies(v, g)' <=> Applies(v, g)
<1>1. /\ turn' = [turn EXCEPT ![u] = Over(f, @)] /\ turn \in [Units -> Cells] /\ turn[u] \in Cells
  BY TypeFacts DEF Write, TurnOK
<1>2. \A v \in Units : v # u => turn'[v] = turn[v]
  BY <1>1
<1>3. turn'[u] = Over(f, turn[u])
  BY <1>1
<1>4. /\ turn'[u].moveOut = turn[u].moveOut
      /\ turn'[u].manual = Now(f, turn[u], "manual")
      /\ turn'[u].ready = Now(f, turn[u], "ready")
      /\ turn'[u].gen = turn[u].gen /\ turn'[u].open = turn[u].open
  BY <1>1, <1>3, UpdatedColumns
<1>5. \A v \in Units : turn'[v].gen = turn[v].gen /\ (turn'[v].open <=> turn[v].open)
  BY <1>2, <1>4
<1>6. \A v \in Units : \A g : Applies(v, g)' <=> Applies(v, g)
  BY <1>5 DEF Applies
<1> QED BY <1>2, <1>3, <1>4, <1>5, <1>6

\* And so a load that writes: only what the turnover written shows can differ.
LEMMA WriteKeeps ==
  ASSUME TypeInv, NEW u \in Units, NEW f, FieldsOK(f), Write(u, f),
         UNCHANGED <<notice, report, today, quiet>>
  PROVE  /\ \A v \in Units : /\ Due(v)' <=> Due(v)
                             /\ turn'[v].gen = turn[v].gen /\ (turn'[v].open <=> turn[v].open)
         /\ \A v \in Units : v # u => /\ Late(v)' <=> Late(v)
                                      /\ Settles(v)' <=> Settles(v)
                                      /\ Dated(v)' <=> Dated(v)
                                      /\ turn'[v].ready = turn[v].ready
         /\ \A v \in Units : \A g : Applies(v, g)' <=> Applies(v, g)
<1>1. /\ \A v \in Units : v # u => turn'[v] = turn[v]
      /\ \A v \in Units : turn'[v].gen = turn[v].gen /\ (turn'[v].open <=> turn[v].open)
      /\ \A v \in Units : \A g : Applies(v, g)' <=> Applies(v, g)
  BY WrittenIs
<1>2. \A v \in Units : Due(v)' <=> Due(v)
  BY DEF Due
<1>3. \A v \in Units : v # u => /\ Late(v)' <=> Late(v)
                                /\ Settles(v)' <=> Settles(v)
                                /\ Dated(v)' <=> Dated(v)
                                /\ turn'[v].ready = turn[v].ready
  BY <1>1 DEF Late, Settles, Follows, Dated
<1> QED BY <1>1, <1>2, <1>3

\* A manual status is written together with the status it is of.
LEMMA ManualWithStatus ==
  ASSUME NEW t \in Cells, NEW row \in Snapshots, "manual" \in DOMAIN ReportFields(t, row)
  PROVE  "status" \in DOMAIN ReportFields(t, row)
           /\ ReportFields(t, row).manual = ManualReadyOf(row.status)
<1> DEFINE changes == Takes(t, row) /\ t.status # row.status
           clears == Takes(t, row) /\ t.override
           dates == row.available \in {NoDate, t.available}
           readies == row.ready /\ t.ready # "report"
<1>1. DOMAIN StatusFields(t, row)
        = (IF changes THEN {"status", "manual"} ELSE {}) \cup (IF clears THEN {"override"} ELSE {})
  BY StatusFieldsAre
<1>2. DOMAIN ReportFields(t, row) = DOMAIN StatusFields(t, row)
        \cup (IF dates THEN {} ELSE {"available"}) \cup (IF readies THEN {"ready"} ELSE {})
  BY ReportFieldsAre
<1> DEFINE F == ReportFields(t, row)
<1>3. "status" \in DOMAIN F => F.manual = ManualReadyOf(row.status)
  BY ReportFieldsAre
<1> HIDE DEF changes, clears, dates, readies
<1>4. "status" \in DOMAIN F
  BY <1>1, <1>2
<1> QED BY <1>3, <1>4

LEMMA ReconcileWriteKeeps ==
  ASSUME TypeInv, LoadInv, ReconcileWrite
  PROVE  LoadInv'
<1> PICK u \in Units : u = L.target[1]
  BY ReconcileWriteIs
<1> DEFINE g == L.target[2]
<1>1. /\ L.stage = "reconcile" /\ L.step = "write" /\ u \in Units /\ FieldsOK(L.fields)
      /\ UNCHANGED <<notice, report, today>>
      /\ \/ /\ Applies(u, g) /\ Write(u, L.fields)
            /\ Moved("loop") /\ Stays("loop") /\ L'.rows = L.rows /\ L'.todo = L.todo
            /\ L'.step = "next" /\ quiet' = quiet
         \/ /\ ~Applies(u, g) /\ NextStage("loop", FALSE)
            /\ UNCHANGED <<turn, operated>>
  BY ReconcileWriteIs
<1>2. Busy("loop")
  BY <1>1 DEF Busy, L
<1>3. CASE ~Applies(u, g)
  <2>1. NextStage("loop", FALSE) /\ UNCHANGED <<turn, notice, report, today, operated>>
    BY <1>1, <1>3
  <2> QED BY <1>2, <2>1, NextStageKeeps
<1>4. CASE Applies(u, g)
  <2>1. /\ Write(u, L.fields) /\ UNCHANGED <<notice, report, today, quiet>>
        /\ L'.stage = "reconcile" /\ L'.step = "next" /\ L'.day = L.day /\ L'.alone = L.alone
        /\ L'.rows = L.rows /\ L'.todo = L.todo
    BY <1>1, <1>4 DEF Stays, L
  <2>2. Busy("loop")'
    BY <2>1 DEF Busy, L
  <2>3. /\ \A v \in Units : /\ Due(v)' <=> Due(v)
                            /\ (turn'[v].open <=> turn[v].open)
        /\ \A v \in Units : v # u => /\ Late(v)' <=> Late(v)
                                     /\ Settles(v)' <=> Settles(v)
    BY <1>1, <2>1, WriteKeeps
  <2>4. DayInv' /\ HealInv' /\ FieldsInv' /\ MadeInv' /\ EnsureInv' /\ MoveInv'
    BY <1>2, <2>1, <2>2 DEF LoadInv, DayInv, HealInv, FieldsInv, MadeInv, EnsureInv, MoveInv, InStage
  <2>5. ReadInv'
    BY <1>1, <2>1 DEF LoadInv, ReadInv, Fresh
  <2>6. quiet # 2
    BY <1>1 DEF LoadInv, SettledInv
  <2>7. SettledInv'
    BY <2>1, <2>6 DEF SettledInv
  <2>8. ASSUME quiet >= 1
        PROVE  /\ Settles(u)'
               /\ Late(u)' => StatusIsOnNotice(report[u].status)
    <3> PICK t \in Cells, row \in Snapshots : t = turn[u] /\ row = report[u]
      BY TypeFacts
    <3>1. L.fields = ReportFields(t, row) /\ t.open
      BY <1>1, <1>4, <2>8 DEF LoadInv, FieldsInv, InStage, Fresh, Applies
    <3>3. turn'[u] = Over(ReportFields(t, row), t) /\ report' = report
      BY <1>1, <2>1, <3>1, WrittenIs
    <3>4. Settles(u)'
      BY <3>3, ReportTwice DEF Settles, Follows
    <3>5. Late(u)' => StatusIsOnNotice(report[u].status)
      <4> SUFFICES ASSUME Late(u)' PROVE StatusIsOnNotice(row.status)
        OBVIOUS
      <4>1. /\ turn'[u].manual = Now(L.fields, t, "manual") /\ turn'[u].moveOut = t.moveOut
        BY <1>1, <2>1, WrittenIs
      <4>2. CASE "manual" \in DOMAIN L.fields
        <5>1. ManualReadyOf(row.status) = "On Notice"
          <6>2. L.fields.manual = ManualReadyOf(row.status)
            BY <3>1, <4>2, ManualWithStatus
          <6>3. turn'[u].manual = L.fields.manual
            BY <4>1, <4>2 DEF Now
          <6> QED BY <6>2, <6>3 DEF Late, MovesOn
        <5> QED BY <5>1 DEF ManualReadyOf, StatusIsOnNotice, ReadyStatuses, None
      <4>3. CASE "manual" \notin DOMAIN L.fields
        <5>1. turn'[u].manual = t.manual
          BY <4>1, <4>3 DEF Now
        <5>2. Late(u)
          BY <2>1, <3>1, <4>1, <5>1 DEF Late, MovesOn
        <5> QED BY <1>1, <1>2, <2>8, <5>2 DEF LoadInv, QuietInv
      <4> QED BY <4>2, <4>3
    <3> QED BY <3>4, <3>5
  <2>9. QuietInv'
    <3> SUFFICES ASSUME quiet >= 1
                 PROVE  /\ \A v \in Units : Due(v)' => turn'[v].open
                        /\ \A v \in Units : Late(v)' => StatusIsOnNotice(report[v].status)
      BY <2>1 DEF QuietInv, InStage
    <3>1. /\ \A v \in Units : Due(v) => turn[v].open
          /\ \A v \in Units : Late(v) => StatusIsOnNotice(report[v].status)
      BY <1>2 DEF LoadInv, QuietInv
    <3> QED BY <2>3, <2>8, <3>1
  <2>10. FollowInv'
    <3> SUFFICES ASSUME quiet >= 1, L.alone, NEW v \in Units
                 PROVE  Settles(v)' \/ <<v, 0>> \in L.todo
      BY <2>1 DEF FollowInv, InStage
    <3>1. Settles(v) \/ <<v, 0>> \in L.todo \/ u = v
      BY <1>1 DEF LoadInv, FollowInv, InStage
    <3> QED BY <2>3, <2>8, <3>1
  <2> QED BY <2>4, <2>5, <2>7, <2>9, <2>10 DEF LoadInv
<1> QED BY <1>3, <1>4

LEMMA EnsureLookKeeps ==
  ASSUME TypeInv, LoadInv, EnsureLook
  PROVE  LoadInv'
<1>1. /\ OnlyReads /\ Stays("loop") /\ L'.rows = L.rows /\ L.stage = "ensure" /\ L.step = "next"
  BY EnsureLookIs
<1>2. PICK x \in L.todo :
        /\ Took("loop", x)
        /\ LET row == L.rows[x[1]]
               due == StatusIsOnNotice(row.status) /\ Arrived(row, L.day)
           IN  \/ /\ ~due \/ turn[x[1]].open
                  /\ L'.step = "next"
               \/ /\ due /\ ~turn[x[1]].open
                  /\ L'.step = "create" /\ L'.target = <<x[1], 0>>
  BY EnsureLookIs
<1> PICK u \in Units : u = x[1]
  BY <1>2 DEF Took
<1> DEFINE due == StatusIsOnNotice(L.rows[u].status) /\ Arrived(L.rows[u], L.day)
<1>3. Busy("loop")
  BY <1>1 DEF Busy, L
<1>4. /\ DayInv' /\ HealInv' /\ Busy("loop")' /\ (Fresh' <=> Fresh)
      /\ L'.stage = L.stage /\ L'.day = L.day /\ (L'.alone = L.alone)
      /\ turn' = turn /\ report' = report /\ today' = today /\ quiet' = quiet
      /\ quiet >= 1 => L.day = today
      /\ \A v \in Units : /\ Due(v)' <=> Due(v)
                          /\ Late(v)' <=> Late(v)
                          /\ Settles(v)' <=> Settles(v)
      /\ Healed' <=> Healed
  BY <1>1, <1>3, ReadsKeep
<1>5. /\ L'.todo = L.todo \ {x}
      /\ \A v \in Units : v # u => (<<v, 0>> \in L.todo => <<v, 0>> \in L'.todo)
  BY <1>2 DEF Took, L
<1>6. Fresh => L.rows = report
  BY <1>1 DEF LoadInv, ReadInv
<1>7. Fresh /\ L.day = today => (due <=> Due(u))
  BY <1>6 DEF Due
<1>8. \/ (~due \/ turn[u].open) /\ L'.step = "next"
      \/ due /\ ~turn[u].open /\ L'.step = "create" /\ L'.target[1] = u
  BY <1>2
<1> HIDE DEF due
<1>9. ReadInv' /\ FieldsInv' /\ MadeInv' /\ MoveInv' /\ FollowInv'
  <2>1. ReadInv' /\ FieldsInv' /\ MoveInv'
    BY <1>1, <1>4, <1>6 DEF ReadInv, FieldsInv, MoveInv, InStage
  <2>2. MadeInv'
    BY <1>8 DEF MadeInv, InStage
  <2>3. FollowInv'
    BY <1>1, <1>4 DEF LoadInv, FollowInv, InStage
  <2> QED BY <2>1, <2>2, <2>3
<1>10. EnsureInv'
  <2> SUFFICES ASSUME L.alone, L.day = today, NEW v \in Units, Due(v)
               PROVE  turn[v].open \/ <<v, 0>> \in L'.todo \/ (L'.step = "create" /\ L'.target[1] = v)
    BY <1>1, <1>4 DEF EnsureInv, InStage
  <2>1. turn[v].open \/ <<v, 0>> \in L.todo
    BY <1>1 DEF LoadInv, EnsureInv, InStage
  <2>2. v = u => turn[v].open \/ (L'.step = "create" /\ L'.target[1] = v)
    BY <1>7, <1>8 DEF Fresh
  <2> QED BY <1>5, <2>1, <2>2
<1>11. quiet >= 1 => L'.step = "next"
  <2> SUFFICES ASSUME quiet >= 1, due, ~turn[u].open PROVE FALSE
    BY <1>8
  <2>1. Due(u)
    BY <1>4, <1>7 DEF Fresh
  <2> QED BY <1>3, <2>1 DEF LoadInv, QuietInv
<1>12. QuietInv' /\ SettledInv'
  <2>1. QuietInv'
    BY <1>1, <1>3, <1>4, <1>11 DEF LoadInv, QuietInv, InStage
  <2>2. SettledInv'
    BY <1>1, <1>4, <1>8 DEF LoadInv, SettledInv
  <2> QED BY <2>1, <2>2
<1> QED BY <1>4, <1>9, <1>10, <1>12 DEF LoadInv

\* What a load makes: only one that finds something due does, and none after a
\* quiet load.
LEMMA CreateKeeps ==
  ASSUME TypeInv, LoadInv, CreateDue("loop")
  PROVE  LoadInv'
<1> PICK u \in Units : u = L.target[1]
  BY CreateDueIs DEF L
<1>1. /\ Stays("loop") /\ L'.rows = L.rows /\ L'.todo = L.todo /\ L.step = "create"
      /\ UNCHANGED <<notice, report, today, quiet>>
      /\ \/ turn[u].open /\ UNCHANGED <<turn, operated>> /\ L'.step = "next"
         \/ /\ L.fields.available \in Nat /\ Create(u, L.fields.available)
            /\ L'.step = "update" /\ L'.target = <<u, turn[u].gen + 1>>
  <2> "loop" \in {"loop", "job"}
    OBVIOUS
  <2> QED BY CreateDueIs DEF L
<1>2. L.stage = "ensure" /\ Busy("loop")
  <2>1. LocalsOK("loop", L)
    BY TypeFacts DEF L, Actors
  <2>2. L.stage = "ensure"
    BY <1>1, <2>1 DEF LocalsOK, PlaceOK
  <2> QED BY <2>2 DEF Busy, L
<1>3. L'.stage = L.stage /\ L'.day = L.day /\ L'.alone = L.alone
  BY <1>1 DEF Stays, L
<1>4. quiet = 0 /\ quiet' = 0
  <2>1. ~(quiet >= 1)
    BY <1>1, <1>2 DEF LoadInv, QuietInv
  <2> QED BY <1>1, <2>1, TypeFacts
<1>5. DayInv' /\ HealInv' /\ QuietInv' /\ FollowInv' /\ SettledInv'
  BY <1>1, <1>3, <1>4 DEF LoadInv, DayInv, HealInv, QuietInv, FollowInv, SettledInv
<1>6. ReadInv' /\ FieldsInv' /\ MoveInv'
  BY <1>1, <1>2, <1>3, <1>4 DEF LoadInv, ReadInv, FieldsInv, MoveInv, InStage, Fresh
<1>7. /\ \A v \in Units : turn[v].open \/ v = u => turn'[v].open
      /\ L'.step = "update" => L'.target[1] = u /\ ~turn'[u].override
      /\ L'.step \in {"next", "update"}
  <2>1. CASE turn[u].open /\ UNCHANGED <<turn, operated>> /\ L'.step = "next"
    BY <2>1
  <2>2. CASE /\ L.fields.available \in Nat /\ Create(u, L.fields.available)
             /\ L'.step = "update" /\ L'.target = <<u, turn[u].gen + 1>>
    <3>1. PICK d \in Nat : CanCreate(u) /\ turn' = [turn EXCEPT ![u] = Created(u, d)]
      BY <2>2 DEF Create
    <3>2. Created(u, d).open /\ ~Created(u, d).override /\ turn \in [Units -> Cells]
      BY <3>1, TypeFacts, NewCells DEF TurnOK
    <3>3. /\ turn'[u] = Created(u, d)
          /\ \A v \in Units : v # u => turn'[v] = turn[v]
      BY <3>1, <3>2
    <3> QED BY <2>2, <3>2, <3>3
  <2> QED BY <1>1, <2>1, <2>2
<1>8. MadeInv'
  BY <1>7 DEF MadeInv, InStage
<1>9. EnsureInv'
  <2>1. \A v \in Units : Due(v)' <=> Due(v)
    BY <1>1 DEF Due
  <2> SUFFICES ASSUME L.alone, L.day = today, NEW v \in Units, Due(v)
               PROVE  turn'[v].open \/ <<v, 0>> \in L'.todo
    BY <1>1, <1>2, <1>3, <2>1 DEF EnsureInv, InStage
  <2>2. turn[v].open \/ <<v, 0>> \in L.todo \/ u = v
    BY <1>1, <1>2 DEF LoadInv, EnsureInv, InStage
  <2> QED BY <1>1, <1>7, <2>2
<1> QED BY <1>5, <1>6, <1>8, <1>9 DEF LoadInv

LEMMA UpdateKeeps ==
  ASSUME TypeInv, LoadInv, UpdateDue("loop")
  PROVE  LoadInv'
<1> PICK u \in Units : u = L.target[1]
  BY UpdateDueIs DEF L
<1>1. /\ Stays("loop") /\ L'.rows = L.rows /\ L'.todo = L.todo /\ L.step = "update"
      /\ L'.step = "next" /\ FieldsOK(L.fields)
      /\ UNCHANGED <<notice, report, today, quiet>>
      /\ \/ Applies(u, L.target[2]) /\ Write(u, L.fields)
         \/ UNCHANGED <<turn, operated>>
  <2> "loop" \in {"loop", "job"}
    OBVIOUS
  <2> QED BY UpdateDueIs DEF L
<1>2. L.stage = "ensure" /\ Busy("loop")
  <2>1. LocalsOK("loop", L)
    BY TypeFacts DEF L, Actors
  <2>2. L.stage = "ensure"
    BY <1>1, <2>1 DEF LocalsOK, PlaceOK
  <2> QED BY <2>2 DEF Busy, L
<1>3. L'.stage = L.stage /\ L'.day = L.day /\ L'.alone = L.alone
  BY <1>1 DEF Stays, L
<1>4. quiet = 0 /\ quiet' = 0
  <2>1. ~(quiet >= 1)
    BY <1>1, <1>2 DEF LoadInv, QuietInv
  <2> QED BY <1>1, <2>1, TypeFacts
<1>5. DayInv' /\ HealInv' /\ QuietInv' /\ FollowInv' /\ SettledInv'
  BY <1>1, <1>3, <1>4 DEF LoadInv, DayInv, HealInv, QuietInv, FollowInv, SettledInv
<1>6. ReadInv' /\ FieldsInv' /\ MoveInv' /\ MadeInv'
  BY <1>1, <1>2, <1>3, <1>4 DEF LoadInv, ReadInv, FieldsInv, MoveInv, MadeInv, InStage, Fresh
<1>7. \A v \in Units : (turn'[v].open <=> turn[v].open) /\ (Due(v)' <=> Due(v))
  BY <1>1, WriteKeeps DEF Due
<1>8. EnsureInv'
  BY <1>1, <1>2, <1>3, <1>7 DEF LoadInv, EnsureInv, InStage
<1> QED BY <1>5, <1>6, <1>8 DEF LoadInv

LEMMA TransitionReadKeeps ==
  ASSUME TypeInv, LoadInv, TransitionRead("loop")
  PROVE  LoadInv'
<1>1. /\ OnlyReads /\ Stays("loop") /\ L.stage = "transition" /\ L.step = "enter" /\ L'.step = "next"
      /\ L'.todo = {<<u, turn[u].gen>> : u \in {v \in Units : MovesOn(turn[v], L.day)}}
  <2> "loop" \in {"loop", "job"}
    OBVIOUS
  <2> QED BY TransitionReadIs DEF L
<1>2. Busy("loop")
  BY <1>1 DEF Busy, L
<1>3. /\ DayInv' /\ HealInv' /\ L'.stage = L.stage /\ L'.day = L.day /\ L'.alone = L.alone
      /\ turn' = turn /\ report' = report /\ today' = today /\ quiet' = quiet
      /\ quiet >= 1 => L.day = today
      /\ \A v \in Units : /\ Due(v)' <=> Due(v)
                          /\ Late(v)' <=> Late(v)
                          /\ Settles(v)' <=> Settles(v)
      /\ Healed' <=> Healed
      /\ Busy("loop")'
  BY <1>1, <1>2, ReadsKeep
<1>4. ReadInv' /\ FieldsInv' /\ MadeInv' /\ EnsureInv' /\ FollowInv'
  BY <1>1, <1>3 DEF LoadInv, ReadInv, FieldsInv, MadeInv, EnsureInv, FollowInv, InStage
<1>5. L.day = today => /\ \A v \in Units : Late(v) => <<v, turn[v].gen>> \in L'.todo
                       /\ \A x \in L'.todo : x[1] \in Units /\ Late(x[1])
  BY <1>1 DEF Late
<1>6. MoveInv'
  BY <1>1, <1>3, <1>5 DEF MoveInv, InStage
<1>7. QuietInv'
  <2>1. quiet >= 1 => \A x \in L'.todo : Late(x[1])'
    BY <1>3, <1>5
  <2> QED BY <1>1, <1>2, <1>3, <2>1 DEF LoadInv, QuietInv, InStage
<1>8. SettledInv'
  <2>1. quiet = 2 => L'.todo = {}
    <3> SUFFICES ASSUME quiet = 2, NEW x \in L'.todo PROVE FALSE
      OBVIOUS
    <3> QED BY <1>3, <1>5 DEF LoadInv, SettledInv, Healed
  <2> QED BY <1>1, <1>3, <2>1 DEF LoadInv, SettledInv
<1> QED BY <1>3, <1>4, <1>6, <1>7, <1>8 DEF LoadInv

\* A turnover that is moved on is not late any more.
LEMMA TransitionWriteKeeps ==
  ASSUME TypeInv, LoadInv, TransitionWrite("loop")
  PROVE  LoadInv'
<1>1. /\ Stays("loop") /\ L.stage = "transition" /\ L.step = "next" /\ L'.step = "next"
      /\ UNCHANGED <<notice, report, today, quiet>>
      /\ \E x \in L.todo :
           /\ Took("loop", x)
           /\ \/ Applies(x[1], x[2]) /\ Write(x[1], TransitionFields)
              \/ ~Applies(x[1], x[2]) /\ UNCHANGED <<turn, operated>>
  <2> "loop" \in {"loop", "job"}
    OBVIOUS
  <2> QED BY TransitionWriteIs DEF L
<1>2. PICK x \in L.todo :
        /\ Took("loop", x)
        /\ \/ Applies(x[1], x[2]) /\ Write(x[1], TransitionFields)
           \/ ~Applies(x[1], x[2]) /\ UNCHANGED <<turn, operated>>
  BY <1>1
<1> PICK u \in Units, g \in Nat : u = x[1] /\ g = x[2] /\ x = <<u, g>>
  BY <1>2 DEF Took
<1>3. L'.todo = L.todo \ {x} /\ \A v, h : <<v, h>> \in L.todo /\ <<v, h>> # x => <<v, h>> \in L'.todo
  BY <1>2 DEF Took, L
<1>4. /\ Busy("loop") /\ Busy("loop")'
      /\ L'.stage = L.stage /\ L'.day = L.day /\ L'.alone = L.alone
  BY <1>1 DEF Busy, L, Stays
<1>5. FieldsOK(TransitionFields)
  BY FixedFields
<1>6. /\ \A v \in Units : /\ Due(v)' <=> Due(v)
                          /\ turn'[v].gen = turn[v].gen /\ (turn'[v].open <=> turn[v].open)
                          /\ \A h : Applies(v, h)' <=> Applies(v, h)
      /\ \A v \in Units : v # u => /\ Late(v)' <=> Late(v)
                                   /\ Settles(v)' <=> Settles(v)
      /\ ~Applies(u, g) => turn' = turn
  <2>1. CASE Applies(u, g) /\ Write(u, TransitionFields)
    BY <1>1, <1>5, <2>1, WriteKeeps
  <2>2. CASE ~Applies(u, g) /\ UNCHANGED <<turn, operated>>
    BY <1>1, <2>2 DEF Due, Late, Settles, Follows, Applies
  <2> QED BY <1>2, <2>1, <2>2
<1>7. Applies(u, g) => /\ turn'[u] = Over(TransitionFields, turn[u])
                       /\ ~Late(u)'
  <2> SUFFICES ASSUME Applies(u, g) PROVE turn'[u] = Over(TransitionFields, turn[u]) /\ ~Late(u)'
    OBVIOUS
  <2>1. /\ turn'[u] = Over(TransitionFields, turn[u])
        /\ turn'[u].manual = Now(TransitionFields, turn[u], "manual")
    BY <1>2, <1>5, WrittenIs
  <2>2. Now(TransitionFields, turn[u], "manual") = "Vacant Not Ready"
    BY DEF Now, TransitionFields
  <2> QED BY <2>1, <2>2 DEF Late, MovesOn
<1>8. ~Applies(u, g) => (Late(u)' <=> Late(u)) /\ (Settles(u)' <=> Settles(u))
  BY <1>1, <1>6 DEF Late, Settles, Follows
<1>9. \A v \in Units : Late(v)' => Late(v)
  BY <1>6, <1>7, <1>8
<1>10. DayInv' /\ HealInv' /\ ReadInv' /\ FieldsInv' /\ MadeInv'
  BY <1>1, <1>4 DEF LoadInv, DayInv, HealInv, ReadInv, FieldsInv, MadeInv, InStage
<1>11. EnsureInv'
  BY <1>1, <1>4, <1>6 DEF LoadInv, EnsureInv, InStage
<1>12. MoveInv'
  <2> SUFFICES ASSUME L.alone, L.day = today, NEW v \in Units, Late(v)'
               PROVE  <<v, turn'[v].gen>> \in L'.todo
    BY <1>1, <1>4 DEF MoveInv, InStage
  <2>1. <<v, turn[v].gen>> \in L.todo
    BY <1>1, <1>9 DEF LoadInv, MoveInv, InStage
  <2>2. <<v, turn[v].gen>> # x
    <3> SUFFICES ASSUME <<v, turn[v].gen>> = <<u, g>> PROVE FALSE
      OBVIOUS
    <3>1. v = u /\ turn[u].gen = g /\ Late(u)
      BY <1>9
    <3>2. Applies(u, g)
      BY <3>1 DEF Late, MovesOn, Applies
    <3> QED BY <1>7, <3>1, <3>2
  <2> QED BY <1>3, <1>6, <2>1, <2>2
<1>13. QuietInv'
  <2> SUFFICES ASSUME quiet >= 1
               PROVE  /\ \A v \in Units : Due(v)' => turn'[v].open
                      /\ \A v \in Units : Late(v)' => StatusIsOnNotice(report[v].status)
                      /\ \A y \in L'.todo : Applies(y[1], y[2])' => Late(y[1])'
    BY <1>1, <1>4 DEF QuietInv, InStage
  <2>1. /\ \A v \in Units : Due(v) => turn[v].open
        /\ \A v \in Units : Late(v) => StatusIsOnNotice(report[v].status)
        /\ \A y \in L.todo : Applies(y[1], y[2]) => Late(y[1])
    BY <1>1, <1>4 DEF LoadInv, QuietInv, InStage
  <2>2. ASSUME NEW y \in L'.todo, Applies(y[1], y[2])' PROVE Late(y[1])'
    <3>1. LocalsOK("loop", L)
      BY TypeFacts DEF L, Actors
    <3>2. y \in L.todo /\ y # x /\ L.todo \subseteq Units \X Nat
      BY <1>3, <3>1 DEF LocalsOK
    <3> PICK v \in Units, h \in Nat : y = <<v, h>>
      BY <3>2
    <3>3. Applies(v, h) /\ Late(v)
      BY <1>6, <2>1, <2>2, <3>2
    <3>4. v = u => ~Applies(u, g)
      BY <3>2, <3>3 DEF Applies
    <3>5. Late(v)'
      BY <1>6, <1>8, <3>3, <3>4
    <3> QED BY <3>5
  <2> QED BY <1>6, <1>9, <2>1, <2>2
<1>14. FollowInv'
  <2> SUFFICES ASSUME L.alone, quiet >= 1, NEW v \in Units
               PROVE  Settles(v)'
    BY <1>1, <1>4 DEF FollowInv, InStage
  <2>1. \A w \in Units : Settles(w)
    BY <1>1 DEF LoadInv, FollowInv
  <2>2. CASE v # u \/ ~Applies(u, g)
    BY <1>6, <1>8, <2>1, <2>2
  <2>3. CASE v = u /\ Applies(u, g)
    <3>1. Late(u) /\ StatusIsOnNotice(report[u].status)
      BY <1>1, <1>4, <2>3 DEF LoadInv, QuietInv, InStage
    <3>2. ReportFields(turn[u], report[u]) = NoFields
      BY <2>1, <2>3 DEF Settles, Follows, Applies
    <3>3. turn[u] \in Cells /\ report[u] \in Snapshots
      BY TypeFacts
    <3>4. ReportFields(Over(TransitionFields, turn[u]), report[u]) = NoFields
      BY <3>1, <3>2, <3>3, MovedOnFollows
    <3> QED BY <1>1, <1>7, <2>3, <3>4 DEF Settles, Follows
  <2> QED BY <2>2, <2>3
<1>15. SettledInv'
  <2>1. quiet # 2
    BY <1>1 DEF LoadInv, SettledInv
  <2> QED BY <1>1, <2>1 DEF SettledInv
<1> QED BY <1>10, <1>11, <1>12, <1>13, <1>14, <1>15 DEF LoadInv

LEMMA BackfillReadKeeps ==
  ASSUME TypeInv, LoadInv, BackfillRead
  PROVE  LoadInv'
<1>1. /\ OnlyReads /\ Stays("loop") /\ L.stage = "backfill" /\ L.step = "enter" /\ L'.step = "next"
      /\ L'.todo = {<<u, turn[u].gen>> : u \in {v \in Units : turn[v].open /\ turn[v].ready = None}}
  BY BackfillReadIs
<1>2. Busy("loop")
  BY <1>1 DEF Busy, L
<1>3. /\ DayInv' /\ HealInv' /\ L'.stage = L.stage /\ L'.day = L.day /\ L'.alone = L.alone
      /\ turn' = turn /\ report' = report /\ today' = today /\ quiet' = quiet
      /\ \A v \in Units : /\ Due(v)' <=> Due(v)
                          /\ Late(v)' <=> Late(v)
                          /\ Settles(v)' <=> Settles(v)
                          /\ Dated(v)' <=> Dated(v)
      /\ Healed' <=> Healed
      /\ Busy("loop")'
  BY <1>1, <1>2, ReadsKeep
<1>4. ReadInv' /\ FieldsInv' /\ MadeInv' /\ EnsureInv' /\ FollowInv'
  BY <1>1, <1>3 DEF LoadInv, ReadInv, FieldsInv, MadeInv, EnsureInv, FollowInv, InStage
<1>5. /\ \A v \in Units : Dated(v) \/ <<v, turn[v].gen>> \in L'.todo
      /\ \A x \in L'.todo : x[1] \in Units /\ turn[x[1]].open /\ turn[x[1]].ready = None
  BY <1>1 DEF Dated
<1>6. MoveInv'
  BY <1>1, <1>3, <1>5 DEF LoadInv, MoveInv, InStage
<1>7. QuietInv'
  BY <1>1, <1>2, <1>3, <1>5 DEF LoadInv, QuietInv, InStage
<1>8. SettledInv'
  <2>1. quiet = 2 => L'.todo = {}
    <3> SUFFICES ASSUME quiet = 2, NEW x \in L'.todo PROVE FALSE
      OBVIOUS
    <3> QED BY <1>5 DEF LoadInv, SettledInv, Healed, Dated
  <2> QED BY <1>1, <1>3, <2>1 DEF LoadInv, SettledInv
<1> QED BY <1>3, <1>4, <1>6, <1>7, <1>8 DEF LoadInv

\* A turnover that is given its date is as the report has it as much as before.
LEMMA BackfillWriteKeeps ==
  ASSUME TypeInv, LoadInv, BackfillWrite
  PROVE  LoadInv'
<1> DEFINE Dates == [ready |-> "placeholder"]
<1>1. /\ Stays("loop") /\ L.stage = "backfill" /\ L.step = "next" /\ L'.step = "next"
      /\ UNCHANGED <<notice, report, today, quiet>>
  BY BackfillWriteIs
<1>2. PICK x \in L.todo :
        /\ Took("loop", x)
        /\ \/ Applies(x[1], x[2]) /\ Write(x[1], Dates)
           \/ ~Applies(x[1], x[2]) /\ UNCHANGED <<turn, operated>>
  BY BackfillWriteIs
<1>3. FieldsOK(Dates) /\ DOMAIN Dates = {"ready"} /\ Dates.ready = "placeholder"
  BY FixedFields
<1> PICK u \in Units, g \in Nat : u = x[1] /\ g = x[2] /\ x = <<u, g>>
  BY <1>2 DEF Took
<1> HIDE DEF Dates
<1>4. L'.todo = L.todo \ {x} /\ \A v, h : <<v, h>> \in L.todo /\ <<v, h>> # x => <<v, h>> \in L'.todo
  BY <1>2 DEF Took, L
<1>5. /\ Busy("loop") /\ Busy("loop")'
      /\ L'.stage = L.stage /\ L'.day = L.day /\ L'.alone = L.alone
  BY <1>1 DEF Busy, L, Stays
<1>6. /\ \A v \in Units : /\ Due(v)' <=> Due(v)
                          /\ turn'[v].gen = turn[v].gen /\ (turn'[v].open <=> turn[v].open)
                          /\ \A h : Applies(v, h)' <=> Applies(v, h)
      /\ \A v \in Units : v # u => /\ Late(v)' <=> Late(v)
                                   /\ Settles(v)' <=> Settles(v)
                                   /\ Dated(v)' <=> Dated(v)
                                   /\ turn'[v].ready = turn[v].ready
      /\ ~Applies(u, g) => turn' = turn
  <2>1. CASE Applies(u, g) /\ Write(u, Dates)
    BY <1>1, <1>3, <2>1, WriteKeeps
  <2>2. CASE ~Applies(u, g) /\ UNCHANGED <<turn, operated>>
    BY <1>1, <2>2 DEF Due, Late, Settles, Follows, Applies, Dated
  <2> QED BY <1>2, <2>1, <2>2
<1>7. Applies(u, g) => /\ turn'[u] = Over(Dates, turn[u])
                       /\ Dated(u)'
                       /\ Late(u)' <=> Late(u)
  <2> SUFFICES ASSUME Applies(u, g)
               PROVE turn'[u] = Over(Dates, turn[u]) /\ Dated(u)' /\ (Late(u)' <=> Late(u))
    OBVIOUS
  <2>1. /\ turn'[u] = Over(Dates, turn[u])
        /\ turn'[u].manual = Now(Dates, turn[u], "manual")
        /\ turn'[u].ready = Now(Dates, turn[u], "ready")
        /\ turn'[u].moveOut = turn[u].moveOut
        /\ turn'[u].open <=> turn[u].open
    BY <1>2, <1>3, WrittenIs
  <2>2. turn'[u].ready = "placeholder" /\ turn'[u].manual = turn[u].manual
    BY <1>3, <2>1 DEF Now
  <2>3. Dated(u)'
    BY <2>2 DEF Dated, None
  <2>4. Late(u)' <=> Late(u)
    BY <1>1, <2>1, <2>2 DEF Late, MovesOn
  <2> QED BY <2>1, <2>3, <2>4
<1>8. ~Applies(u, g) => (Late(u)' <=> Late(u)) /\ (Settles(u)' <=> Settles(u)) /\ (Dated(u)' <=> Dated(u))
  BY <1>1, <1>6 DEF Late, Settles, Follows, Dated
<1>9. \A v \in Units : Late(v)' <=> Late(v)
  BY <1>6, <1>7, <1>8
<1>10. DayInv' /\ HealInv' /\ ReadInv' /\ FieldsInv' /\ MadeInv'
  BY <1>1, <1>5 DEF LoadInv, DayInv, HealInv, ReadInv, FieldsInv, MadeInv, InStage
<1>11. EnsureInv'
  BY <1>1, <1>5, <1>6 DEF LoadInv, EnsureInv, InStage
<1>12. MoveInv'
  <2> SUFFICES ASSUME L.alone, L.day = today
               PROVE  /\ \A v \in Units : ~Late(v)'
                      /\ \A v \in Units : Dated(v)' \/ <<v, turn'[v].gen>> \in L'.todo
    BY <1>1, <1>5 DEF MoveInv, InStage
  <2>1. /\ \A v \in Units : ~Late(v)
        /\ \A v \in Units : Dated(v) \/ <<v, turn[v].gen>> \in L.todo
    BY <1>1 DEF LoadInv, MoveInv, InStage
  <2>2. ASSUME NEW v \in Units, ~Dated(v)' PROVE <<v, turn'[v].gen>> \in L'.todo
    <3>1. ~Dated(v) /\ (v # u \/ ~Applies(u, g))
      BY <1>6, <1>7, <1>8, <2>2
    <3>2. <<v, turn[v].gen>> \in L.todo
      BY <2>1, <3>1
    <3>3. <<v, turn[v].gen>> # x
      <4> SUFFICES ASSUME <<v, turn[v].gen>> = <<u, g>> PROVE FALSE
        OBVIOUS
      <4> QED BY <3>1 DEF Dated, Applies
    <3> QED BY <1>4, <1>6, <3>2, <3>3
  <2> QED BY <1>9, <2>1, <2>2
<1>13. QuietInv'
  <2> SUFFICES ASSUME quiet >= 1
               PROVE  /\ \A v \in Units : Due(v)' => turn'[v].open
                      /\ \A v \in Units : Late(v)' => StatusIsOnNotice(report[v].status)
                      /\ \A y \in L'.todo : Applies(y[1], y[2])' => turn'[y[1]].ready = None
    BY <1>1, <1>5 DEF QuietInv, InStage
  <2>1. /\ \A v \in Units : Due(v) => turn[v].open
        /\ \A v \in Units : Late(v) => StatusIsOnNotice(report[v].status)
        /\ \A y \in L.todo : Applies(y[1], y[2]) => turn[y[1]].ready = None
    BY <1>1, <1>5 DEF LoadInv, QuietInv, InStage
  <2>2. ASSUME NEW y \in L'.todo, Applies(y[1], y[2])' PROVE turn'[y[1]].ready = None
    <3>1. LocalsOK("loop", L)
      BY TypeFacts DEF L, Actors
    <3>2. y \in L.todo /\ y # x /\ L.todo \subseteq Units \X Nat
      BY <1>4, <3>1 DEF LocalsOK
    <3> PICK v \in Units, h \in Nat : y = <<v, h>>
      BY <3>2
    <3>3. Applies(v, h) /\ turn[v].ready = None
      BY <1>6, <2>1, <2>2, <3>2
    <3>4. v = u => ~Applies(u, g)
      BY <3>2, <3>3 DEF Applies
    <3>5. turn'[v].ready = None
      BY <1>6, <3>3, <3>4
    <3> QED BY <3>5
  <2> QED BY <1>6, <1>9, <2>1, <2>2
<1>14. FollowInv'
  <2> SUFFICES ASSUME L.alone, quiet >= 1, NEW v \in Units
               PROVE  Settles(v)'
    BY <1>1, <1>5 DEF FollowInv, InStage
  <2>1. \A w \in Units : Settles(w)
    BY <1>1 DEF LoadInv, FollowInv
  <2>2. CASE v # u \/ ~Applies(u, g)
    BY <1>6, <1>8, <2>1, <2>2
  <2>3. CASE v = u /\ Applies(u, g)
    <3>1. turn[u].ready = None
      BY <1>1, <1>5, <2>3 DEF LoadInv, QuietInv, InStage
    <3>2. ReportFields(turn[u], report[u]) = NoFields
      BY <2>1, <2>3 DEF Settles, Follows, Applies
    <3>3. turn[u] \in Cells /\ report[u] \in Snapshots
      BY TypeFacts
    <3>4. ReportFields(Over(Dates, turn[u]), report[u]) = NoFields
      BY <3>1, <3>2, <3>3, BackfilledFollows DEF Dates
    <3> QED BY <1>1, <1>7, <2>3, <3>4 DEF Settles, Follows
  <2> QED BY <2>2, <2>3
<1>15. SettledInv'
  <2>1. quiet # 2
    BY <1>1 DEF LoadInv, SettledInv
  <2> QED BY <1>1, <2>1 DEF SettledInv
<1> QED BY <1>10, <1>11, <1>12, <1>13, <1>14, <1>15 DEF LoadInv

LEMMA LoadKeeps ==
  ASSUME TypeInv, LoadInv, LoadBegin \/ Load
  PROVE  LoadInv'
<1>1. CASE StageDone("loop")
  <2>1. /\ Busy("loop") /\ NextStage("loop", TRUE) /\ UNCHANGED <<turn, notice, report, today, operated>>
        /\ L.step = "next" /\ L.todo = {}
    BY <1>1 DEF StageDone, L
  <2> QED BY <2>1, NextStageKeeps
<1> QED BY <1>1, LoadBeginKeeps, ReadReportKeeps, ReconcileReadKeeps, ReconcileWriteKeeps,
      EnsureLookKeeps, CreateKeeps, UpdateKeeps, TransitionReadKeeps, TransitionWriteKeeps,
      BackfillReadKeeps, BackfillWriteKeeps DEF Load

LEMMA StepKeeps == TypeInv /\ LoadInv /\ [Next]_vars => LoadInv'
<1> SUFFICES ASSUME TypeInv, LoadInv, [Next]_vars PROVE LoadInv'
  OBVIOUS
<1>1. TypeInv'
  BY StepTypes
<1>2. ASSUME Busy("loop"), NextStage("loop", FALSE), UNCHANGED <<turn, notice, report, today, operated>>
      PROVE  LoadInv'
  BY <1>2, NextStageKeeps
<1> QED BY <1>1, <1>2, Steps, ElsewhereKeeps, LoadKeeps

LEMMA AlwaysLoads == Spec => [](TypeInv /\ LoadInv)
BY InitTypes, StepTypes, InitLoad, StepKeeps, PTL DEF Spec

\* After a load that nobody has disturbed, in which nothing failed, and until
\* somebody writes or the day changes: every unit whose notice has run out has its
\* turnover, none waits On Notice within the catch-up window, and each has a ready
\* date (run_board_reconciliation_for_property).
THEOREM BoardHealed == Spec => []LoadHeals
<1>1. TypeInv /\ LoadInv => LoadHeals
  <2> SUFFICES ASSUME TypeInv, LoadInv, quiet >= 1, ~Busy("loop"), NEW u \in Units
               PROVE  /\ Due(u) => turn[u].open
                      /\ turn[u].open => turn[u].ready # None
                      /\ turn[u].open /\ turn[u].manual = "On Notice" =>
                           today - turn[u].moveOut \notin 0..AutoTransitionMaxDV
    BY DEF LoadHeals, Due
  <2>1. (Due(u) => turn[u].open) /\ ~Late(u) /\ Dated(u)
    BY DEF LoadInv, HealInv, Healed
  <2>2. today \in Nat /\ turn[u].moveOut \in Nat
    <3>1. today \in Days /\ turn[u] \in Cells
      BY TypeFacts
    <3> QED BY <3>1, BoardConstants DEF Cells
  <2>3. turn[u].open /\ turn[u].manual = "On Notice" =>
          ~(turn[u].moveOut <= today /\ today - turn[u].moveOut <= AutoTransitionMaxDV)
    BY <2>1 DEF Late, MovesOn
  <2>4. turn[u].open /\ turn[u].manual = "On Notice" =>
          today - turn[u].moveOut \notin 0..AutoTransitionMaxDV
    <3>1. \A d, m \in Nat : ~(m <= d /\ d - m <= 10) => d - m \notin 0..10
      OBVIOUS
    <3> QED BY <2>2, <2>3, <3>1 DEF AutoTransitionMaxDV
  <2> QED BY <2>1, <2>4 DEF Dated
<1> QED BY <1>1, AlwaysLoads, PTL

\* After two such loads every open turnover of the report has the report's status,
\* unless an operator's override keeps its own.
THEOREM BoardFollowsReport == Spec => []LoadFollowsReport
<1>1. TypeInv /\ LoadInv => LoadFollowsReport
  <2> SUFFICES ASSUME TypeInv, LoadInv, quiet = 2, NEW u \in Units,
                      turn[u].open, ~turn[u].override, report[u].status # None
               PROVE  turn[u].status = report[u].status
    BY DEF LoadFollowsReport
  <2>1. ReportFields(turn[u], report[u]) = NoFields
    BY DEF LoadInv, SettledInv, Settles, Follows
  <2>2. turn[u] \in Cells /\ report[u] \in Snapshots
    BY TypeFacts
  <2>3. Takes(turn[u], report[u]) => turn[u].status = report[u].status
    BY <2>1, <2>2, NothingToChange
  <2> QED BY <2>3 DEF Takes
<1> QED BY <1>1, AlwaysLoads, PTL

\* A third such load changes no turnover, whatever the import, the job, the
\* operators and earlier loads have left: refreshing the board does not toggle it.
THEOREM BoardSettles == Spec => LoadsSettle
<1>1. TypeInv /\ LoadInv /\ [Next]_vars => [quiet = 2 /\ (Load \/ LoadBegin) => turn' = turn]_vars
  <2> SUFFICES ASSUME TypeInv, LoadInv, quiet = 2, Load \/ LoadBegin PROVE turn' = turn
    OBVIOUS
  <2>1. /\ L.step # "write"
        /\ L.stage \in {"transition", "backfill"} /\ L.step = "next" => L.todo = {}
    BY DEF LoadInv, SettledInv
  <2>2. Busy("loop") => L.step \in {"enter", "next", "write"}
    BY DEF LoadInv, QuietInv
  <2>3. L.step \in {"create", "update"} => Busy("loop")
    <3>1. LocalsOK("loop", L)
      BY TypeFacts DEF L, Actors
    <3> QED BY <3>1 DEF LocalsOK, PlaceOK, Busy, L
  <2>4. L.step \notin {"create", "update"}
    BY <2>2, <2>3
  <2> "loop" \in {"loop", "job"}
    OBVIOUS
  <2>5. CASE LoadBegin \/ ReadReport \/ ReconcileRead \/ EnsureLook \/ TransitionRead("loop")
               \/ BackfillRead \/ StageDone("loop")
    BY <2>5 DEF LoadBegin, ReadReport, ReconcileRead, EnsureLook, TransitionRead, BackfillRead, StageDone
  <2>6. ~ReconcileWrite
    BY <2>1, ReconcileWriteIs
  <2>7. ~CreateDue("loop")
    BY <2>4 DEF CreateDue, L
  <2>8. ~UpdateDue("loop")
    BY <2>4 DEF UpdateDue, L
  <2>9. ~TransitionWrite("loop")
    BY <2>1 DEF TransitionWrite, At, L
  <2>10. ~BackfillWrite
    BY <2>1 DEF BackfillWrite, At, L
  <2> QED BY <2>5, <2>6, <2>7, <2>8, <2>9, <2>10 DEF Load
<1> QED BY <1>1, AlwaysLoads, PTL DEF Spec, LoadsSettle

-----------------------------------------------------------------------------
(* Overrides *)

\* What an import that is alone has decided still holds: the fields that it commits
\* are those of the turnovers as they are, and what it has made is not overridden.
ImportInv ==
  /\ M.alone /\ M.step = "look" => \A u \in Units : M.fields[u] = Decision(M.rows, u)
  /\ M.alone /\ M.step = "update" => ~turn[M.target[1]].override

LEMMA ImportAside ==
  ASSUME TypeInv, ImportInv, Aside("import")
  PROVE  ImportInv'
<1>1. CASE Busy("import")
  BY <1>1 DEF Aside, ImportInv, M
<1>2. CASE ~Busy("import")
  <2>1. M' = M
    BY <1>2 DEF Aside, M
  <2>2. M.step = "-"
    <3>1. LocalsOK("import", M) /\ M.stage = "idle"
      BY <1>2, TypeFacts DEF M, Actors, Busy
    <3> QED BY <3>1 DEF LocalsOK, PlaceOK
  <2> QED BY <2>1, <2>2 DEF ImportInv
<1> QED BY <1>1, <1>2

\* A step of the load leaves the import aside.
LEMMA LoadAside ==
  ASSUME TypeInv, LoadBegin \/ Load \/ (Busy("loop") /\ NextStage("loop", FALSE))
  PROVE  Aside("import")
<1> "loop" \in Actors /\ "import" \in Actors /\ "import" # "loop" /\ "loop" \in {"loop", "job"}
  BY DEF Actors
<1>1. ASSUME NEW completed \in BOOLEAN, Busy("loop"), NextStage("loop", completed)
      PROVE  Set("loop", proc'["loop"])
  BY <1>1, NextStageIs
<1>2. Set("loop", proc'["loop"])
  <2>1. CASE StageDone("loop")
    <3>1. Busy("loop") /\ NextStage("loop", TRUE)
      BY <2>1 DEF StageDone
    <3> QED BY <1>1, <3>1
  <2>2. CASE ReconcileWrite
    <3>1. Busy("loop")
      BY <2>2, ReconcileWriteIs DEF Busy, L
    <3> QED BY <1>1, <2>2, <3>1, ReconcileWriteIs DEF Moved
  <2>3. CASE LoadBegin \/ ReadReport \/ ReconcileRead \/ EnsureLook \/ BackfillRead \/ BackfillWrite
    BY <2>3, LoadBeginIs, ReadReportIs, ReconcileReadIs, EnsureLookIs, BackfillReadIs,
       BackfillWriteIs DEF Moved
  <2>4. CASE CreateDue("loop") \/ UpdateDue("loop") \/ TransitionRead("loop") \/ TransitionWrite("loop")
    BY <2>4, CreateDueIs, UpdateDueIs, TransitionReadIs, TransitionWriteIs DEF Moved
  <2> QED BY <1>1, <2>1, <2>2, <2>3, <2>4 DEF Load
<1> QED BY <1>2, SetAside

LEMMA ImportKeeps ==
  ASSUME TypeInv, ImportInv, ImportRead \/ Import
  PROVE  ImportInv'
<1>1. CASE ImportRead
  <2>1. OnlyReads /\ M'.step = "look" /\ \A u \in Units : M'.fields[u] = Decision(M'.rows, u)
    BY <1>1, ImportReadIs
  <2>2. \A u \in Units : Decision(M.rows, u)' = Decision(M'.rows, u)
    BY <2>1 DEF Decision, OnlyReads
  <2> QED BY <2>1, <2>2 DEF ImportInv
<1>2. CASE ImportCreate
  <2>1. PICK u \in Units :
          \/ M'.step = "look" /\ M'.rows = M.rows /\ M'.fields = M.fields /\ turn' = turn
          \/ /\ \E d \in Nat : Create(u, d)
             /\ M'.step = "update" /\ M'.target = <<u, turn[u].gen + 1>>
    BY <1>2, ImportCreateIs
  <2>0. M.step = "look" /\ M'.alone = M.alone
    BY <1>2, ImportCreateIs
  <2>2. CASE M'.step = "look" /\ M'.rows = M.rows /\ M'.fields = M.fields /\ turn' = turn
    <3>1. \A v \in Units : Decision(M.rows, v)' = Decision(M.rows, v)
      BY <2>2 DEF Decision
    <3> QED BY <2>0, <2>2, <3>1 DEF ImportInv
  <2>3. CASE /\ \E d \in Nat : Create(u, d)
             /\ M'.step = "update" /\ M'.target = <<u, turn[u].gen + 1>>
    <3>1. PICK d \in Nat : CanCreate(u) /\ turn' = [turn EXCEPT ![u] = Created(u, d)]
      BY <2>3 DEF Create
    <3>2. ~Created(u, d).override /\ turn \in [Units -> Cells]
      BY <3>1, TypeFacts, NewCells DEF TurnOK
    <3>3. ~turn'[u].override /\ M'.target[1] = u
      BY <2>3, <3>1, <3>2
    <3> QED BY <2>3, <3>3 DEF ImportInv
  <2> QED BY <2>1, <2>2, <2>3
<1>3. CASE ImportUpdate \/ ImportCommit
  <2>1. M' = Idle
    BY <1>3, ImportUpdateIs, ImportCommitIs
  <2> QED BY <2>1 DEF ImportInv, Idle
<1> QED BY <1>1, <1>2, <1>3 DEF Import

LEMMA ImportStep == TypeInv /\ ImportInv /\ [Next]_vars => ImportInv'
<1> SUFFICES ASSUME TypeInv, ImportInv, [Next]_vars PROVE ImportInv'
  OBVIOUS
<1>1. CASE UNCHANGED vars \/ Midnight
  BY <1>1 DEF vars, Midnight, ImportInv, Decision, M
<1>2. ASSUME NEW a \in Actors, Fail(a) PROVE ImportInv'
  <2>1. CASE a = "loop"
    <3>1. Busy("loop") /\ NextStage("loop", FALSE)
      BY <1>2, <2>1, FailIs
    <3> QED BY <3>1, LoadAside, ImportAside
  <2>2. CASE a = "job"
    BY <1>2, <2>2, FailIs, ImportAside
  <2>3. CASE a = "import"
    <3>1. M' = Idle
      BY <1>2, <2>3, FailIs
    <3> QED BY <3>1 DEF ImportInv, Idle
  <2> QED BY <2>1, <2>2, <2>3 DEF Actors
<1> QED BY <1>1, <1>2, ImportKeeps, ImportAside, LoadAside, JobElsewhere, HandlersElsewhere DEF Next

LEMMA AlwaysImports == Spec => []ImportInv
<1>1. Init => ImportInv
  <2> SUFFICES ASSUME Init PROVE ImportInv
    OBVIOUS
  <2>1. M = Idle
    BY DEF Init, M, Actors
  <2> QED BY <2>1 DEF ImportInv, Idle
<1> QED BY <1>1, ImportStep, AlwaysTyped, PTL DEF Spec

\* An overridden turnover that has got another status.
Overridden(u) == turn[u].override /\ turn'[u].open /\ turn'[u].gen = turn[u].gen
                   /\ turn'[u].status # turn[u].status
ByLeave(u) ==
  \/ operated'[u]
  \/ turn'[u] = Over(TransitionFields, turn[u])
  \/ proc["job"].step = "update" /\ proc'["job"] # proc["job"]
  \/ \E a \in {"loop", "import"} : Busy(a) /\ ~proc[a].alone /\ proc'[a] # proc[a]

LEMMA SameStatus ==
  ASSUME NEW u \in Units, turn'[u] = turn[u]
  PROVE  ~Overridden(u)
BY DEF Overridden

\* A new turnover is another one.
LEMMA NewIsOther ==
  ASSUME TypeInv, NEW v \in Units, NEW d \in Nat, Create(v, d), NEW u \in Units
  PROVE  ~Overridden(u)
<1>1. CanCreate(v) /\ turn' = [turn EXCEPT ![v] = Created(v, d)]
  BY DEF Create
<1>2. Created(v, d).gen = turn[v].gen + 1 /\ turn \in [Units -> Cells] /\ turn[v].gen \in Nat
  BY <1>1, TypeFacts, NewCells DEF TurnOK
<1>3. u # v => turn'[u] = turn[u]
  BY <1>1, <1>2
<1>4. turn'[v].gen # turn[v].gen
  BY <1>1, <1>2
<1> QED BY <1>3, <1>4 DEF Overridden

\* An update changes a status only by its fields.
LEMMA OnlyWritten ==
  ASSUME TypeInv, NEW v \in Units, NEW f, FieldsOK(f), Write(v, f), NEW u \in Units, Overridden(u)
  PROVE  u = v /\ turn[v].override /\ "status" \in DOMAIN f /\ turn'[v] = Over(f, turn[v])
<1>1. /\ \A w \in Units : w # v => turn'[w] = turn[w]
      /\ turn'[v] = Over(f, turn[v])
  BY WrittenIs
<1>2. u = v
  BY <1>1 DEF Overridden
<1>3. turn[v] \in Cells
  BY TypeFacts
<1>4. turn'[v].status = Now(f, turn[v], "status")
  BY <1>1, <1>3, UpdatedColumns
<1> QED BY <1>1, <1>2, <1>4 DEF Overridden, Now

LEMMA LoadSticks ==
  ASSUME TypeInv, LoadInv, LoadBegin \/ Load, NEW u \in Units, Overridden(u)
  PROVE  ByLeave(u)
<1> "loop" \in {"loop", "job"}
  OBVIOUS
<1>1. ~(LoadBegin \/ ReadReport \/ ReconcileRead \/ EnsureLook \/ TransitionRead("loop")
          \/ BackfillRead \/ StageDone("loop"))
  <2> SUFFICES ASSUME \/ LoadBegin \/ ReadReport \/ ReconcileRead \/ EnsureLook
                      \/ TransitionRead("loop") \/ BackfillRead \/ StageDone("loop")
               PROVE  turn' = turn
    BY SameStatus
  <2> QED BY DEF LoadBegin, ReadReport, ReconcileRead, EnsureLook, TransitionRead, BackfillRead, StageDone
<1>2. CASE ReconcileWrite
  <2>1. Applies(L.target[1], L.target[2])
    <3> SUFFICES ASSUME ~Applies(L.target[1], L.target[2]) PROVE turn' = turn
      BY SameStatus
    <3> QED BY <1>2, ReconcileWriteIs
  <2>2. /\ L.stage = "reconcile" /\ L.step = "write" /\ FieldsOK(L.fields) /\ L.target[1] \in Units
        /\ Write(L.target[1], L.fields) /\ L'.step = "next"
    BY <1>2, <2>1, ReconcileWriteIs
  <2>3. u = L.target[1] /\ turn[u].override /\ "status" \in DOMAIN L.fields
    BY <2>2, OnlyWritten
  <2>4. ~L.alone
    <3> SUFFICES ASSUME L.alone PROVE FALSE
      OBVIOUS
    <3>1. L.fields = ReportFields(turn[u], report[u])
      BY <2>2, <2>3 DEF LoadInv, FieldsInv, InStage, Fresh
    <3>2. turn[u] \in Cells /\ report[u] \in Snapshots
      BY TypeFacts
    <3> QED BY <2>3, <3>1, <3>2, ReportFieldsOK
  <2> QED BY <2>2, <2>4 DEF ByLeave, Busy, L
<1>3. CASE CreateDue("loop")
  <2>1. \/ turn' = turn
        \/ /\ proc["loop"].target[1] \in Units /\ proc["loop"].fields.available \in Nat
           /\ Create(proc["loop"].target[1], proc["loop"].fields.available)
    BY <1>3, CreateDueIs
  <2> QED BY <2>1, SameStatus, NewIsOther
<1>4. CASE UpdateDue("loop")
  <2>1. /\ L.step = "update" /\ L'.step = "next" /\ L.target[1] \in Units /\ FieldsOK(L.fields)
        /\ \/ Write(L.target[1], L.fields)
           \/ turn' = turn
    BY <1>4, UpdateDueIs DEF L
  <2>2. Write(L.target[1], L.fields)
    BY <2>1, SameStatus
  <2>3. turn[L.target[1]].override
    BY <2>1, <2>2, OnlyWritten
  <2>4. L.stage = "ensure"
    <3>1. LocalsOK("loop", L)
      BY TypeFacts DEF L, Actors
    <3> QED BY <2>1, <3>1 DEF LocalsOK, PlaceOK
  <2>5. ~L.alone
    BY <2>1, <2>3, <2>4 DEF LoadInv, MadeInv, InStage
  <2> QED BY <2>1, <2>4, <2>5 DEF ByLeave, Busy, L
<1>5. CASE TransitionWrite("loop")
  <2>1. \E v \in Units : Write(v, TransitionFields) \/ turn' = turn
    BY <1>5, TransitionWriteIs DEF Took
  <2> QED BY <2>1, FixedFields, OnlyWritten, SameStatus DEF ByLeave
<1>6. CASE BackfillWrite
  <2> DEFINE Dates == [ready |-> "placeholder"]
  <2>1. \E v \in Units : Write(v, Dates) \/ turn' = turn
    BY <1>6, BackfillWriteIs DEF Took
  <2>2. FieldsOK(Dates) /\ "status" \notin DOMAIN Dates
    BY FixedFields
  <2> HIDE DEF Dates
  <2> QED BY <2>1, <2>2, OnlyWritten, SameStatus
<1> QED BY <1>1, <1>2, <1>3, <1>4, <1>5, <1>6 DEF Load

LEMMA JobSticks ==
  ASSUME TypeInv, Job, NEW u \in Units, Overridden(u)
  PROVE  ByLeave(u)
<1> "job" \in {"loop", "job"}
  OBVIOUS
<1>1. ~(JobBegin \/ TransitionRead("job") \/ JobRead \/ JobLook \/ JobForget \/ StageDone("job"))
  <2> SUFFICES ASSUME \/ JobBegin \/ TransitionRead("job") \/ JobRead \/ JobLook \/ JobForget
                      \/ StageDone("job")
               PROVE  turn' = turn
    BY SameStatus
  <2> QED BY DEF JobBegin, TransitionRead, JobRead, JobLook, JobForget, StageDone
<1>2. CASE TransitionWrite("job")
  <2>1. \E v \in Units : Write(v, TransitionFields) \/ turn' = turn
    BY <1>2, TransitionWriteIs DEF Took
  <2> QED BY <2>1, FixedFields, OnlyWritten, SameStatus DEF ByLeave
<1>3. CASE CreateDue("job")
  <2>1. \/ turn' = turn
        \/ /\ proc["job"].target[1] \in Units /\ proc["job"].fields.available \in Nat
           /\ Create(proc["job"].target[1], proc["job"].fields.available)
    BY <1>3, CreateDueIs
  <2> QED BY <2>1, SameStatus, NewIsOther
<1>4. CASE UpdateDue("job")
  <2>1. proc["job"].step = "update" /\ proc'["job"].step \in {"next", "forget"}
    BY <1>4, UpdateDueIs
  <2> QED BY <2>1 DEF ByLeave
<1> QED BY <1>1, <1>2, <1>3, <1>4 DEF Job

LEMMA ImportSticks ==
  ASSUME TypeInv, ImportInv, ImportRead \/ Import, NEW u \in Units, Overridden(u)
  PROVE  ByLeave(u)
<1>0. M.step \in {"look", "update"} => Busy("import")
  <2>1. LocalsOK("import", M)
    BY TypeFacts DEF M, Actors
  <2> QED BY <2>1 DEF LocalsOK, PlaceOK, Busy, M
<1>1. ~ImportRead
  <2> SUFFICES ASSUME ImportRead PROVE turn' = turn
    BY SameStatus
  <2> QED BY DEF ImportRead
<1>2. ~ImportCreate
  <2> SUFFICES ASSUME ImportCreate PROVE FALSE
    OBVIOUS
  <2>1. turn' = turn \/ \E v \in Units : \E d \in Nat : Create(v, d)
    BY ImportCreateIs
  <2> QED BY <2>1, SameStatus, NewIsOther
<1>3. Idle.step = "-"
  BY DEF Idle
<1>4. CASE ImportUpdate
  <2>1. /\ M' = Idle /\ M.step = "update" /\ M.target[1] \in Units
        /\ \/ \E f : FieldsOK(f) /\ Write(M.target[1], f)
           \/ turn' = turn
    BY <1>4, ImportUpdateIs
  <2>2. turn[M.target[1]].override
    BY <2>1, OnlyWritten, SameStatus
  <2>3. ~M.alone
    BY <2>1, <2>2 DEF ImportInv
  <2> QED BY <1>0, <1>3, <2>1, <2>3 DEF ByLeave, M
<1>5. CASE ImportCommit
  <2>1. /\ M' = Idle /\ M.step = "look"
        /\ turn[u].open /\ FieldsOK(M.fields[u]) /\ turn'[u] = Over(M.fields[u], turn[u])
    BY <1>5, ImportCommitIs, SameStatus
  <2>2. turn[u] \in Cells
    BY TypeFacts
  <2>3. turn'[u].status = Now(M.fields[u], turn[u], "status")
    BY <2>1, <2>2, UpdatedColumns
  <2>4. "status" \in DOMAIN M.fields[u] /\ turn[u].override
    BY <2>3 DEF Now, Overridden
  <2>5. ~M.alone
    <3> SUFFICES ASSUME M.alone PROVE FALSE
      OBVIOUS
    <3>1. M.fields[u] = Decision(M.rows, u)
      BY <2>1 DEF ImportInv
    <3>2. M.rows \in Reports
      <4>1. LocalsOK("import", M)
        BY TypeFacts DEF M, Actors
      <4> QED BY <4>1 DEF LocalsOK
    <3> QED BY <2>1, <2>4, <3>1, <3>2, DecisionOK
  <2> QED BY <1>0, <1>3, <2>1, <2>5 DEF ByLeave, M
<1> QED BY <1>1, <1>2, <1>4, <1>5 DEF Import

LEMMA HandlerSticks ==
  ASSUME TypeInv, PatchStatus \/ ChangeMoveOut \/ PatchReady \/ EndTurnover \/ CreateTurnover,
         NEW u \in Units, Overridden(u)
  PROVE  ByLeave(u)
<1> PICK v \in Units : \E t \in Cells : \E operates \in BOOLEAN :
           /\ ByHand(v, t, operates)
           /\ \/ operates
              \/ t.open /\ turn[v].open /\ t.gen = turn[v].gen /\ t.status = turn[v].status
              \/ ~t.open
              \/ t.gen # turn[v].gen
  BY HandlersAre
<1> PICK t \in Cells, operates \in BOOLEAN :
           /\ ByHand(v, t, operates)
           /\ \/ operates
              \/ t.open /\ turn[v].open /\ t.gen = turn[v].gen /\ t.status = turn[v].status
              \/ ~t.open
              \/ t.gen # turn[v].gen
  OBVIOUS
<1>1. /\ turn' = [turn EXCEPT ![v] = t] /\ operated' = [operated EXCEPT ![v] = operates]
      /\ turn \in [Units -> Cells] /\ operated \in [Units -> BOOLEAN]
  BY TypeFacts DEF ByHand, TurnOK
<1>2. u = v /\ turn'[v] = t
  BY <1>1 DEF Overridden
<1>3. operates
  BY <1>2 DEF Overridden
<1>4. operated'[u]
  BY <1>1, <1>2, <1>3
<1> QED BY <1>4 DEF ByLeave

\* An overridden status changes only by an operator's PATCH or the automatic
\* transition that overrides it again, or by a writer that was not alone and decided
\* before the override was set (should_apply_import_value and its callers).
THEOREM OverridesStick == Spec => OverrideSticks
<1>1. TypeInv /\ LoadInv /\ ImportInv /\ [Next]_vars
        => [\A u \in Units : Overridden(u) => ByLeave(u)]_vars
  <2> SUFFICES ASSUME TypeInv, LoadInv, ImportInv, Next, NEW u \in Units, Overridden(u)
               PROVE  ByLeave(u)
    OBVIOUS
  <2>1. ~(Midnight \/ \E a \in Actors : Fail(a))
    <3> SUFFICES ASSUME Midnight \/ \E a \in Actors : Fail(a) PROVE turn' = turn
      BY SameStatus
    <3> QED BY DEF Midnight, Fail
  <2> QED BY <2>1, LoadSticks, JobSticks, ImportSticks, HandlerSticks DEF Next
<1>2. [\A u \in Units : Overridden(u) => ByLeave(u)]_vars
        => [\A u \in Units :
              turn[u].override /\ turn'[u].open /\ turn'[u].gen = turn[u].gen
                /\ turn'[u].status # turn[u].status =>
                  \/ operated'[u]
                  \/ turn'[u] = Over(TransitionFields, turn[u])
                  \/ proc["job"].step = "update" /\ proc'["job"] # proc["job"]
                  \/ \E a \in {"loop", "import"} : Busy(a) /\ ~proc[a].alone /\ proc'[a] # proc[a]]_vars
  BY DEF Overridden, ByLeave
<1> QED BY <1>1, <1>2, AlwaysLoads, AlwaysImports, PTL DEF Spec, OverrideSticks
-----------------------------------------------------------------------------
(***************************************************************************)
(* Notices                                                                 *)
(***************************************************************************)

\* The notice of the unit that the job is at, and what it has made of it.
J == proc["job"]
RunOut(u) == Arrived(J.rows[u], J.day)
Made(u, g) == g \in 1..turn[u].gen
HasDate(u, g) == turn[u].open /\ turn[u].gen = g => turn[u].available # NoDate

ServeInv ==
  /\ J.stage = "create" /\ J.step # "enter" => \A x \in J.todo : RunOut(x[1])
  /\ J.step \in {"create", "update", "forget"} => RunOut(J.target[1])
  /\ J.step \in {"create", "update"} => J.fields.available = J.rows[J.target[1]].available
  /\ J.step \in {"update", "forget"} => Made(J.target[1], J.target[2])
  /\ J.step \in {"create", "update"} => "available" \in DOMAIN J.fields
  /\ J.step = "forget" => HasDate(J.target[1], J.target[2])

\* No step takes a turnover back or takes its date from it.
Lasts(u) ==
  /\ turn'[u].gen \in Nat /\ turn'[u].gen >= turn[u].gen
  /\ turn'[u].open /\ turn'[u].gen = turn[u].gen =>
       /\ turn[u].open
       /\ turn[u].available # NoDate => turn'[u].available # NoDate

LEMMA SameLasts ==
  ASSUME TypeInv, NEW u \in Units, turn'[u] = turn[u]
  PROVE  Lasts(u)
BY TypeFacts DEF Lasts

LEMMA OverLasts ==
  ASSUME TypeInv, NEW u \in Units, NEW f, FieldsOK(f), turn[u].open, turn'[u] = Over(f, turn[u])
  PROVE  Lasts(u)
<1>1. turn[u] \in Cells /\ turn[u].gen \in Nat
  BY TypeFacts
<1>2. turn'[u].gen = turn[u].gen /\ turn'[u].available = Now(f, turn[u], "available")
  BY <1>1, UpdatedColumns
<1>3. turn[u].available # NoDate => turn'[u].available # NoDate
  BY <1>2 DEF Now, FieldsOK, NoDate
<1> QED BY <1>1, <1>2, <1>3 DEF Lasts

LEMMA WriteLasts ==
  ASSUME TypeInv, NEW v \in Units, NEW f, FieldsOK(f), turn[v].open, Write(v, f)
  PROVE  \A u \in Units : Lasts(u)
<1> TAKE u \in Units
<1>1. u # v => turn'[u] = turn[u]
  BY WrittenIs
<1>2. turn'[v] = Over(f, turn[v])
  BY WrittenIs
<1> QED BY <1>1, <1>2, SameLasts, OverLasts

LEMMA CreateLasts ==
  ASSUME TypeInv, NEW v \in Units, NEW d \in Nat, Create(v, d)
  PROVE  \A u \in Units : Lasts(u)
<1> TAKE u \in Units
<1>1. CanCreate(v) /\ turn' = [turn EXCEPT ![v] = Created(v, d)]
  BY DEF Create
<1>2. Created(v, d).gen = turn[v].gen + 1 /\ turn \in [Units -> Cells] /\ turn[v].gen \in Nat
  BY <1>1, TypeFacts, NewCells DEF TurnOK
<1>3. u # v => turn'[u] = turn[u]
  BY <1>1, <1>2
<1>4. turn'[v].gen = turn[v].gen + 1
  BY <1>1, <1>2
<1>5. u = v => Lasts(u)
  BY <1>2, <1>4 DEF Lasts
<1> QED BY <1>3, <1>5, SameLasts

LEMMA LoadLasts ==
  ASSUME TypeInv, LoadBegin \/ Load
  PROVE  \A u \in Units : Lasts(u)
<1> "loop" \in {"loop", "job"}
  OBVIOUS
<1>1. CASE LoadBegin \/ ReadReport \/ ReconcileRead \/ EnsureLook \/ TransitionRead("loop")
             \/ BackfillRead \/ StageDone("loop")
  <2>1. turn' = turn
    BY <1>1 DEF LoadBegin, ReadReport, ReconcileRead, EnsureLook, TransitionRead, BackfillRead, StageDone
  <2> QED BY <2>1, SameLasts
<1>2. CASE ReconcileWrite
  <2>1. /\ L.target[1] \in Units /\ FieldsOK(L.fields)
        /\ \/ Applies(L.target[1], L.target[2]) /\ Write(L.target[1], L.fields)
           \/ turn' = turn
    BY <1>2, ReconcileWriteIs
  <2> QED BY <2>1, SameLasts, WriteLasts DEF Applies
<1>3. CASE CreateDue("loop")
  <2>1. \/ turn' = turn
        \/ /\ proc["loop"].target[1] \in Units /\ proc["loop"].fields.available \in Nat
           /\ Create(proc["loop"].target[1], proc["loop"].fields.available)
    BY <1>3, CreateDueIs
  <2> QED BY <2>1, SameLasts, CreateLasts
<1>4. CASE UpdateDue("loop")
  <2>1. /\ L.target[1] \in Units /\ FieldsOK(L.fields)
        /\ \/ Applies(L.target[1], L.target[2]) /\ Write(L.target[1], L.fields)
           \/ turn' = turn
    BY <1>4, UpdateDueIs DEF L
  <2> QED BY <2>1, SameLasts, WriteLasts DEF Applies
<1>5. CASE TransitionWrite("loop")
  <2>1. \E v \in Units : \/ turn[v].open /\ Write(v, TransitionFields)
                       \/ turn' = turn
    BY <1>5, TransitionWriteIs DEF Took, Applies
  <2> QED BY <2>1, FixedFields, SameLasts, WriteLasts
<1>6. CASE BackfillWrite
  <2> DEFINE Dates == [ready |-> "placeholder"]
  <2>1. \E v \in Units : \/ turn[v].open /\ Write(v, Dates)
                       \/ turn' = turn
    BY <1>6, BackfillWriteIs DEF Took, Applies
  <2>2. FieldsOK(Dates)
    BY FixedFields
  <2> HIDE DEF Dates
  <2> QED BY <2>1, <2>2, SameLasts, WriteLasts
<1> QED BY <1>1, <1>2, <1>3, <1>4, <1>5, <1>6 DEF Load

LEMMA JobLasts ==
  ASSUME TypeInv, Job
  PROVE  \A u \in Units : Lasts(u)
<1> "job" \in {"loop", "job"}
  OBVIOUS
<1>1. CASE JobBegin \/ TransitionRead("job") \/ JobRead \/ JobLook \/ JobForget \/ StageDone("job")
  <2>1. turn' = turn
    BY <1>1 DEF JobBegin, TransitionRead, JobRead, JobLook, JobForget, StageDone
  <2> QED BY <2>1, SameLasts
<1>2. CASE TransitionWrite("job")
  <2>1. \E v \in Units : \/ turn[v].open /\ Write(v, TransitionFields)
                       \/ turn' = turn
    BY <1>2, TransitionWriteIs DEF Took, Applies
  <2> QED BY <2>1, FixedFields, SameLasts, WriteLasts
<1>3. CASE CreateDue("job")
  <2>1. \/ turn' = turn
        \/ J.target[1] \in Units /\ J.fields.available \in Nat /\ Create(J.target[1], J.fields.available)
    BY <1>3, CreateDueIs DEF J
  <2> QED BY <2>1, SameLasts, CreateLasts
<1>4. CASE UpdateDue("job")
  <2>1. /\ J.target[1] \in Units /\ FieldsOK(J.fields)
        /\ \/ Applies(J.target[1], J.target[2]) /\ Write(J.target[1], J.fields)
           \/ turn' = turn
    BY <1>4, UpdateDueIs DEF J
  <2> QED BY <2>1, SameLasts, WriteLasts DEF Applies
<1> QED BY <1>1, <1>2, <1>3, <1>4 DEF Job

LEMMA ImportLasts ==
  ASSUME TypeInv, ImportRead \/ Import
  PROVE  \A u \in Units : Lasts(u)
<1>1. CASE ImportRead
  <2>1. turn' = turn
    BY <1>1 DEF ImportRead
  <2> QED BY <2>1, SameLasts
<1>2. CASE ImportCreate
  <2>1. turn' = turn \/ \E v \in Units : \E d \in Nat : Create(v, d)
    BY <1>2, ImportCreateIs
  <2> QED BY <2>1, SameLasts, CreateLasts
<1>3. CASE ImportUpdate
  <2>1. \/ turn' = turn
        \/ /\ M.target[1] \in Units /\ turn[M.target[1]].open
           /\ \E f : FieldsOK(f) /\ Write(M.target[1], f)
    BY <1>3, ImportUpdateIs DEF Applies
  <2> QED BY <2>1, SameLasts, WriteLasts
<1>4. CASE ImportCommit
  <2> TAKE u \in Units
  <2>1. \/ turn'[u] = turn[u]
        \/ turn[u].open /\ FieldsOK(M.fields[u]) /\ turn'[u] = Over(M.fields[u], turn[u])
    BY <1>4, ImportCommitIs
  <2> QED BY <2>1, SameLasts, OverLasts
<1> QED BY <1>1, <1>2, <1>3, <1>4 DEF Import

\* A handler puts another row in the place of one.
Succeeds(t, old) ==
  /\ t.gen \in Nat /\ t.gen >= old.gen
  /\ t.open /\ t.gen = old.gen => old.open /\ t.available = old.available

LEMMA ByHandLasts ==
  ASSUME TypeInv, NEW v \in Units, NEW t, NEW operates, ByHand(v, t, operates), Succeeds(t, turn[v])
  PROVE  \A u \in Units : Lasts(u)
<1> TAKE u \in Units
<1>1. turn' = [turn EXCEPT ![v] = t] /\ turn \in [Units -> Cells]
  BY TypeFacts DEF ByHand, TurnOK
<1>2. turn'[v] = t /\ (u # v => turn'[u] = turn[u])
  BY <1>1
<1>3. u = v => Lasts(u)
  BY <1>2 DEF Lasts, Succeeds
<1> QED BY <1>2, <1>3, SameLasts

LEMMA HandlersLast ==
  ASSUME TypeInv, PatchStatus \/ ChangeMoveOut \/ PatchReady \/ EndTurnover \/ CreateTurnover
  PROVE  \A u \in Units : Lasts(u)
<1>1. CASE PatchStatus
  <2> PICK u \in Units, s \in Patched :
         turn[u].open /\ ByHand(u, [turn[u] EXCEPT !.status = s, !.manual = ManualReadyOf(s)], TRUE)
    BY <1>1 DEF PatchStatus
  <2> DEFINE m == ManualReadyOf(s)
             t == [turn[u] EXCEPT !.status = s, !.manual = m]
  <2>1. turn[u] \in Cells /\ turn[u].gen \in Nat /\ ByHand(u, t, TRUE) /\ turn[u].open
    BY TypeFacts
  <2> HIDE DEF m
  <2>2. t.gen = turn[u].gen /\ t.available = turn[u].available
    BY <2>1 DEF Cells
  <2>3. Succeeds(t, turn[u])
    BY <2>1, <2>2 DEF Succeeds
  <2> HIDE DEF t
  <2> QED BY <2>1, <2>3, ByHandLasts
<1>2. CASE PatchReady
  <2> PICK u \in Units : turn[u].open /\ ByHand(u, [turn[u] EXCEPT !.ready = None], operated[u])
    BY <1>2 DEF PatchReady
  <2> DEFINE t == [turn[u] EXCEPT !.ready = None]
  <2>1. turn[u] \in Cells /\ turn[u].gen \in Nat /\ ByHand(u, t, operated[u]) /\ turn[u].open
    BY TypeFacts
  <2>2. t.gen = turn[u].gen /\ t.available = turn[u].available
    BY <2>1 DEF Cells
  <2>3. Succeeds(t, turn[u])
    BY <2>1, <2>2 DEF Succeeds
  <2> HIDE DEF t
  <2> QED BY <2>1, <2>3, ByHandLasts
<1>3. CASE EndTurnover
  <2> PICK u \in Units : turn[u].open /\ ByHand(u, [NoTurnover EXCEPT !.gen = turn[u].gen], FALSE)
    BY <1>3 DEF EndTurnover
  <2> DEFINE t == [NoTurnover EXCEPT !.gen = turn[u].gen]
  <2>1. turn[u].gen \in 0..LastGen /\ turn[u].gen \in Nat
    BY TypeFacts DEF Cells
  <2>2. ~t.open /\ t.gen = turn[u].gen
    BY <2>1, NewCells
  <2>3. ByHand(u, t, FALSE)
    OBVIOUS
  <2> HIDE DEF t
  <2>4. Succeeds(t, turn[u])
    BY <2>1, <2>2 DEF Succeeds
  <2> QED BY <2>3, <2>4, ByHandLasts
<1>4. CASE CreateTurnover
  <2> PICK u \in Units, d \in MoveOuts : CanCreate(u) /\ ByHand(u, Created(u, d), FALSE)
    BY <1>4 DEF CreateTurnover
  <2> DEFINE t == Created(u, d)
  <2>1. TurnOK /\ d \in Nat /\ turn[u].gen \in Nat
    BY TypeFacts, BoardConstants
  <2>2. t.gen = turn[u].gen + 1
    BY <2>1, NewCells
  <2>3. ByHand(u, t, FALSE)
    OBVIOUS
  <2> HIDE DEF t
  <2>4. Succeeds(t, turn[u])
    BY <2>1, <2>2 DEF Succeeds
  <2> QED BY <2>3, <2>4, ByHandLasts
<1>5. CASE ChangeMoveOut
  <2> PICK u \in Units, d \in MoveOuts :
         turn[u].open /\ ByHand(u, [turn[u] EXCEPT !.moveOut = d], operated[u])
    BY <1>5 DEF ChangeMoveOut
  <2> DEFINE t == [turn[u] EXCEPT !.moveOut = d]
  <2>1. turn[u] \in Cells /\ turn[u].gen \in Nat /\ ByHand(u, t, operated[u]) /\ turn[u].open
    BY TypeFacts
  <2>2. t.gen = turn[u].gen /\ t.available = turn[u].available
    BY <2>1 DEF Cells
  <2>3. Succeeds(t, turn[u])
    BY <2>1, <2>2 DEF Succeeds
  <2> HIDE DEF t
  <2> QED BY <2>1, <2>3, ByHandLasts
<1> QED BY <1>1, <1>2, <1>3, <1>4, <1>5

LEMMA StepLasts ==
  ASSUME TypeInv, [Next]_vars
  PROVE  \A u \in Units : Lasts(u)
<1>1. CASE UNCHANGED vars \/ Midnight \/ \E a \in Actors : Fail(a)
  <2>1. turn' = turn
    BY <1>1 DEF vars, Midnight, Fail
  <2> QED BY <2>1, SameLasts
<1> QED BY <1>1, LoadLasts, JobLasts, ImportLasts, HandlersLast DEF Next

\* Where the job is when it keeps a unit in mind.
LEMMA JobPlace ==
  ASSUME TypeInv
  PROVE  /\ DOMAIN J = Locals /\ "job" \in Actors
         /\ J.step \in {"create", "update", "forget"} => J.target[1] \in Units
         /\ J.step \in {"create", "update"} => FieldsOK(J.fields)
         /\ J.todo \subseteq Units \X Nat
<1>1. LocalsOK("job", J) /\ "job" \in Actors
  BY TypeFacts DEF J, Actors
<1> QED BY <1>1 DEF LocalsOK

\* Whatever the others do, the job may go on with what it knows.
LEMMA ServeAside ==
  ASSUME TypeInv, ServeInv, Aside("job"), \A u \in Units : Lasts(u)
  PROVE  ServeInv'
<1>1. /\ J'.stage = J.stage /\ J'.step = J.step /\ J'.day = J.day /\ J'.rows = J.rows
      /\ J'.todo = J.todo /\ J'.target = J.target /\ J'.fields = J.fields
  BY DEF Aside, J
<1>2. \A u : RunOut(u)' <=> RunOut(u)
  BY <1>1 DEF RunOut, Arrived
<1>3. J.step \in {"create", "update", "forget"} => J.target[1] \in Units
  BY JobPlace
<1>4. ASSUME NEW u \in Units, NEW g, Made(u, g) PROVE Made(u, g)'
  <2>1. Lasts(u) /\ turn[u].gen \in Nat
    BY TypeFacts
  <2> QED BY <1>1, <1>4, <2>1 DEF Made, Lasts
<1>5. ASSUME NEW u \in Units, NEW g, Made(u, g), HasDate(u, g) PROVE HasDate(u, g)'
  <2>1. Lasts(u) /\ turn[u].gen \in Nat /\ g \in 1..turn[u].gen
    BY <1>5, TypeFacts DEF Made
  <2> QED BY <1>5, <2>1 DEF HasDate, Lasts
<1> QED BY <1>1, <1>2, <1>3, <1>4, <1>5 DEF ServeInv

LEMMA ServeNothing ==
  ASSUME J'.step \notin {"create", "update", "forget"}, J'.stage # "create" \/ J'.step = "enter"
  PROVE  ServeInv'
BY DEF ServeInv

LEMMA JobReadServes ==
  ASSUME TypeInv, JobRead
  PROVE  ServeInv'
<1> DEFINE todo == {<<u, 0>> : u \in {v \in Units : Eligible(notice[v], J.day)}}
           seen == [u \in Units |-> [status |-> None, available |-> notice[u].available,
                                     ready |-> notice[u].ready]]
           alone == ~OthersBusy("job")
           q == [J EXCEPT !.step = "next", !.alone = alone, !.todo = todo, !.rows = seen]
<1>1. Set("job", q)
  BY DEF JobRead, J
<1>2. \A x \in todo : Arrived(seen[x[1]], J.day)
  BY DEF Eligible, Arrived
<1> HIDE DEF todo, seen, alone
<1>3. q.step = "next" /\ q.todo = todo /\ q.rows = seen /\ q.day = J.day
  BY JobPlace DEF Locals
<1> HIDE DEF q
<1>4. J' = q
  BY <1>1, SetIs, JobPlace DEF J
<1> QED BY <1>2, <1>3, <1>4 DEF ServeInv, RunOut

LEMMA JobLookServes ==
  ASSUME TypeInv, ServeInv, JobLook
  PROVE  ServeInv'
<1> PICK x \in J.todo :
       LET rest == [J EXCEPT !.todo = @ \ {x}]
       IN  Set("job", IF turn[x[1]].open THEN rest
                      ELSE [rest EXCEPT !.step = "create", !.target = <<x[1], 0>>,
                                        !.fields = ArrivedFields(J.rows[x[1]])])
  BY DEF JobLook, J
<1> DEFINE u == x[1]
           fields == ArrivedFields(J.rows[u])
           todo == J.todo \ {x}
           rest == [J EXCEPT !.todo = todo]
           target == <<u, 0>>
           q == [rest EXCEPT !.step = "create", !.target = target, !.fields = fields]
           goal == IF turn[u].open THEN rest ELSE q
<1>1. J.stage = "create" /\ J.step = "next" /\ Set("job", goal)
  BY DEF JobLook, At, J
<1>2. DOMAIN J = Locals /\ u \in Units /\ RunOut(u) /\ \A y \in todo : RunOut(y[1])
  BY <1>1, JobPlace DEF ServeInv
<1>3. fields.available = J.rows[u].available /\ "available" \in DOMAIN fields
  BY DEF ArrivedFields, Over, NoFields
<1>4. target[1] = u
  OBVIOUS
<1> HIDE DEF fields, todo, target, u
<1>5. /\ DOMAIN rest = Locals /\ rest.stage = "create" /\ rest.step = "next" /\ rest.day = J.day
      /\ rest.rows = J.rows /\ rest.todo = todo
  BY <1>1, <1>2 DEF Locals
<1> HIDE DEF rest
<1>6. /\ q.stage = "create" /\ q.step = "create" /\ q.day = J.day /\ q.rows = J.rows
      /\ q.todo = todo /\ q.target = target /\ q.fields = fields
  BY <1>5 DEF Locals
<1> HIDE DEF q
<1>7. J' = goal
  BY <1>1, SetIs, JobPlace DEF J
<1>8. CASE turn[u].open
  <2>1. J' = rest
    BY <1>7, <1>8
  <2> QED BY <1>2, <1>5, <2>1 DEF ServeInv, RunOut
<1>9. CASE ~turn[u].open
  <2>1. J' = q
    BY <1>7, <1>9
  <2> QED BY <1>2, <1>3, <1>4, <1>6, <2>1 DEF ServeInv, RunOut
<1> QED BY <1>8, <1>9

LEMMA JobCreateServes ==
  ASSUME TypeInv, ServeInv, CreateDue("job")
  PROVE  ServeInv'
<1>0. J.target[1] \in Units /\ turn[J.target[1]].gen \in Nat
  BY JobPlace, TypeFacts DEF CreateDue, J
<1> PICK u \in Units, g \in Nat \ {0} : u = J.target[1] /\ g = turn[u].gen + 1
  BY <1>0
<1> DEFINE target == <<u, g>>
           q1 == [J EXCEPT !.step = "next", !.target = <<>>, !.fields = NoFields]
           q2 == [J EXCEPT !.step = "update", !.target = target]
<1>1. /\ J.step = "create"
      /\ IF turn[u].open THEN Set("job", q1)
         ELSE Create(u, J.fields.available) /\ Set("job", q2)
  BY DEF CreateDue, J
<1>2. /\ DOMAIN J = Locals /\ u \in Units /\ J.stage = "create" /\ J.fields.available \in Nat
      /\ "available" \in DOMAIN J.fields
  <2>1. LocalsOK("job", J)
    BY TypeFacts DEF J, Actors
  <2>2. "available" \in DOMAIN J.fields
    BY <1>1 DEF ServeInv
  <2> QED BY <1>1, <2>1, <2>2 DEF LocalsOK, PlaceOK
<1>3. RunOut(u) /\ J.fields.available = J.rows[u].available /\ \A x \in J.todo : RunOut(x[1])
  BY <1>1, <1>2 DEF ServeInv
<1>4. target[1] = u /\ target[2] = g
  OBVIOUS
<1> HIDE DEF target
<1>5. /\ q1.stage = "create" /\ q1.step = "next" /\ q1.day = J.day
      /\ q1.rows = J.rows /\ q1.todo = J.todo
  BY <1>2 DEF Locals
<1>6. /\ q2.stage = "create" /\ q2.step = "update" /\ q2.day = J.day
      /\ q2.rows = J.rows /\ q2.todo = J.todo /\ q2.target = target /\ q2.fields = J.fields
  BY <1>2 DEF Locals
<1> HIDE DEF q1, q2
<1>7. CASE turn[u].open
  <2>1. J' = q1
    BY <1>1, <1>7, SetIs, JobPlace DEF J
  <2> QED BY <1>3, <1>5, <2>1 DEF ServeInv, RunOut
<1>8. CASE ~turn[u].open
  <2>1. J' = q2 /\ CanCreate(u) /\ turn' = [turn EXCEPT ![u] = Created(u, J.fields.available)]
    BY <1>1, <1>8, SetIs, JobPlace DEF J, Create
  <2>2. Created(u, J.fields.available).gen = g
    BY <1>2, <2>1, TypeFacts, NewCells
  <2>3. turn'[u] = Created(u, J.fields.available)
    BY <1>2, <2>1, TypeFacts DEF TurnOK
  <2>4. Made(u, g)'
    BY <2>2, <2>3 DEF Made
  <2> QED BY <1>2, <1>3, <1>4, <1>6, <2>1, <2>4 DEF ServeInv, RunOut
<1> QED BY <1>7, <1>8

LEMMA JobUpdateServes ==
  ASSUME TypeInv, ServeInv, UpdateDue("job")
  PROVE  ServeInv'
<1>0. J.target[1] \in Units /\ J.step = "update"
  BY JobPlace DEF UpdateDue, J
<1> PICK u \in Units : u = J.target[1]
  BY <1>0
<1> PICK g : g = J.target[2]
  OBVIOUS
<1> DEFINE q1 == [J EXCEPT !.step = "forget", !.fields = NoFields, !.target = J.target]
           q2 == [J EXCEPT !.step = "next", !.target = <<>>, !.fields = NoFields]
<1>1. IF Applies(u, g) THEN Write(u, J.fields) /\ Set("job", q1)
      ELSE UNCHANGED turn /\ Set("job", q2)
  BY DEF UpdateDue, J
<1>2. /\ DOMAIN J = Locals /\ J.stage = "create" /\ FieldsOK(J.fields)
      /\ "available" \in DOMAIN J.fields
  <2>1. LocalsOK("job", J)
    BY TypeFacts DEF J, Actors
  <2>2. "available" \in DOMAIN J.fields
    BY <1>0 DEF ServeInv
  <2> QED BY <1>0, <2>1, <2>2, UpdateDueIs DEF LocalsOK, PlaceOK, UpdateDue, J
<1>3. RunOut(u) /\ Made(u, g) /\ \A x \in J.todo : RunOut(x[1])
  BY <1>0, <1>2 DEF ServeInv
<1>4. /\ q1.stage = "create" /\ q1.step = "forget" /\ q1.day = J.day
      /\ q1.rows = J.rows /\ q1.todo = J.todo /\ q1.target = J.target
  BY <1>2 DEF Locals
<1>5. /\ q2.stage = "create" /\ q2.step = "next" /\ q2.day = J.day
      /\ q2.rows = J.rows /\ q2.todo = J.todo
  BY <1>2 DEF Locals
<1> HIDE DEF q1, q2
<1>6. CASE Applies(u, g)
  <2>1. J' = q1 /\ Write(u, J.fields)
    BY <1>1, <1>6, SetIs, JobPlace DEF J
  <2>2. turn'[u] = Over(J.fields, turn[u]) /\ turn[u] \in Cells /\ turn[u].gen \in Nat
    BY <1>2, <2>1, WrittenIs, TypeFacts
  <2>3. turn'[u].gen = turn[u].gen /\ turn'[u].available = Now(J.fields, turn[u], "available")
    BY <1>2, <2>2, UpdatedColumns
  <2>4. turn'[u].available # NoDate
    BY <1>2, <2>3 DEF Now, FieldsOK, NoDate
  <2>5. Made(u, g)'
    BY <1>3, <2>3 DEF Made
  <2>6. HasDate(u, g)'
    BY <2>4 DEF HasDate
  <2> QED BY <1>3, <1>4, <2>1, <2>5, <2>6 DEF ServeInv, RunOut
<1>7. CASE ~Applies(u, g)
  <2>1. J' = q2
    BY <1>1, <1>7, SetIs, JobPlace DEF J
  <2> QED BY <1>3, <1>5, <2>1 DEF ServeInv, RunOut
<1> QED BY <1>6, <1>7

LEMMA JobForgetServes ==
  ASSUME TypeInv, ServeInv, JobForget
  PROVE  ServeInv'
<1> DEFINE q == [J EXCEPT !.step = "next", !.target = <<>>]
<1>1. J.stage = "create" /\ J.step = "forget" /\ Set("job", q)
  BY DEF JobForget, At, J
<1>2. \A x \in J.todo : RunOut(x[1])
  BY <1>1 DEF ServeInv
<1>3. /\ q.stage = "create" /\ q.step = "next" /\ q.day = J.day
      /\ q.rows = J.rows /\ q.todo = J.todo
  BY <1>1, JobPlace DEF Locals
<1> HIDE DEF q
<1>4. J' = q
  BY <1>1, SetIs, JobPlace DEF J
<1> QED BY <1>2, <1>3, <1>4 DEF ServeInv, RunOut

\* The steps of the job outside of the second stage.
LEMMA JobElse ==
  ASSUME TypeInv, JobBegin \/ TransitionRead("job") \/ TransitionWrite("job") \/ StageDone("job")
                    \/ Fail("job")
  PROVE  /\ J'.step \notin {"create", "update", "forget"}
         /\ J'.stage # "create" \/ J'.step = "enter"
<1> "job" \in {"loop", "job"} /\ "job" \in Actors
  BY DEF Actors
<1>1. CASE JobBegin
  <2> DEFINE q == [Idle EXCEPT !.stage = "transition", !.step = "enter", !.day = today]
  <2>1. Set("job", q) /\ q.stage = "transition" /\ q.step = "enter"
    BY <1>1 DEF JobBegin, Idle
  <2> HIDE DEF q
  <2>2. J' = q
    BY <2>1, SetIs DEF J
  <2> QED BY <2>1, <2>2
<1>2. CASE TransitionRead("job") \/ TransitionWrite("job")
  <2>1. J'.stage = "transition" /\ J'.step = "next"
    BY <1>2, TransitionReadIs, TransitionWriteIs DEF Stays, J
  <2> QED BY <2>1
<1>3. CASE StageDone("job")
  <2>1. PICK stage, day, alone : Set("job", Idle) \/ Set("job", Enter(stage, day, alone))
    BY <1>3 DEF StageDone, NextStage, Enter
  <2>2. J' = Idle \/ J' = Enter(stage, day, alone)
    BY <2>1, SetIs DEF J
  <2>3. Idle.stage = "idle" /\ Idle.step = "-" /\ Enter(stage, day, alone).step = "enter"
    BY EnterIs DEF Idle
  <2> QED BY <2>2, <2>3
<1>4. CASE Fail("job")
  <2>1. J' = Idle
    BY <1>4, SetIs DEF Fail, J
  <2>2. Idle.stage = "idle" /\ Idle.step = "-"
    BY DEF Idle
  <2> QED BY <2>1, <2>2
<1> QED BY <1>1, <1>2, <1>3, <1>4

\* A step of another actor leaves the job aside.
LEMMA OthersAside ==
  ASSUME TypeInv, \/ LoadBegin \/ Load \/ ImportRead \/ Import \/ Fail("loop") \/ Fail("import")
                  \/ PatchStatus \/ ChangeMoveOut \/ PatchReady \/ EndTurnover \/ CreateTurnover
  PROVE  Aside("job")
<1> /\ "loop" \in Actors /\ "import" \in Actors /\ "job" \in Actors
    /\ "job" # "loop" /\ "job" # "import" /\ "loop" \in {"loop", "job"}
  BY DEF Actors
<1>1. CASE LoadBegin \/ Load \/ Fail("loop")
  <2>1. Set("loop", proc'["loop"])
    <3>1. ASSUME NEW completed \in BOOLEAN, Busy("loop"), NextStage("loop", completed)
          PROVE  Set("loop", proc'["loop"])
      BY <3>1, NextStageIs
    <3>2. CASE StageDone("loop") \/ Fail("loop")
      <4>1. Busy("loop") /\ (NextStage("loop", TRUE) \/ NextStage("loop", FALSE))
        BY <3>2 DEF StageDone, Fail
      <4> QED BY <3>1, <4>1
    <3>3. CASE ReconcileWrite
      <4>1. Busy("loop")
        BY <3>3, ReconcileWriteIs DEF Busy, L
      <4> QED BY <3>1, <3>3, <4>1, ReconcileWriteIs DEF Moved
    <3>4. CASE LoadBegin \/ ReadReport \/ ReconcileRead \/ EnsureLook \/ BackfillRead \/ BackfillWrite
      BY <3>4, LoadBeginIs, ReadReportIs, ReconcileReadIs, EnsureLookIs, BackfillReadIs,
         BackfillWriteIs DEF Moved
    <3>5. CASE CreateDue("loop") \/ UpdateDue("loop") \/ TransitionRead("loop") \/ TransitionWrite("loop")
      BY <3>5, CreateDueIs, UpdateDueIs, TransitionReadIs, TransitionWriteIs DEF Moved
    <3> QED BY <1>1, <3>2, <3>3, <3>4, <3>5 DEF Load
  <2> QED BY <2>1, SetAside
<1>2. CASE ImportRead \/ Import \/ Fail("import")
  <2>1. Set("import", proc'["import"])
    <3>1. CASE Fail("import")
      BY <3>1, SetIs DEF Fail
    <3>2. CASE ImportRead \/ Import
      BY <3>2, ImportReadIs, ImportCreateIs, ImportUpdateIs, ImportCommitIs DEF Moved, Import
    <3> QED BY <1>2, <3>1, <3>2
  <2> QED BY <2>1, SetAside
<1>3. CASE PatchStatus \/ ChangeMoveOut \/ PatchReady \/ EndTurnover \/ CreateTurnover
  <2>1. \E u \in Units : \E t \in Cells : \E operates \in BOOLEAN : ByHand(u, t, operates)
    BY <1>3, HandlersAre
  <2> QED BY <2>1, ByHandAside
<1> QED BY <1>1, <1>2, <1>3

LEMMA ServeStep == TypeInv /\ ServeInv /\ [Next]_vars => ServeInv'
<1> SUFFICES ASSUME TypeInv, ServeInv, [Next]_vars PROVE ServeInv'
  OBVIOUS
<1>1. CASE UNCHANGED vars \/ Midnight
  BY <1>1 DEF vars, Midnight, ServeInv, RunOut, Made, HasDate, J
<1>2. CASE Job
  BY <1>2, JobReadServes, JobLookServes, JobCreateServes, JobUpdateServes, JobForgetServes,
     JobElse, ServeNothing DEF Job
<1>3. ASSUME NEW a \in Actors, Fail(a) PROVE ServeInv'
  BY <1>3, StepLasts, OthersAside, ServeAside, JobElse, ServeNothing DEF Actors
<1> QED BY <1>1, <1>2, <1>3, StepLasts, OthersAside, ServeAside DEF Next

LEMMA AlwaysServes == Spec => []ServeInv
<1>1. Init => ServeInv
  <2> SUFFICES ASSUME Init PROVE ServeInv
    OBVIOUS
  <2>1. J.stage = "idle" /\ J.step = "-"
    BY DEF Init, J, Actors, Idle
  <2> QED BY <2>1 DEF ServeInv
<1> QED BY <1>1, ServeStep, AlwaysTyped, PTL DEF Spec

-----------------------------------------------------------------------------
(* The job when nobody else is at work *)

\* The notice of a unit is the one that the job has read.
SameNotice(u) == notice[u] = [available |-> J.rows[u].available, ready |-> J.rows[u].ready]

\* The turnover that it has made is as it has made it.
Intact(u, g) == turn[u].open /\ turn[u].gen = g /\ turn[u].moveOut = J.rows[u].available

Undisturbed ==
  /\ \A x \in J.todo : SameNotice(x[1]) /\ x = <<x[1], 0>>
  /\ J.step \in {"create", "update", "forget"} =>
       SameNotice(J.target[1]) /\ \A x \in J.todo : x[1] # J.target[1]
  /\ J.step \in {"update", "forget"} => Intact(J.target[1], J.target[2])
  /\ J.step = "forget" => turn[J.target[1]].available = J.rows[J.target[1]].available

AloneInv == J.alone /\ J.stage = "create" /\ J.step # "enter" => Undisturbed

LEMMA AloneNothing ==
  ASSUME J'.stage # "create" \/ J'.step = "enter"
  PROVE  AloneInv'
BY DEF AloneInv

LEMMA AloneAside ==
  ASSUME TypeInv, Aside("job")
  PROVE  AloneInv'
<1>1. CASE Busy("job")
  <2>1. ~J'.alone
    BY <1>1 DEF Aside, J
  <2> QED BY <2>1 DEF AloneInv
<1>2. CASE ~Busy("job")
  <2>1. J'.stage = "idle"
    BY <1>2 DEF Aside, Busy, J
  <2> QED BY <2>1, AloneNothing
<1> QED BY <1>1, <1>2

LEMMA JobReadAlone ==
  ASSUME TypeInv, JobRead
  PROVE  AloneInv'
<1> DEFINE todo == {<<u, 0>> : u \in {v \in Units : Eligible(notice[v], J.day)}}
           seen == [u \in Units |-> [status |-> None, available |-> notice[u].available,
                                     ready |-> notice[u].ready]]
           alone == ~OthersBusy("job")
           q == [J EXCEPT !.step = "next", !.alone = alone, !.todo = todo, !.rows = seen]
<1>1. Set("job", q) /\ notice' = notice
  BY DEF JobRead, J
<1>2. \A x \in todo : x[1] \in Units /\ x = <<x[1], 0>>
  OBVIOUS
<1>3. \A u \in Units : notice[u] = [available |-> seen[u].available, ready |-> seen[u].ready]
  <2> TAKE u \in Units
  <2>1. DOMAIN notice[u] = {"available", "ready"} /\ notice[u] \in [available : Nat \cup {NoDate}, ready : BOOLEAN]
    BY DEF TypeInv, TypeOK
  <2> QED BY <2>1
<1> HIDE DEF todo, seen, alone
<1>4. q.step = "next" /\ q.todo = todo /\ q.rows = seen
  BY JobPlace DEF Locals
<1> HIDE DEF q
<1>5. J' = q
  BY <1>1, SetIs, JobPlace DEF J
<1>6. \A x \in J'.todo : SameNotice(x[1])' /\ x = <<x[1], 0>>
  BY <1>1, <1>2, <1>3, <1>4, <1>5 DEF SameNotice
<1>7. J'.step = "next"
  BY <1>4, <1>5
<1> QED BY <1>6, <1>7 DEF AloneInv, Undisturbed

LEMMA JobLookAlone ==
  ASSUME TypeInv, AloneInv, JobLook
  PROVE  AloneInv'
<1> PICK x \in J.todo :
       LET rest == [J EXCEPT !.todo = @ \ {x}]
       IN  Set("job", IF turn[x[1]].open THEN rest
                      ELSE [rest EXCEPT !.step = "create", !.target = <<x[1], 0>>,
                                        !.fields = ArrivedFields(J.rows[x[1]])])
  BY DEF JobLook, J
<1> DEFINE u == x[1]
           fields == ArrivedFields(J.rows[u])
           todo == J.todo \ {x}
           rest == [J EXCEPT !.todo = todo]
           target == <<u, 0>>
           q == [rest EXCEPT !.step = "create", !.target = target, !.fields = fields]
           goal == IF turn[u].open THEN rest ELSE q
<1>1. J.stage = "create" /\ J.step = "next" /\ Set("job", goal) /\ notice' = notice
  BY DEF JobLook, At, J
<1>2. DOMAIN J = Locals /\ J' = goal
  BY <1>1, SetIs, JobPlace DEF J
<1>3. target[1] = u
  OBVIOUS
<1>4. (\A y \in J.todo : y = <<y[1], 0>>) => \A y \in todo : y[1] # u
  OBVIOUS
<1>5. todo \subseteq J.todo
  OBVIOUS
<1> HIDE DEF fields, todo, target, u
<1>6. /\ DOMAIN rest = Locals /\ rest.step = "next" /\ rest.rows = J.rows /\ rest.todo = todo
      /\ rest.alone = J.alone
  BY <1>1, <1>2 DEF Locals
<1> HIDE DEF rest
<1>7. /\ q.step = "create" /\ q.rows = J.rows /\ q.todo = todo /\ q.target = target
      /\ q.alone = J.alone
  BY <1>6 DEF Locals
<1> HIDE DEF q
<1>8. /\ J'.rows = J.rows /\ J'.todo = todo /\ J'.alone = J.alone
      /\ J'.step = "next" \/ (J'.step = "create" /\ J'.target[1] = u)
  BY <1>2, <1>3, <1>6, <1>7
<1> HIDE DEF goal
<1> SUFFICES ASSUME J.alone PROVE Undisturbed'
  BY <1>8 DEF AloneInv
<1>9. \A y \in J.todo : SameNotice(y[1]) /\ y = <<y[1], 0>>
  BY <1>1 DEF AloneInv, Undisturbed
<1>10. \A y : SameNotice(y)' <=> SameNotice(y)
  BY <1>1, <1>8 DEF SameNotice
<1>11. SameNotice(u) /\ \A y \in todo : y[1] # u
  BY <1>4, <1>9 DEF u
<1>12. \A y \in J'.todo : SameNotice(y[1])' /\ y = <<y[1], 0>>
  BY <1>5, <1>8, <1>9, <1>10
<1>13. SameNotice(u)' /\ \A y \in J'.todo : y[1] # u
  BY <1>8, <1>10, <1>11
<1>14. CASE J'.step = "next"
  BY <1>12, <1>14 DEF Undisturbed
<1>15. CASE J'.step = "create" /\ J'.target[1] = u
  BY <1>12, <1>13, <1>15 DEF Undisturbed
<1> QED BY <1>8, <1>14, <1>15

LEMMA JobCreateAlone ==
  ASSUME TypeInv, ServeInv, AloneInv, CreateDue("job")
  PROVE  AloneInv'
<1>0. J.target[1] \in Units /\ turn[J.target[1]].gen \in Nat
  BY JobPlace, TypeFacts DEF CreateDue, J
<1> PICK u \in Units, g \in Nat \ {0} : u = J.target[1] /\ g = turn[u].gen + 1
  BY <1>0
<1> DEFINE target == <<u, g>>
           q1 == [J EXCEPT !.step = "next", !.target = <<>>, !.fields = NoFields]
           q2 == [J EXCEPT !.step = "update", !.target = target]
<1>1. /\ J.step = "create" /\ notice' = notice
      /\ IF turn[u].open THEN Set("job", q1)
         ELSE Create(u, J.fields.available) /\ Set("job", q2)
  BY DEF CreateDue, J
<1>2. DOMAIN J = Locals /\ J.stage = "create" /\ J.fields.available \in Nat
  <2>1. LocalsOK("job", J)
    BY TypeFacts DEF J, Actors
  <2> QED BY <1>1, <2>1 DEF LocalsOK, PlaceOK
<1>3. J.fields.available = J.rows[u].available
  BY <1>1 DEF ServeInv
<1>4. target[1] = u /\ target[2] = g
  OBVIOUS
<1> HIDE DEF target
<1>5. q1.step = "next" /\ q1.rows = J.rows /\ q1.todo = J.todo /\ q1.alone = J.alone
  BY <1>2 DEF Locals
<1>6. q2.step = "update" /\ q2.rows = J.rows /\ q2.todo = J.todo /\ q2.target = target /\ q2.alone = J.alone
  BY <1>2 DEF Locals
<1> HIDE DEF q1, q2
<1>7. J' = IF turn[u].open THEN q1 ELSE q2
  BY <1>1, SetIs, JobPlace DEF J
<1>8. J'.rows = J.rows /\ J'.todo = J.todo /\ J'.alone = J.alone
  BY <1>5, <1>6, <1>7
<1> SUFFICES ASSUME J.alone PROVE Undisturbed'
  BY <1>8 DEF AloneInv
<1>9. /\ \A x \in J.todo : SameNotice(x[1]) /\ x = <<x[1], 0>>
      /\ SameNotice(u) /\ \A x \in J.todo : x[1] # u
  BY <1>1, <1>2 DEF AloneInv, Undisturbed
<1>10. \A x : SameNotice(x)' <=> SameNotice(x)
  BY <1>1, <1>8 DEF SameNotice
<1>11. CASE turn[u].open
  <2>1. J'.step = "next"
    BY <1>5, <1>7, <1>11
  <2> QED BY <1>8, <1>9, <1>10, <2>1 DEF Undisturbed
<1>12. CASE ~turn[u].open
  <2>1. CanCreate(u) /\ turn' = [turn EXCEPT ![u] = Created(u, J.fields.available)]
    BY <1>1, <1>12 DEF Create
  <2>2. /\ Created(u, J.fields.available).gen = g /\ Created(u, J.fields.available).open
        /\ turn \in [Units -> Cells]
    BY <1>2, <2>1, TypeFacts, NewCells DEF TurnOK
  <2>3. Created(u, J.fields.available).moveOut = J.fields.available
    BY DEF Created, NoTurnover
  <2>4. turn'[u] = Created(u, J.fields.available)
    BY <2>1, <2>2
  <2>5. Intact(u, g)'
    BY <1>3, <1>8, <2>2, <2>3, <2>4 DEF Intact
  <2>6. J'.step = "update" /\ J'.target[1] = u /\ J'.target[2] = g
    BY <1>4, <1>6, <1>7, <1>12
  <2> QED BY <1>8, <1>9, <1>10, <2>5, <2>6 DEF Undisturbed
<1> QED BY <1>11, <1>12

LEMMA JobUpdateAlone ==
  ASSUME TypeInv, ServeInv, AloneInv, UpdateDue("job")
  PROVE  AloneInv'
<1>0. J.target[1] \in Units /\ J.step = "update"
  BY JobPlace DEF UpdateDue, J
<1> PICK u \in Units : u = J.target[1]
  BY <1>0
<1> PICK g : g = J.target[2]
  OBVIOUS
<1> DEFINE q1 == [J EXCEPT !.step = "forget", !.fields = NoFields, !.target = J.target]
           q2 == [J EXCEPT !.step = "next", !.target = <<>>, !.fields = NoFields]
<1>1. /\ notice' = notice
      /\ IF Applies(u, g) THEN Write(u, J.fields) /\ Set("job", q1)
         ELSE UNCHANGED turn /\ Set("job", q2)
  BY DEF UpdateDue, J
<1>2. DOMAIN J = Locals /\ J.stage = "create" /\ FieldsOK(J.fields)
  <2>1. LocalsOK("job", J)
    BY TypeFacts DEF J, Actors
  <2> QED BY <1>0, <2>1, UpdateDueIs DEF LocalsOK, PlaceOK, UpdateDue, J
<1>3. J.fields.available = J.rows[u].available /\ "available" \in DOMAIN J.fields
  BY <1>0 DEF ServeInv
<1>4. q1.step = "forget" /\ q1.rows = J.rows /\ q1.todo = J.todo /\ q1.target = J.target /\ q1.alone = J.alone
  BY <1>2 DEF Locals
<1>5. q2.step = "next" /\ q2.rows = J.rows /\ q2.todo = J.todo /\ q2.alone = J.alone
  BY <1>2 DEF Locals
<1> HIDE DEF q1, q2
<1>6. J' = IF Applies(u, g) THEN q1 ELSE q2
  BY <1>1, SetIs, JobPlace DEF J
<1>7. J'.rows = J.rows /\ J'.todo = J.todo /\ J'.alone = J.alone
  BY <1>4, <1>5, <1>6
<1> SUFFICES ASSUME J.alone PROVE Undisturbed'
  BY <1>7 DEF AloneInv
<1>8. /\ \A x \in J.todo : SameNotice(x[1]) /\ x = <<x[1], 0>>
      /\ SameNotice(u) /\ \A x \in J.todo : x[1] # u
      /\ Intact(u, g)
  BY <1>0, <1>2 DEF AloneInv, Undisturbed
<1>9. \A x : SameNotice(x)' <=> SameNotice(x)
  BY <1>1, <1>7 DEF SameNotice
<1>10. Applies(u, g)
  BY <1>8 DEF Applies, Intact
<1>11. J'.step = "forget" /\ J'.target = J.target /\ Write(u, J.fields)
  BY <1>1, <1>4, <1>6, <1>10
<1>12. turn'[u] = Over(J.fields, turn[u]) /\ turn[u] \in Cells
  BY <1>2, <1>11, WrittenIs, TypeFacts
<1>13. /\ turn'[u].gen = turn[u].gen /\ turn'[u].open = turn[u].open
       /\ turn'[u].moveOut = turn[u].moveOut
       /\ turn'[u].available = Now(J.fields, turn[u], "available")
  BY <1>2, <1>12, UpdatedColumns
<1>14. turn'[u].available = J.rows[u].available
  BY <1>3, <1>13 DEF Now
<1>15. Intact(u, g)'
  BY <1>7, <1>8, <1>13 DEF Intact
<1> QED BY <1>7, <1>8, <1>9, <1>11, <1>14, <1>15 DEF Undisturbed

LEMMA JobForgetAlone ==
  ASSUME TypeInv, AloneInv, JobForget
  PROVE  AloneInv'
<1> DEFINE q == [J EXCEPT !.step = "next", !.target = <<>>]
<1>1. /\ J.stage = "create" /\ J.step = "forget" /\ Set("job", q)
      /\ notice' = [notice EXCEPT ![J.target[1]] = NoNotice]
  BY DEF JobForget, At, J
<1>2. q.step = "next" /\ q.rows = J.rows /\ q.todo = J.todo /\ q.alone = J.alone
  BY <1>1, JobPlace DEF Locals
<1> HIDE DEF q
<1>3. J' = q
  BY <1>1, SetIs, JobPlace DEF J
<1> SUFFICES ASSUME J.alone PROVE Undisturbed'
  BY <1>2, <1>3 DEF AloneInv
<1>4. /\ \A x \in J.todo : SameNotice(x[1]) /\ x = <<x[1], 0>>
      /\ \A x \in J.todo : x[1] # J.target[1]
  BY <1>1 DEF AloneInv, Undisturbed
<1>5. \A u \in Units \ {J.target[1]} : notice'[u] = notice[u]
  BY <1>1 DEF TypeInv, TypeOK
<1>6. \A x \in J.todo : x[1] \in Units
  BY JobPlace
<1>7. \A x \in J'.todo : SameNotice(x[1])' /\ x = <<x[1], 0>>
  BY <1>2, <1>3, <1>4, <1>5, <1>6 DEF SameNotice
<1> QED BY <1>2, <1>3, <1>7 DEF Undisturbed

LEMMA AloneStep == TypeInv /\ ServeInv /\ AloneInv /\ [Next]_vars => AloneInv'
<1> SUFFICES ASSUME TypeInv, ServeInv, AloneInv, [Next]_vars PROVE AloneInv'
  OBVIOUS
<1>1. CASE UNCHANGED vars \/ Midnight
  <2>1. UNCHANGED <<proc, turn, notice>>
    BY <1>1 DEF vars, Midnight
  <2> QED BY <2>1 DEF AloneInv, Undisturbed, SameNotice, Intact, J
<1>2. CASE Job
  BY <1>2, JobReadAlone, JobLookAlone, JobCreateAlone, JobUpdateAlone, JobForgetAlone,
     JobElse, AloneNothing DEF Job
<1>3. ASSUME NEW a \in Actors, Fail(a) PROVE AloneInv'
  BY <1>3, OthersAside, AloneAside, JobElse, AloneNothing DEF Actors
<1> QED BY <1>1, <1>2, <1>3, OthersAside, AloneAside DEF Next

LEMMA AlwaysAlone == Spec => []AloneInv
<1>1. Init => AloneInv
  <2> SUFFICES ASSUME Init PROVE AloneInv
    OBVIOUS
  <2>1. J.stage = "idle"
    BY DEF Init, J, Actors, Idle
  <2> QED BY <2>1 DEF AloneInv
<1> QED BY <1>1, AloneStep, AlwaysTyped, AlwaysServes, PTL DEF Spec

\* Only the job drops a notice: an import replaces one by another.
LEMMA OnlyForgotten ==
  ASSUME TypeInv, [Next]_vars, NEW u \in Units, notice[u] # NoNotice, notice'[u] = NoNotice
  PROVE  J.step = "forget" /\ u = J.target[1]
<1>1. notice'[u] # notice[u]
  OBVIOUS
<1>2. CASE JobForget
  <2>1. /\ J.step = "forget" /\ notice' = [notice EXCEPT ![J.target[1]] = NoNotice]
    BY <1>2 DEF JobForget, At, J
  <2>2. NoticesOK
    BY DEF TypeInv, TypeOK, NoticesOK
  <2> QED BY <1>1, <2>1, <2>2 DEF NoticesOK
<1>3. ~ImportCommit
  <2> SUFFICES ASSUME ImportCommit PROVE FALSE
    OBVIOUS
  <2>1. \/ notice'[u] = notice[u]
        \/ /\ M.rows[u].available # NoDate
           /\ notice'[u] = [available |-> M.rows[u].available, ready |-> M.rows[u].ready]
    BY DEF ImportCommit, M
  <2> QED BY <1>1, <2>1 DEF NoNotice
<1>4. ~\/ UNCHANGED vars \/ Midnight \/ LoadBegin \/ Load
       \/ JobBegin \/ TransitionRead("job") \/ TransitionWrite("job") \/ JobRead \/ JobLook
       \/ CreateDue("job") \/ UpdateDue("job") \/ StageDone("job")
       \/ ImportRead \/ ImportCreate \/ ImportUpdate
       \/ PatchStatus \/ ChangeMoveOut \/ PatchReady \/ EndTurnover \/ CreateTurnover \/ \E a \in Actors : Fail(a)
  <2> SUFFICES ASSUME \/ UNCHANGED vars \/ Midnight \/ LoadBegin \/ Load
       \/ JobBegin \/ TransitionRead("job") \/ TransitionWrite("job") \/ JobRead \/ JobLook
       \/ CreateDue("job") \/ UpdateDue("job") \/ StageDone("job")
       \/ ImportRead \/ ImportCreate \/ ImportUpdate
       \/ PatchStatus \/ ChangeMoveOut \/ PatchReady \/ EndTurnover \/ CreateTurnover \/ \E a \in Actors : Fail(a)
       PROVE notice' = notice
    BY <1>1
  <2> QED BY DEF vars, Midnight, LoadBegin, Load, ReadReport, ReconcileRead, ReconcileWrite, EnsureLook,
       BackfillRead, BackfillWrite, JobBegin, TransitionRead, TransitionWrite, JobRead, JobLook,
       CreateDue, UpdateDue, StageDone, ImportRead, ImportCreate, ImportUpdate, PatchStatus, ChangeMoveOut,
       PatchReady,
       EndTurnover, CreateTurnover, ByHand, Fail
<1> QED BY <1>2, <1>3, <1>4 DEF Next, Job, Import

\* A notice leaves the table only when the job has found one of the unit due and
\* has made a turnover of that, with its date, or that turnover has ended since; if
\* nobody was at work meanwhile, it is the notice that the job has read
\* (run_on_notice_turnover_creation).
THEOREM NoticesKept == Spec => NoticeKept
<1> DEFINE Kept(u) ==
      LET p    == proc["job"]
          made == p.target[2]
      IN  /\ p.target[1] = u /\ Arrived(p.rows[u], p.day)
          /\ made \in 1..turn[u].gen
          /\ turn[u].open /\ turn[u].gen = made => turn[u].available # NoDate
          /\ p.alone =>
               /\ notice[u] = [available |-> p.rows[u].available, ready |-> p.rows[u].ready]
               /\ turn[u].open /\ turn[u].gen = made
               /\ turn[u].moveOut = notice[u].available /\ turn[u].available = notice[u].available
<1>1. TypeInv /\ ServeInv /\ AloneInv /\ [Next]_vars
        => [\A u \in Units : notice[u] # NoNotice /\ notice'[u] = NoNotice => Kept(u)]_vars
  <2> SUFFICES ASSUME TypeInv, ServeInv, AloneInv, Next, NEW u \in Units,
                      notice[u] # NoNotice, notice'[u] = NoNotice
               PROVE  Kept(u)
    OBVIOUS
  <2>1. J.step = "forget" /\ u = J.target[1]
    BY OnlyForgotten
  <2>2. /\ Arrived(J.rows[u], J.day) /\ J.target[2] \in 1..turn[u].gen
        /\ turn[u].open /\ turn[u].gen = J.target[2] => turn[u].available # NoDate
    BY <2>1 DEF ServeInv, RunOut, Made, HasDate
  <2>3. ASSUME J.alone
        PROVE  /\ notice[u] = [available |-> J.rows[u].available, ready |-> J.rows[u].ready]
               /\ turn[u].open /\ turn[u].gen = J.target[2]
               /\ turn[u].moveOut = notice[u].available /\ turn[u].available = notice[u].available
    <3>1. J.stage = "create"
      <4>1. LocalsOK("job", J)
        BY TypeFacts DEF J, Actors
      <4> QED BY <2>1, <4>1 DEF LocalsOK, PlaceOK
    <3>2. Undisturbed
      BY <2>1, <2>3, <3>1 DEF AloneInv
    <3>3. SameNotice(u) /\ Intact(u, J.target[2]) /\ turn[u].available = J.rows[u].available
      BY <2>1, <3>2 DEF Undisturbed
    <3>4. notice[u].available = J.rows[u].available
      BY <3>3 DEF SameNotice
    <3> QED BY <3>3, <3>4 DEF SameNotice, Intact
  <2> QED BY <2>1, <2>2, <2>3 DEF J
<1>2. [\A u \in Units : notice[u] # NoNotice /\ notice'[u] = NoNotice => Kept(u)]_vars
        => [\A u \in Units : notice[u] # NoNotice /\ notice'[u] = NoNotice =>
              LET p    == proc["job"]
                  made == p.target[2]
              IN  /\ p.target[1] = u /\ Arrived(p.rows[u], p.day)
                  /\ made \in 1..turn[u].gen
                  /\ turn[u].open /\ turn[u].gen = made => turn[u].available # NoDate
                  /\ p.alone =>
                       /\ notice[u] = [available |-> p.rows[u].available, ready |-> p.rows[u].ready]
                       /\ turn[u].open /\ turn[u].gen = made
                       /\ turn[u].moveOut = notice[u].available /\ turn[u].available = notice[u].available]_vars
  OBVIOUS
<1> QED BY <1>1, <1>2, AlwaysTyped, AlwaysServes, AlwaysAlone, PTL DEF Spec, NoticeKept
=============================================================================
