----------------------- MODULE TurnoverServiceProofs -----------------------
(***************************************************************************)
(* Proofs about TurnoverService, for any callers, units, ids, operations,  *)
(* calendar and threshold.                                                 *)
(***************************************************************************)
EXTENDS TurnoverService, TLAPS

USE DEF Days, EventIds

-----------------------------------------------------------------------------
(***************************************************************************)
(* Types of the operators the actions are built from.                      *)
(***************************************************************************)

\* sla_risk returns one of its three levels for any row, day and threshold.
LEMMA SlaRiskType ==
  ASSUME NEW r, NEW day, NEW threshold
  PROVE  SlaRisk(r, day, threshold) \in SlaLevels
BY DEF SlaRisk, SlaLevels

\* A unit and a turnover exist, so the defaults of idle calls are well typed.
LEMMA DefaultsType == AnyUnit \in Units /\ AnyTurnover \in Turnovers
BY ConstantsOK DEF AnyUnit, AnyTurnover

\* A fresh row of turnover_repository.insert is a row.
LEMMA NewRowType ==
  ASSUME NEW u \in Units, NEW day \in Days
  PROVE  NewRow(u, day) \in Rows
BY DEF NewRow, Rows

\* Every operation's UPDATE keeps the columns' types.
LEMMA WrittenType ==
  ASSUME NEW r \in Rows, NEW op \in AllOps, NEW day \in Days
  PROVE  Written(r, op, day) \in Rows
BY DEF Written, Rows, AllOps

\* An idle caller's locals are well typed.
LEMMA NoCallType == NoCall \in Calls
<1>1. 0 \in Days
  BY ConstantsOK
<1>2. NewRow(AnyUnit, 0) \in Rows
  BY <1>1, DefaultsType, NewRowType
<1>. QED
  BY <1>1, <1>2, ConstantsOK, DefaultsType DEF NoCall, Calls, Steps, AllOps, SlaLevels

\* sync_risk_from_sla starts at a statement of its own for every level.
LEMMA FirstSyncStepType ==
  ASSUME NEW level \in SlaLevels
  PROVE  FirstSyncStep(level) \in Steps
BY DEF FirstSyncStep, SlaLevels, Steps

\* Changing the statement of one call keeps all calls well typed.
LEMMA GotoType ==
  ASSUME TypeOK, NEW c \in Callers, NEW step \in Steps, Goto(c, step)
  PROVE  call' \in [Callers -> Calls]
BY DEF TypeOK, Goto, Calls

\* So does ending one.
LEMMA FinishType ==
  ASSUME TypeOK, NEW c \in Callers, Finish(c)
  PROVE  call' \in [Callers -> Calls]
BY NoCallType DEF TypeOK, Finish

\* Return records a level or "unknown" and ends the call.
LEMMA ReturnType ==
  ASSUME TypeOK, NEW c \in Callers, Return(c)
  PROVE  /\ call' \in [Callers -> Calls]
         /\ synced' \in [Turnovers -> SlaLevels \cup {"unknown"}]
<1>1. call' \in [Callers -> Calls]
  BY FinishType DEF Return
<1>2. call[c].level \in SlaLevels
  BY DEF TypeOK, Calls
<1>. QED
  BY <1>1, <1>2 DEF TypeOK, Return

-----------------------------------------------------------------------------
(***************************************************************************)
(* Type correctness.                                                       *)
(***************************************************************************)

\* The empty database and idle callers are well typed.
LEMMA TypeInit == Init => TypeOK
<1>. SUFFICES ASSUME Init PROVE TypeOK
  OBVIOUS
<1>1. 0 \in Days /\ 0 \in EventIds
  BY ConstantsOK
<1>2. NewRow(AnyUnit, 0) \in Rows
  BY <1>1, DefaultsType, NewRowType
<1>. QED
  BY <1>1, <1>2, NoCallType DEF Init, TypeOK

\* Every statement keeps the types.
LEMMA TypeStep == TypeOK /\ [Next]_vars => TypeOK'
<1>. SUFFICES ASSUME TypeOK, [Next]_vars PROVE TypeOK'
  OBVIOUS
<1>1. CASE UNCHANGED vars
  BY <1>1 DEF vars, TypeOK, riskVars
<1>2. CASE Midnight
  BY <1>2, ConstantsOK DEF Midnight, TypeOK, riskVars
<1>3. ASSUME NEW c \in Callers, CreateCheck(c) PROVE TypeOK'
  <2>1. PICK u \in Units, day \in Days :
          call' = [call EXCEPT ![c] = [NoCall EXCEPT !.step = "insert",
                                                     !.unit = u, !.day = day]]
    BY <1>3 DEF CreateCheck
  <2>2. [NoCall EXCEPT !.step = "insert", !.unit = u, !.day = day] \in Calls
    BY NoCallType DEF Calls, Steps
  <2>. QED
    BY <1>3, <2>1, <2>2 DEF CreateCheck, TypeOK, riskVars
<1>4. ASSUME NEW c \in Callers, CreateCommit(c) PROVE TypeOK'
  <2>. DEFINE r == NewRow(call[c].unit, call[c].day)
              level == SlaRisk(r, today, SlaThreshold)
  <2>1. PICK t \in Turnovers \ inserted :
          /\ level = "BREACH" => EventBound > 0
          /\ inserted' = inserted \cup {t}
          /\ row' = [row EXCEPT ![t] = r]
          /\ flags' = [flags EXCEPT ![t] = CASE level = "BREACH" -> {"SLA_BREACH"}
                                             [] level = "WARNING" -> {"SLA_WARNING"}
                                             [] OTHER -> {}]
          /\ openEvent' = [openEvent EXCEPT ![t] = IF level = "BREACH" THEN 1 ELSE 0]
          /\ lastEvent' = [lastEvent EXCEPT ![t] = IF level = "BREACH" THEN 1 ELSE 0]
          /\ synced' = [synced EXCEPT ![t] = level]
    BY <1>4 DEF CreateCommit
  <2>2. r \in Rows
    BY NewRowType DEF TypeOK, Calls
  <2>3. level \in SlaLevels
    BY SlaRiskType
  <2>4. call' \in [Callers -> Calls]
    BY <1>4, FinishType DEF CreateCommit
  <2>5. today' \in Days
    BY <1>4 DEF CreateCommit, TypeOK
  <2>6. inserted' \subseteq Turnovers /\ row' \in [Turnovers -> Rows]
    BY <2>1, <2>2 DEF TypeOK
  <2>7. flags' \in [Turnovers -> SUBSET Flags]
    BY <2>1, <2>3 DEF TypeOK, Flags, SlaLevels
  <2>8. (IF level = "BREACH" THEN 1 ELSE 0) \in EventIds
    BY <2>1, ConstantsOK
  <2>9. openEvent' \in [Turnovers -> EventIds] /\ lastEvent' \in [Turnovers -> EventIds]
    BY <2>1, <2>8 DEF TypeOK
  <2>10. synced' \in [Turnovers -> SlaLevels \cup {"unknown"}]
    BY <2>1, <2>3 DEF TypeOK
  <2>. QED
    BY <2>4, <2>5, <2>6, <2>7, <2>9, <2>10 DEF TypeOK
<1>5. ASSUME NEW c \in Callers, Begin(c) PROVE TypeOK'
  <2>1. PICK t \in inserted, op \in Ops, day \in Days :
          call' = [d \in Callers |->
            IF d = c
              THEN [NoCall EXCEPT !.step = "lookup", !.op = op, !.id = t, !.day = day,
                                  !.alone = Others(c, t) = {}]
            ELSE IF d \in Others(c, t) THEN [call[d] EXCEPT !.alone = FALSE]
            ELSE call[d]]
    BY <1>5 DEF Begin
  <2>2. [NoCall EXCEPT !.step = "lookup", !.op = op, !.id = t, !.day = day,
                       !.alone = Others(c, t) = {}] \in Calls
    <3>1. op \in AllOps /\ t \in Turnovers
      BY ConstantsOK DEF TypeOK
    <3>2. (Others(c, t) = {}) \in BOOLEAN
      OBVIOUS
    <3>. QED
      BY <3>1, <3>2, NoCallType DEF Calls, Steps
  <2>3. ASSUME NEW d \in Callers PROVE [call[d] EXCEPT !.alone = FALSE] \in Calls
    BY DEF TypeOK, Calls
  <2>4. call' \in [Callers -> Calls]
    BY <2>1, <2>2, <2>3 DEF TypeOK
  <2>. QED
    BY <1>5, <2>4 DEF Begin, TypeOK, riskVars
<1>6. ASSUME NEW c \in Callers, Lookup(c) PROVE TypeOK'
  <2>1. call' \in [Callers -> Calls]
    BY <1>6, GotoType, FinishType DEF Lookup, Steps
  <2>. QED
    BY <1>6, <2>1 DEF Lookup, TypeOK, riskVars
<1>7. ASSUME NEW c \in Callers, Write(c) PROVE TypeOK'
  <2>. DEFINE t == call[c].id
              r == Written(row[t], call[c].op, call[c].day)
  <2>1. r \in Rows
    BY WrittenType DEF TypeOK, Calls
  <2>2. call' \in [Callers -> Calls]
    <3>1. [call[c] EXCEPT !.step = "evaluate", !.updated = r] \in Calls
      BY <2>1 DEF TypeOK, Calls, Steps
    <3>. QED
      BY <1>7, <3>1 DEF Write, TypeOK
  <2>3. row' \in [Turnovers -> Rows]
    BY <1>7, <2>1 DEF Write, TypeOK
  <2>4. synced' \in [Turnovers -> SlaLevels \cup {"unknown"}]
    BY <1>7 DEF Write, TypeOK
  <2>. QED
    BY <1>7, <2>2, <2>3, <2>4 DEF Write, TypeOK, riskVars
<1>8. ASSUME NEW c \in Callers, Fail(c) PROVE TypeOK'
  BY <1>8, FinishType DEF Fail, TypeOK, riskVars
<1>9. ASSUME NEW c \in Callers, SyncRisk(c) PROVE TypeOK'
  <2>1. CASE Evaluate(c)
    <3>. DEFINE level == SlaRisk(call[c].updated, today, SlaThreshold)
    <3>1. level \in SlaLevels /\ FirstSyncStep(level) \in Steps
      BY SlaRiskType, FirstSyncStepType
    <3>2. NewRow(AnyUnit, 0) \in Rows
      BY ConstantsOK, DefaultsType, NewRowType
    <3>3. [call[c] EXCEPT !.step = FirstSyncStep(level), !.level = level,
                          !.updated = NewRow(AnyUnit, 0)] \in Calls
      BY <3>1, <3>2 DEF TypeOK, Calls
    <3>4. call' \in [Callers -> Calls]
      BY <2>1, <3>3 DEF Evaluate, TypeOK
    <3>. QED
      BY <2>1, <3>4 DEF Evaluate, TypeOK, riskVars
  <2>2. CASE FindEvent(c)
    <3>1. call' \in [Callers -> Calls]
      BY <2>2, GotoType DEF FindEvent, Steps
    <3>. QED
      BY <2>2, <3>1 DEF FindEvent, TypeOK, riskVars
  <2>3. CASE InsertEvent(c)
    <3>1. call' \in [Callers -> Calls]
      BY <2>3, GotoType DEF InsertEvent, Steps
    <3>2. call[c].id \in Turnovers
      BY DEF TypeOK, Calls
    <3>3. lastEvent[call[c].id] + 1 \in EventIds
      BY <2>3, <3>2, ConstantsOK DEF InsertEvent, TypeOK
    <3>. QED
      BY <2>3, <3>1, <3>2, <3>3 DEF InsertEvent, TypeOK
  <2>4. ASSUME NEW flag \in Flags, NEW find, NEW insert \in Steps,
               FindFlag(c, flag, find, insert)
        PROVE  TypeOK'
    <3>1. call' \in [Callers -> Calls] /\ synced' \in [Turnovers -> SlaLevels \cup {"unknown"}]
      BY <2>4, GotoType, ReturnType DEF FindFlag, TypeOK
    <3>. QED
      BY <2>4, <3>1 DEF FindFlag, TypeOK, riskVars
  <2>5. ASSUME NEW flag \in Flags, NEW insert, InsertFlag(c, flag, insert)
        PROVE  TypeOK'
    <3>1. call' \in [Callers -> Calls] /\ synced' \in [Turnovers -> SlaLevels \cup {"unknown"}]
      BY <2>5, ReturnType DEF InsertFlag
    <3>. QED
      BY <2>5, <3>1 DEF InsertFlag, TypeOK
  <2>6. ASSUME NEW flag, NEW step, NEW next \in Steps, ResolveFlag(c, flag, step, next)
        PROVE  TypeOK'
    <3>1. call' \in [Callers -> Calls]
      BY <2>6, GotoType DEF ResolveFlag
    <3>. QED
      BY <2>6, <3>1 DEF ResolveFlag, TypeOK
  <2>7. CASE FindOpenEvent(c)
    <3>1. CASE openEvent[call[c].id] = 0
      BY <2>7, <3>1, ReturnType DEF FindOpenEvent, TypeOK, riskVars
    <3>2. CASE openEvent[call[c].id] # 0
      <4>1. call[c].id \in Turnovers /\ openEvent[call[c].id] \in EventIds
        BY DEF TypeOK, Calls
      <4>2. [call[c] EXCEPT !.step = "resolve_event", !.event = openEvent[call[c].id]] \in Calls
        BY <4>1 DEF TypeOK, Calls, Steps
      <4>3. call' \in [Callers -> Calls]
        BY <2>7, <3>2, <4>2 DEF FindOpenEvent, TypeOK
      <4>. QED
        BY <2>7, <3>2, <4>3 DEF FindOpenEvent, TypeOK, riskVars
    <3>. QED
      BY <3>1, <3>2
  <2>8. CASE ResolveEvent(c)
    <3>1. call' \in [Callers -> Calls] /\ synced' \in [Turnovers -> SlaLevels \cup {"unknown"}]
      BY <2>8, ReturnType DEF ResolveEvent
    <3>2. 0 \in EventIds /\ call[c].id \in Turnovers
      BY ConstantsOK DEF TypeOK, Calls
    <3>3. openEvent' \in [Turnovers -> EventIds]
      <4>. HIDE DEF EventIds
      <4>. QED
        BY <2>8, <3>2 DEF ResolveEvent, TypeOK
    <3>. QED
      BY <2>8, <3>1, <3>3 DEF ResolveEvent, TypeOK
  <2>9. {"SLA_BREACH", "SLA_WARNING"} \subseteq Flags
        /\ {"insert_breach_flag", "insert_warning_flag", "resolve_warning_flag",
            "find_open_event"} \subseteq Steps
    BY DEF Flags, Steps
  <2>. QED
    BY <1>9, <2>1, <2>2, <2>3, <2>4, <2>5, <2>6, <2>7, <2>8, <2>9 DEF SyncRisk
<1>. QED
  BY <1>1, <1>2, <1>3, <1>4, <1>5, <1>6, <1>7, <1>8, <1>9 DEF Next

\* The tables, the calendar and the callers' locals always have their types.
THEOREM TypeCorrect == Spec => []TypeOK
BY TypeInit, TypeStep, PTL DEF Spec

-----------------------------------------------------------------------------
(***************************************************************************)
(* The turnover table: only the commit of a creation and the UPDATE of     *)
(* update_turnover touch it, and the constraints guard both.               *)
(***************************************************************************)

\* Every step leaves the table alone, inserts one admitted row, or updates one
\* row to an admitted one.
LEMMA TableSteps ==
  ASSUME TypeOK, [Next]_vars
  PROVE  \/ UNCHANGED <<inserted, row>>
         \/ \E c \in Callers : CreateCommit(c)
         \/ \E c \in Callers : Write(c)
<1>1. CASE UNCHANGED vars
  BY <1>1 DEF vars
<1>2. CASE Midnight
  BY <1>2 DEF Midnight
<1>3. ASSUME NEW c \in Callers,
             CreateCheck(c) \/ Begin(c) \/ Lookup(c) \/ Fail(c) \/ SyncRisk(c)
      PROVE  UNCHANGED <<inserted, row>>
  BY <1>3 DEF CreateCheck, Begin, Lookup, Fail, SyncRisk, Evaluate, FindEvent, InsertEvent,
              FindFlag, InsertFlag, ResolveFlag, FindOpenEvent, ResolveEvent
<1>. QED
  BY <1>1, <1>2, <1>3 DEF Next

\* A new row is open and carries the caller's unit.
LEMMA NewRowFields ==
  ASSUME NEW u, NEW day
  PROVE  /\ NewRow(u, day).unit = u
         /\ IsOpen(NewRow(u, day))
BY DEF NewRow, IsOpen

\* No operation moves a row to another unit, and none takes back its end.
LEMMA WrittenFields ==
  ASSUME NEW r \in Rows, NEW op \in AllOps, NEW day \in Days
  PROVE  /\ Written(r, op, day).unit = r.unit
         /\ r.closed => Written(r, op, day).closed
         /\ r.canceled => Written(r, op, day).canceled
BY DEF Written, Rows, AllOps

\* What the commit of a creation does to the table.
LEMMA CreateEffect ==
  ASSUME TypeOK, NEW c \in Callers, CreateCommit(c)
  PROVE  \E t \in Turnovers \ inserted, u \in Units, day \in Days :
           /\ IndexAllows(t, NewRow(u, day))
           /\ inserted' = inserted \cup {t}
           /\ row' = [row EXCEPT ![t] = NewRow(u, day)]
<1>1. call[c].unit \in Units /\ call[c].day \in Days
  BY DEF TypeOK, Calls
<1>2. PICK t \in Turnovers \ inserted :
        /\ IndexAllows(t, NewRow(call[c].unit, call[c].day))
        /\ inserted' = inserted \cup {t}
        /\ row' = [row EXCEPT ![t] = NewRow(call[c].unit, call[c].day)]
  BY DEF CreateCommit
<1>. QED
  BY <1>1, <1>2

\* What the UPDATE does to it.
LEMMA WriteEffect ==
  ASSUME TypeOK, NEW c \in Callers, Write(c)
  PROVE  \E t \in Turnovers, op \in AllOps, day \in Days :
           /\ CheckAllows(Written(row[t], op, day))
           /\ IndexAllows(t, Written(row[t], op, day))
           /\ row' = [row EXCEPT ![t] = Written(row[t], op, day)]
           /\ inserted' = inserted
<1>1. call[c].id \in Turnovers /\ call[c].op \in AllOps /\ call[c].day \in Days
  BY DEF TypeOK, Calls
<1>. QED
  BY <1>1 DEF Write

\* Every row passed the CHECKs when it was written.
RowsConsistent ==
  \A t \in inserted :
    /\ row[t].installed => row[t].notified
    /\ ~(row[t].closed /\ row[t].canceled)

\* The two constraints of the table, which between them decide every race.
TableInv == OneOpenTurnover /\ RowsConsistent

\* An empty table satisfies its constraints.
LEMMA TableInit == Init => TableInv
BY DEF Init, TableInv, OneOpenTurnover, RowsConsistent

\* Every statement keeps them.
LEMMA TableStep == TypeOK /\ TableInv /\ [Next]_vars => TableInv'
<1>. SUFFICES ASSUME TypeOK, TableInv, [Next]_vars PROVE TableInv'
  OBVIOUS
<1>1. CASE UNCHANGED <<inserted, row>>
  BY <1>1 DEF TableInv, OneOpenTurnover, RowsConsistent
<1>2. ASSUME NEW c \in Callers, CreateCommit(c) PROVE TableInv'
  <2>1. PICK t \in Turnovers \ inserted, u \in Units, day \in Days :
          /\ IndexAllows(t, NewRow(u, day))
          /\ inserted' = inserted \cup {t}
          /\ row' = [row EXCEPT ![t] = NewRow(u, day)]
    BY <1>2, CreateEffect
  <2>2. /\ row'[t] = NewRow(u, day)
        /\ \A s \in inserted : s # t /\ row'[s] = row[s]
    BY <2>1 DEF TypeOK
  <2>3. \A s \in inserted : IsOpen(row[s]) => row[s].unit # u
    BY <2>1, NewRowFields DEF IndexAllows
  <2>4. OneOpenTurnover'
    BY <2>1, <2>2, <2>3, NewRowFields DEF TableInv, OneOpenTurnover
  <2>5. RowsConsistent'
    BY <2>1, <2>2 DEF TableInv, RowsConsistent, NewRow
  <2>. QED
    BY <2>4, <2>5 DEF TableInv
<1>3. ASSUME NEW c \in Callers, Write(c) PROVE TableInv'
  <2>1. PICK t \in Turnovers, op \in AllOps, day \in Days :
          /\ CheckAllows(Written(row[t], op, day))
          /\ IndexAllows(t, Written(row[t], op, day))
          /\ row' = [row EXCEPT ![t] = Written(row[t], op, day)]
          /\ inserted' = inserted
    BY <1>3, WriteEffect
  <2>2. /\ row'[t] = Written(row[t], op, day)
        /\ \A s \in inserted \ {t} : row'[s] = row[s]
    BY <2>1 DEF TypeOK
  <2>3. OneOpenTurnover'
    BY <2>1, <2>2 DEF TableInv, OneOpenTurnover, IndexAllows
  <2>4. RowsConsistent'
    BY <2>1, <2>2 DEF TableInv, RowsConsistent, CheckAllows
  <2>. QED
    BY <2>3, <2>4 DEF TableInv
<1>. QED
  BY <1>1, <1>2, <1>3, TableSteps

\* However the calls interleave, a unit never has two open turnovers.
THEOREM OneOpen == Spec => []OneOpenTurnover
<1>1. TypeOK /\ TableInv /\ [Next]_vars => (TypeOK /\ TableInv)'
  BY TypeStep, TableStep
<1>2. TableInv => OneOpenTurnover
  BY DEF TableInv
<1>. QED
  BY <1>1, <1>2, TypeInit, TableInit, PTL DEF Spec

-----------------------------------------------------------------------------
(***************************************************************************)
(* The service implements the ledger.                                      *)
(***************************************************************************)

\* A row's stage, from the two end columns alone.
LEMMA StageOf ==
  ASSUME TypeOK, RowsConsistent, NEW t \in Turnovers
  PROVE  /\ Stage(t) = "absent" <=> t \notin inserted
         /\ Stage(t) = "open" <=> t \in inserted /\ IsOpen(row[t])
         /\ Stage(t) = "closed" <=> t \in inserted /\ row[t].closed
         /\ Stage(t) = "canceled" <=> t \in inserted /\ row[t].canceled
         /\ Stage(t) \in {"absent", "open", "closed", "canceled"}
BY DEF Stage, RowsConsistent, IsOpen, TypeOK, Rows

\* The empty table is an empty ledger.
LEMMA LedgerInit == Init => Ledger!Init
<1>. SUFFICES ASSUME Init PROVE Ledger!Init
  OBVIOUS
<1>1. \A t \in Turnovers : Stage(t) = "absent"
  BY DEF Init, Stage
<1>2. \A t \in Turnovers : row[t].unit \in Units
  BY DefaultsType DEF Init, NewRow
<1>. QED
  BY <1>1, <1>2 DEF Ledger!Init

\* Every statement opens one turnover, ends one, or leaves the ledger alone.
LEMMA LedgerStep ==
  TypeOK /\ TableInv /\ (TypeOK /\ TableInv)' /\ [Next]_vars => [Ledger!Next]_(Ledger!vars)
<1>. SUFFICES ASSUME TypeOK, TableInv, TypeOK', TableInv', [Next]_vars
              PROVE  Ledger!Next \/ UNCHANGED Ledger!vars
  OBVIOUS
<1>. DEFINE stage == [t \in Turnovers |-> Stage(t)]
            unitOf == [t \in Turnovers |-> row[t].unit]
<1>0. RowsConsistent /\ RowsConsistent' /\ OneOpenTurnover
  BY DEF TableInv
<1>1. CASE UNCHANGED <<inserted, row>>
  BY <1>1 DEF Ledger!vars, Stage
<1>2. ASSUME NEW c \in Callers, CreateCommit(c) PROVE Ledger!Next
  <2>1. PICK t \in Turnovers \ inserted, u \in Units, day \in Days :
          /\ IndexAllows(t, NewRow(u, day))
          /\ inserted' = inserted \cup {t}
          /\ row' = [row EXCEPT ![t] = NewRow(u, day)]
    BY <1>2, CreateEffect
  <2>2. row'[t] = NewRow(u, day) /\ \A s \in Turnovers \ {t} : row'[s] = row[s]
    BY <2>1 DEF TypeOK
  <2>3. Stage(t) = "absent"
    BY <2>1 DEF Stage
  <2>4. \A s \in Turnovers : Stage(s) = "open" => row[s].unit # u
    BY <2>1, <1>0, StageOf, NewRowFields DEF IndexAllows
  <2>5. Stage(t)' = "open"
    BY <2>1, <2>2, NewRowFields DEF Stage, IsOpen
  <2>6. \A s \in Turnovers \ {t} : Stage(s)' = Stage(s)
    BY <2>1, <2>2 DEF Stage
  <2>7. stage' = [stage EXCEPT ![t] = "open"]
    BY <2>5, <2>6
  <2>8. unitOf' = [unitOf EXCEPT ![t] = u]
    <3>1. row'[t].unit = u /\ \A s \in Turnovers \ {t} : row'[s].unit = row[s].unit
      BY <2>2, NewRowFields
    <3>. QED
      BY <3>1
  <2>9. Ledger!Open(t, u)
    BY <2>1, <2>3, <2>4, <2>7, <2>8 DEF Ledger!Open
  <2>. QED
    BY <2>9 DEF Ledger!Next
<1>3. ASSUME NEW c \in Callers, Write(c) PROVE Ledger!Next \/ UNCHANGED Ledger!vars
  <2>1. PICK t \in Turnovers, op \in AllOps, day \in Days :
          /\ row' = [row EXCEPT ![t] = Written(row[t], op, day)]
          /\ inserted' = inserted
    BY <1>3, WriteEffect
  <2>2. /\ row[t] \in Rows
        /\ row'[t] = Written(row[t], op, day)
        /\ \A s \in Turnovers \ {t} : row'[s] = row[s]
    BY <2>1 DEF TypeOK
  <2>3. \A s \in Turnovers \ {t} : Stage(s)' = Stage(s)
    BY <2>1, <2>2 DEF Stage
  <2>4. unitOf' = unitOf
    BY <2>2, WrittenFields
  <2>5. CASE Stage(t)' = Stage(t)
    <3>1. stage' = stage
      BY <2>3, <2>5
    <3>. QED
      BY <3>1, <2>4 DEF Ledger!vars
  <2>6. CASE Stage(t)' # Stage(t)
    <3>1. \/ ~(t \in inserted)
          \/ t \in inserted /\ row[t].closed
          \/ t \in inserted /\ row[t].canceled
          \/ Stage(t) = "open"
      BY DEF Stage
    <3>2. ASSUME t \notin inserted PROVE FALSE
      BY <3>2, <2>1, <2>6 DEF Stage
    <3>3. ASSUME t \in inserted, row[t].closed PROVE FALSE
      <4>1. row'[t].closed
        BY <3>3, <2>2, WrittenFields
      <4>2. Stage(t) = "closed"
        BY <3>3, <1>0, StageOf
      <4>3. ~row'[t].canceled
        BY <4>1, <3>3, <2>1, <1>0 DEF RowsConsistent
      <4>4. Stage(t)' = "closed"
        BY <3>3, <4>1, <4>3, <2>1 DEF Stage
      <4>. QED
        BY <4>2, <4>4, <2>6
    <3>4. ASSUME t \in inserted, row[t].canceled PROVE FALSE
      <4>1. row'[t].canceled
        BY <3>4, <2>2, WrittenFields
      <4>2. Stage(t) = "canceled"
        BY <3>4, <1>0, StageOf
      <4>3. ~row'[t].closed
        BY <4>1, <3>4, <2>1, <1>0 DEF RowsConsistent
      <4>4. Stage(t)' = "canceled"
        BY <3>4, <4>1, <4>3, <2>1 DEF Stage
      <4>. QED
        BY <4>2, <4>4, <2>6
    <3>5. Stage(t) = "open" /\ t \in inserted
      BY <3>1, <3>2, <3>3, <3>4
    <3>6. Stage(t)' \in {"closed", "canceled"}
      <4>1. t \in inserted'
        BY <3>5, <2>1
      <4>2. ~(row'[t].closed /\ row'[t].canceled)
        BY <4>1, <1>0 DEF RowsConsistent
      <4>. QED
        BY <4>1, <4>2, <3>5, <2>6 DEF Stage
    <3>7. stage' = [stage EXCEPT ![t] = Stage(t)']
      BY <2>3
    <3>8. Ledger!End(t, Stage(t)')
      BY <3>5, <3>7, <2>4 DEF Ledger!End
    <3>. QED
      BY <3>6, <3>8 DEF Ledger!Next
  <2>. QED
    BY <2>5, <2>6
<1>. QED
  BY <1>1, <1>2, <1>3, TableSteps

\* However its calls interleave, fail half way or overlap midnight, the service
\* opens and ends turnovers the way the ledger does.
THEOREM Implements == Spec => LedgerSpec
<1>1. TypeOK /\ TableInv /\ [Next]_vars => (TypeOK /\ TableInv)'
  BY TypeStep, TableStep
<1>. QED
  BY <1>1, TypeInit, TableInit, LedgerInit, LedgerStep, PTL DEF Spec, LedgerSpec, Ledger!Spec

-----------------------------------------------------------------------------
(***************************************************************************)
(* A call that ran alone on its turnover leaves the risk tables saying     *)
(* what it evaluated.  The invariant that carries this follows the call    *)
(* through sync_risk_from_sla, statement by statement.                     *)
(***************************************************************************)

Busy(c) == call[c].step \notin {"idle", "insert"}

Syncing(c) == call[c].step \notin {"idle", "insert", "lookup", "write"}

\* The level a call acts on is the one its branch is for.
BranchInv(c) ==
  /\ call[c].step \in {"find_event", "insert_event", "find_breach_flag", "insert_breach_flag"}
       => call[c].level = "BREACH"
  /\ call[c].step \in {"find_warning_flag", "insert_warning_flag"}
       => call[c].level = "WARNING"
  /\ call[c].step \in {"resolve_breach_flag", "resolve_warning_flag",
                       "find_open_event", "resolve_event"}
       => call[c].level = "OK"

\* What the statements a call has run so far have made of the risk tables.
ProgressInv(c) ==
  LET t == call[c].id
      step == call[c].step
  IN  /\ step \in {"find_breach_flag", "insert_breach_flag"} => openEvent[t] # 0
      /\ step \in {"resolve_warning_flag", "find_open_event", "resolve_event"}
           => "SLA_BREACH" \notin flags[t]
      /\ step \in {"find_open_event", "resolve_event"} => "SLA_WARNING" \notin flags[t]
      /\ step = "resolve_event" => openEvent[t] = call[c].event

\* A call has a row, is alone if it believes so, has withdrawn the turnover's
\* synced level before it touches the tables, and, when alone, has made progress.
CallInv(c) ==
  /\ Busy(c) => call[c].id \in inserted
  /\ Busy(c) /\ call[c].alone => Others(c, call[c].id) = {}
  /\ Syncing(c) => synced[call[c].id] = "unknown"
  /\ BranchInv(c)
  /\ Busy(c) /\ call[c].alone => ProgressInv(c)

\* RiskTablesAgree for one turnover.
Agree(t) ==
  /\ synced[t] = "OK" => flags[t] = {} /\ openEvent[t] = 0
  /\ synced[t] = "WARNING" => "SLA_WARNING" \in flags[t]
  /\ synced[t] = "BREACH" => "SLA_BREACH" \in flags[t] /\ openEvent[t] # 0

SyncInv ==
  /\ \A c \in Callers : CallInv(c)
  /\ \A t \in inserted : Agree(t)

-----------------------------------------------------------------------------
\* With no rows and no calls there is nothing to disagree about.
LEMMA SyncInit == Init => SyncInv
BY DEF Init, SyncInv, CallInv, BranchInv, Busy, Syncing, NoCall

\* An idle caller satisfies its invariant whatever the tables hold.
LEMMA IdleCallInv ==
  ASSUME NEW c \in Callers, call[c].step \in {"idle", "insert"}
  PROVE  CallInv(c)
BY DEF CallInv, BranchInv, Busy, Syncing

\* A step that leaves calls and tables alone keeps the invariant.
LEMMA SyncStutter ==
  ASSUME SyncInv, UNCHANGED <<inserted, riskVars, call, synced>>
  PROVE  SyncInv'
BY DEF SyncInv, CallInv, BranchInv, ProgressInv, Busy, Syncing, Others, Agree, riskVars

\* A call c touches the risk tables of its own turnover only.  So every other
\* call keeps its invariant: one that is alone is on another turnover, and one
\* on this turnover finds its synced level still withdrawn, c not being alone.
LEMMA OwnTurnover ==
  ASSUME TypeOK, SyncInv, NEW c \in Callers, Busy(c),
         UNCHANGED inserted,
         \A d \in Callers \ {c} : call'[d] = call[d],
         \/ call'[c].step = "idle"
         \/ Busy(c)' /\ call'[c].id = call[c].id /\ call'[c].alone = call[c].alone,
         \A s \in Turnovers \ {call[c].id} :
           flags'[s] = flags[s] /\ openEvent'[s] = openEvent[s] /\ synced'[s] = synced[s],
         \/ synced'[call[c].id] \in {synced[call[c].id], "unknown"}
         \/ call[c].alone,
         Syncing(c)' => synced'[call[c].id] = "unknown",
         BranchInv(c)',
         Busy(c)' /\ call[c].alone => ProgressInv(c)',
         \A s \in Turnovers : s = call[c].id => Agree(s)'
  PROVE  SyncInv'
<1>. DEFINE t == call[c].id
<1>1. t \in inserted /\ t \in Turnovers
  BY DEF SyncInv, CallInv, TypeOK
<1>2. ASSUME NEW d \in Callers, NEW s PROVE Others(d, s)' \subseteq Others(d, s)
  BY DEF Others, Busy
<1>3. CallInv(c)'
  <2>1. CASE call'[c].step = "idle"
    BY <2>1, IdleCallInv DEF CallInv, BranchInv, Busy, Syncing
  <2>2. CASE Busy(c)' /\ call'[c].id = t /\ call'[c].alone = call[c].alone
    BY <1>1, <1>2, <2>2 DEF SyncInv, CallInv
  <2>. QED
    BY <2>1, <2>2
<1>4. ASSUME NEW d \in Callers \ {c} PROVE CallInv(d)'
  <2>1. CASE ~Busy(d)
    BY <2>1 DEF CallInv, BranchInv, Busy, Syncing
  <2>2. CASE Busy(d) /\ call[d].id = t
    <3>1. d \in Others(c, t) /\ c \in Others(d, t)
      BY <2>2 DEF Others, Busy
    <3>2. ~call[c].alone /\ ~call[d].alone
      BY <2>2, <3>1 DEF SyncInv, CallInv
    <3>3. Syncing(d)' => synced'[t] = "unknown"
      BY <2>2, <3>2 DEF SyncInv, CallInv, Syncing
    <3>. QED
      BY <1>1, <2>2, <3>2, <3>3 DEF SyncInv, CallInv, BranchInv, Busy, Syncing
  <2>3. CASE Busy(d) /\ call[d].id # t
    <3>1. CallInv(d) /\ call'[d] = call[d] /\ call[d].id \in Turnovers \ {t}
      BY <2>3 DEF SyncInv, TypeOK, Calls
    <3>2. /\ flags'[call[d].id] = flags[call[d].id]
          /\ openEvent'[call[d].id] = openEvent[call[d].id]
          /\ synced'[call[d].id] = synced[call[d].id]
      BY <3>1
    <3>3. ProgressInv(d) => ProgressInv(d)'
      BY <3>1, <3>2 DEF ProgressInv
    <3>4. Others(d, call[d].id) = {} => Others(d, call[d].id)' = {}
      BY <3>1, <1>2 DEF Others, Busy
    <3>5. BranchInv(d)'
      BY <3>1 DEF CallInv, BranchInv
    <3>6. (Busy(d)' => Busy(d)) /\ (Syncing(d)' => Syncing(d)) /\ Busy(d)
      BY <2>3, <3>1 DEF Busy, Syncing
    <3>7. (Busy(d) /\ call[d].alone => Others(d, call[d].id) = {})'
      BY <3>1, <3>4, <3>6 DEF CallInv
    <3>. QED
      BY <3>1, <3>2, <3>3, <3>5, <3>6, <3>7 DEF CallInv
  <2>. QED
    BY <2>1, <2>2, <2>3
<1>5. ASSUME NEW s \in inserted PROVE Agree(s)'
  <2>1. CASE s = t
    BY <2>1, <1>1
  <2>2. CASE s # t
    BY <2>2 DEF Agree, SyncInv, TypeOK
  <2>. QED
    BY <2>1, <2>2
<1>. QED
  BY <1>3, <1>4, <1>5 DEF SyncInv

\* The UPDATE withdraws the level; the evaluation picks the branch.
LEMMA WriteSync ==
  ASSUME TypeOK, SyncInv, NEW c \in Callers, Write(c)
  PROVE  SyncInv'
<1>. DEFINE t == call[c].id
            r == Written(row[t], call[c].op, call[c].day)
            called == [call[c] EXCEPT !.step = "evaluate", !.updated = r]
<1>1. t \in Turnovers /\ call[c] \in Calls
  BY DEF TypeOK, Calls
<1>2. called.step = "evaluate" /\ called.id = t /\ called.alone = call[c].alone
  BY <1>1 DEF Calls
<1>3. call'[c] = called /\ \A d \in Callers \ {c} : call'[d] = call[d]
  <2>1. call' = [call EXCEPT ![c] = called]
    BY DEF Write
  <2>. QED
    BY <2>1 DEF TypeOK
<1>. HIDE DEF called
<1>4. synced'[t] = "unknown" /\ \A s \in Turnovers \ {t} : synced'[s] = synced[s]
  BY <1>1 DEF Write, TypeOK
<1>5. UNCHANGED <<inserted, flags, openEvent>>
  BY DEF Write, riskVars
<1>6. Busy(c) /\ Busy(c)'
  BY <1>2, <1>3 DEF Write, Busy
<1>7. BranchInv(c)' /\ ProgressInv(c)'
  BY <1>2, <1>3 DEF BranchInv, ProgressInv
<1>8. \A s \in Turnovers : s = t => Agree(s)'
  BY <1>4 DEF Agree
<1>. QED
  BY <1>2, <1>3, <1>4, <1>5, <1>6, <1>7, <1>8, OwnTurnover

\* A statement that only moves its call on, to a step whose facts hold.
LEMMA MoveSync ==
  ASSUME TypeOK, SyncInv, NEW c \in Callers, Busy(c), NEW called,
         call' = [call EXCEPT ![c] = called],
         called.step \notin {"idle", "insert"},
         called.id = call[c].id, called.alone = call[c].alone,
         UNCHANGED <<inserted, riskVars, synced>>,
         Syncing(c)' => Syncing(c),
         BranchInv(c)', call[c].alone => ProgressInv(c)'
  PROVE  SyncInv'
<1>1. call'[c] = called /\ \A d \in Callers \ {c} : call'[d] = call[d]
  BY DEF TypeOK
<1>2. UNCHANGED <<inserted, flags, openEvent>>
  BY DEF riskVars
<1>3. Busy(c)'
  BY <1>1 DEF Busy
<1>4. call[c].id \in inserted /\ (Syncing(c) => synced[call[c].id] = "unknown")
  BY DEF SyncInv, CallInv
<1>5. \A s \in Turnovers : s = call[c].id => Agree(s)'
  BY <1>2, <1>4 DEF SyncInv, Agree
<1>. QED
  BY <1>1, <1>2, <1>3, <1>4, <1>5, OwnTurnover

\* The same for a Goto.
LEMMA GotoSync ==
  ASSUME TypeOK, SyncInv, NEW c \in Callers, NEW step \in Steps \ {"idle", "insert"},
         Busy(c), Goto(c, step),
         UNCHANGED <<inserted, riskVars, synced>>,
         Syncing(c)' => Syncing(c),
         BranchInv(c)', call[c].alone => ProgressInv(c)'
  PROVE  SyncInv'
<1>. DEFINE called == [call[c] EXCEPT !.step = step]
<1>1. called.step = step /\ called.id = call[c].id /\ called.alone = call[c].alone
  BY DEF TypeOK, Calls
<1>2. call' = [call EXCEPT ![c] = called]
  BY DEF Goto
<1>. HIDE DEF called
<1>. QED
  BY <1>1, <1>2, MoveSync

\* The locals of a call that has moved on by a Goto.
LEMMA GotoLocals ==
  ASSUME TypeOK, NEW c \in Callers, NEW step, Goto(c, step)
  PROVE  /\ call'[c].step = step /\ call'[c].id = call[c].id
         /\ call'[c].alone = call[c].alone
         /\ call'[c].level = call[c].level /\ call'[c].event = call[c].event
         /\ \A d \in Callers \ {c} : call'[d] = call[d]
BY DEF TypeOK, Calls, Goto

\* A call that raises leaves the tables as its last statement did.
LEMMA FinishSync ==
  ASSUME TypeOK, SyncInv, NEW c \in Callers, Finish(c),
         UNCHANGED <<inserted, riskVars, synced>>
  PROVE  SyncInv'
<1>1. call'[c] = NoCall /\ \A d \in Callers \ {c} : call'[d] = call[d]
  BY DEF Finish, TypeOK
<1>2. call'[c].step = "idle" /\ ~Busy(c)' /\ ~Syncing(c)' /\ BranchInv(c)'
  BY <1>1 DEF NoCall, Busy, Syncing, BranchInv
<1>3. UNCHANGED <<flags, openEvent>>
  BY DEF riskVars
<1>4. CASE Busy(c)
  <2>1. \A s \in Turnovers : s = call[c].id => Agree(s)'
    BY <1>3, <1>4 DEF SyncInv, CallInv, Agree
  <2>. QED
    BY <1>1, <1>2, <1>3, <1>4, <2>1, OwnTurnover
<1>5. CASE ~Busy(c)
  <2>1. CallInv(c)'
    BY <1>1, IdleCallInv DEF NoCall, CallInv, BranchInv, Busy, Syncing
  <2>2. ASSUME NEW d \in Callers \ {c} PROVE CallInv(d)'
    <3>1. CallInv(d) /\ call'[d] = call[d]
      BY <1>1 DEF SyncInv
    <3>2. Others(d, call[d].id) = {} => Others(d, call[d].id)' = {}
      BY <1>1, <1>2 DEF Others, Busy
    <3>3. (Busy(d) /\ call[d].alone => Others(d, call[d].id) = {})'
      BY <3>1, <3>2 DEF CallInv, Busy
    <3>. QED
      BY <1>3, <3>1, <3>3 DEF CallInv, BranchInv, ProgressInv, Busy, Syncing
  <2>3. \A s \in inserted : Agree(s)'
    BY <1>3 DEF SyncInv, Agree
  <2>. QED
    BY <2>1, <2>2, <2>3 DEF SyncInv
<1>. QED
  BY <1>4, <1>5

\* A call that returns records its level, and the tables say the same.
LEMMA ReturnSync ==
  ASSUME TypeOK, SyncInv, NEW c \in Callers, Busy(c), Return(c),
         UNCHANGED inserted,
         \A s \in Turnovers \ {call[c].id} :
           flags'[s] = flags[s] /\ openEvent'[s] = openEvent[s],
         call[c].alone => \A s \in Turnovers : s = call[c].id =>
           /\ call[c].level = "OK" => flags'[s] = {} /\ openEvent'[s] = 0
           /\ call[c].level = "WARNING" => "SLA_WARNING" \in flags'[s]
           /\ call[c].level = "BREACH" => "SLA_BREACH" \in flags'[s] /\ openEvent'[s] # 0
  PROVE  SyncInv'
<1>. DEFINE t == call[c].id
<1>1. call'[c] = NoCall /\ \A d \in Callers \ {c} : call'[d] = call[d]
  BY DEF Return, Finish, TypeOK
<1>2. call'[c].step = "idle" /\ ~Busy(c)' /\ ~Syncing(c)' /\ BranchInv(c)'
  BY <1>1 DEF NoCall, Busy, Syncing, BranchInv
<1>3. t \in Turnovers
  BY DEF TypeOK, Calls
<1>4. /\ synced'[t] = IF call[c].alone THEN call[c].level ELSE "unknown"
      /\ \A s \in Turnovers \ {t} : synced'[s] = synced[s]
  BY <1>3 DEF Return, TypeOK
<1>5. \A s \in Turnovers : s = t => Agree(s)'
  BY <1>4 DEF Agree
<1>. QED
  BY <1>1, <1>2, <1>4, <1>5, OwnTurnover

-----------------------------------------------------------------------------
(***************************************************************************)
(* sync_risk_from_sla, statement by statement.                             *)
(***************************************************************************)

\* The evaluation enters the branch of the level it computes.
LEMMA EvaluateSync ==
  ASSUME TypeOK, SyncInv, NEW c \in Callers, Evaluate(c)
  PROVE  SyncInv'
<1>. DEFINE level == SlaRisk(call[c].updated, today, SlaThreshold)
            called == [call[c] EXCEPT !.step = FirstSyncStep(level), !.level = level,
                                      !.updated = NewRow(AnyUnit, 0)]
<1>1. level \in SlaLevels
  BY SlaRiskType
<1>2. /\ called.step = FirstSyncStep(level) /\ called.level = level
      /\ called.id = call[c].id /\ called.alone = call[c].alone
  <2>1. call[c] \in Calls
    BY DEF TypeOK
  <2>. HIDE DEF level
  <2>. QED
    BY <2>1 DEF Calls
<1>3. call' = [call EXCEPT ![c] = called]
  BY DEF Evaluate
<1>. HIDE DEF called, level
<1>4. call'[c] = called
  BY <1>3 DEF TypeOK
<1>5. \/ level = "BREACH" /\ called.step = "find_event"
      \/ level = "WARNING" /\ called.step = "find_warning_flag"
      \/ level = "OK" /\ called.step = "resolve_breach_flag"
  BY <1>1, <1>2 DEF FirstSyncStep, SlaLevels
<1>6. Busy(c) /\ Syncing(c) /\ called.step \notin {"idle", "insert"}
  BY <1>5 DEF Evaluate, Busy, Syncing
<1>7. BranchInv(c)' /\ ProgressInv(c)'
  BY <1>2, <1>4, <1>5 DEF BranchInv, ProgressInv
<1>8. UNCHANGED <<inserted, riskVars, synced>>
  BY DEF Evaluate
<1>. QED
  BY <1>2, <1>3, <1>6, <1>7, <1>8, MoveSync

\* An event found is an event open.
LEMMA FindEventSync ==
  ASSUME TypeOK, SyncInv, NEW c \in Callers, FindEvent(c)
  PROVE  SyncInv'
<1>. DEFINE next == IF openEvent[call[c].id] = 0 THEN "insert_event" ELSE "find_breach_flag"
<1>1. Goto(c, next) /\ UNCHANGED <<inserted, riskVars, synced>> /\ Busy(c) /\ Syncing(c)
  BY DEF FindEvent, Busy, Syncing
<1>2. next \in Steps \ {"idle", "insert"}
  BY DEF Steps
<1>3. call[c].level = "BREACH"
  BY DEF SyncInv, CallInv, BranchInv, FindEvent
<1>4. BranchInv(c)' /\ ProgressInv(c)'
  BY <1>1, <1>3, GotoLocals DEF BranchInv, ProgressInv, riskVars
<1>. QED
  BY <1>1, <1>2, <1>4, GotoSync

\* An event inserted is one too.
LEMMA InsertEventSync ==
  ASSUME TypeOK, SyncInv, NEW c \in Callers, InsertEvent(c)
  PROVE  SyncInv'
<1>. DEFINE t == call[c].id
<1>1. t \in Turnovers /\ lastEvent[t] \in Nat
  <2>1. t \in Turnovers /\ lastEvent[t] \in EventIds
    BY DEF TypeOK, Calls
  <2>. QED
    BY <2>1, ConstantsOK DEF EventIds
<1>2. /\ openEvent'[t] = lastEvent[t] + 1
      /\ \A s \in Turnovers \ {t} : openEvent'[s] = openEvent[s]
  BY <1>1 DEF InsertEvent, TypeOK
<1>3. UNCHANGED <<inserted, flags, synced>> /\ Busy(c) /\ Syncing(c)
  BY DEF InsertEvent, Busy, Syncing
<1>4. /\ call'[c].step = "find_breach_flag" /\ call'[c].id = t
      /\ call'[c].alone = call[c].alone /\ call'[c].level = call[c].level
      /\ \A d \in Callers \ {c} : call'[d] = call[d]
  BY GotoLocals DEF InsertEvent
<1>5. call[c].level = "BREACH" /\ synced[t] = "unknown"
  BY <1>3 DEF SyncInv, CallInv, BranchInv, InsertEvent
<1>6. BranchInv(c)' /\ ProgressInv(c)' /\ Busy(c)' /\ synced'[t] = "unknown"
  BY <1>1, <1>2, <1>3, <1>4, <1>5 DEF BranchInv, ProgressInv, Busy
<1>7. \A s \in Turnovers : s = t => Agree(s)'
  BY <1>6 DEF Agree
<1>. QED
  BY <1>2, <1>3, <1>4, <1>6, <1>7, OwnTurnover

\* What an alone call finds while it is syncing: its level and its progress.
LEMMA SyncingFacts ==
  ASSUME SyncInv, NEW c \in Callers, Syncing(c)
  PROVE  /\ Busy(c) /\ synced[call[c].id] = "unknown" /\ BranchInv(c)
         /\ call[c].alone => ProgressInv(c)
BY DEF SyncInv, CallInv, Busy, Syncing

\* A flag found is a flag open.
LEMMA FindFlagSync ==
  ASSUME TypeOK, SyncInv, NEW c \in Callers, NEW flag, NEW find, NEW insert,
         <<flag, find, insert>> \in
           {<<"SLA_BREACH", "find_breach_flag", "insert_breach_flag">>,
            <<"SLA_WARNING", "find_warning_flag", "insert_warning_flag">>},
         FindFlag(c, flag, find, insert)
  PROVE  SyncInv'
<1>1. Syncing(c) /\ UNCHANGED <<inserted, riskVars>>
  BY DEF FindFlag, Syncing
<1>2. /\ Busy(c) /\ synced[call[c].id] = "unknown" /\ BranchInv(c)
      /\ call[c].alone => ProgressInv(c)
  BY <1>1, SyncingFacts
<1>3. \/ flag = "SLA_BREACH" /\ call[c].level = "BREACH"
         /\ (call[c].alone => openEvent[call[c].id] # 0)
      \/ flag = "SLA_WARNING" /\ call[c].level = "WARNING"
  BY <1>2 DEF FindFlag, BranchInv, ProgressInv
<1>4. CASE flag \in flags[call[c].id]
  BY <1>1, <1>2, <1>3, <1>4, ReturnSync DEF FindFlag, riskVars
<1>5. CASE flag \notin flags[call[c].id]
  <2>1. Goto(c, insert) /\ UNCHANGED synced
    BY <1>5 DEF FindFlag
  <2>2. insert \in Steps \ {"idle", "insert"}
    BY DEF Steps
  <2>3. BranchInv(c)' /\ (call[c].alone => ProgressInv(c)')
    BY <1>1, <1>3, <2>1, GotoLocals DEF BranchInv, ProgressInv, riskVars
  <2>. QED
    BY <1>1, <1>2, <2>1, <2>2, <2>3, GotoSync
<1>. QED
  BY <1>4, <1>5

\* A flag inserted is one too.
LEMMA InsertFlagSync ==
  ASSUME TypeOK, SyncInv, NEW c \in Callers, NEW flag, NEW insert,
         <<flag, insert>> \in {<<"SLA_BREACH", "insert_breach_flag">>,
                               <<"SLA_WARNING", "insert_warning_flag">>},
         InsertFlag(c, flag, insert)
  PROVE  SyncInv'
<1>. DEFINE t == call[c].id
<1>1. Syncing(c) /\ UNCHANGED <<inserted, openEvent>> /\ Return(c)
  BY DEF InsertFlag, Syncing
<1>2. Busy(c) /\ BranchInv(c) /\ (call[c].alone => ProgressInv(c))
  BY <1>1, SyncingFacts
<1>3. \/ flag = "SLA_BREACH" /\ call[c].level = "BREACH"
         /\ (call[c].alone => openEvent[t] # 0)
      \/ flag = "SLA_WARNING" /\ call[c].level = "WARNING"
  BY <1>2 DEF InsertFlag, BranchInv, ProgressInv
<1>4. t \in Turnovers
  BY DEF TypeOK, Calls
<1>5. flag \in flags'[t] /\ \A s \in Turnovers \ {t} : flags'[s] = flags[s]
  BY <1>4 DEF InsertFlag, TypeOK
<1>. QED
  BY <1>1, <1>2, <1>3, <1>5, ReturnSync

\* A flag resolved stays resolved while the call is alone.
LEMMA ResolveFlagSync ==
  ASSUME TypeOK, SyncInv, NEW c \in Callers, NEW flag, NEW step, NEW next,
         <<flag, step, next>> \in
           {<<"SLA_BREACH", "resolve_breach_flag", "resolve_warning_flag">>,
            <<"SLA_WARNING", "resolve_warning_flag", "find_open_event">>},
         ResolveFlag(c, flag, step, next)
  PROVE  SyncInv'
<1>. DEFINE t == call[c].id
<1>1. Syncing(c) /\ UNCHANGED <<inserted, openEvent, synced>> /\ Goto(c, next)
  BY DEF ResolveFlag, Syncing
<1>2. /\ Busy(c) /\ synced[t] = "unknown" /\ BranchInv(c)
      /\ call[c].alone => ProgressInv(c)
  BY <1>1, SyncingFacts
<1>3. /\ call'[c].step = next /\ call'[c].id = t
      /\ call'[c].alone = call[c].alone /\ call'[c].level = call[c].level
      /\ \A d \in Callers \ {c} : call'[d] = call[d]
  BY <1>1, GotoLocals
<1>4. t \in Turnovers
  BY DEF TypeOK, Calls
<1>5. /\ flags'[t] = flags[t] \ {flag}
      /\ \A s \in Turnovers \ {t} : flags'[s] = flags[s]
  BY <1>4 DEF ResolveFlag, TypeOK
<1>6. /\ call[c].level = "OK"
      /\ step = "resolve_warning_flag" /\ call[c].alone => "SLA_BREACH" \notin flags[t]
  BY <1>2 DEF ResolveFlag, BranchInv, ProgressInv
<1>7. BranchInv(c)' /\ (call[c].alone => ProgressInv(c)')
  BY <1>3, <1>5, <1>6 DEF BranchInv, ProgressInv
<1>8. Busy(c)' /\ synced'[t] = "unknown" /\ \A s \in Turnovers : s = t => Agree(s)'
  BY <1>1, <1>2, <1>3 DEF Busy, Agree
<1>. QED
  BY <1>1, <1>2, <1>3, <1>5, <1>7, <1>8, OwnTurnover

\* With no event open, both flags resolved, everything is clear; an event found
\* is the one open.
LEMMA FindOpenEventSync ==
  ASSUME TypeOK, SyncInv, NEW c \in Callers, FindOpenEvent(c)
  PROVE  SyncInv'
<1>. DEFINE t == call[c].id
<1>1. Syncing(c) /\ UNCHANGED <<inserted, riskVars>>
  BY DEF FindOpenEvent, Syncing
<1>2. /\ Busy(c) /\ synced[t] = "unknown" /\ BranchInv(c)
      /\ call[c].alone => ProgressInv(c)
  BY <1>1, SyncingFacts
<1>3. t \in Turnovers /\ flags[t] \subseteq Flags
  BY DEF TypeOK, Calls
<1>4. call[c].level = "OK" /\ (call[c].alone => flags[t] = {})
  BY <1>2, <1>3 DEF FindOpenEvent, BranchInv, ProgressInv, Flags
<1>5. CASE openEvent[t] = 0
  BY <1>1, <1>2, <1>4, <1>5, ReturnSync DEF FindOpenEvent, riskVars
<1>6. CASE openEvent[t] # 0
  <2>. DEFINE called == [call[c] EXCEPT !.step = "resolve_event", !.event = openEvent[t]]
  <2>1. call' = [call EXCEPT ![c] = called] /\ UNCHANGED synced
    BY <1>6 DEF FindOpenEvent
  <2>2. /\ called.step = "resolve_event" /\ called.event = openEvent[t]
        /\ called.id = t /\ called.alone = call[c].alone /\ called.level = call[c].level
    <3>1. call[c] \in Calls
      BY DEF TypeOK
    <3>. QED
      BY <3>1 DEF Calls
  <2>. HIDE DEF called
  <2>3. call'[c] = called
    BY <2>1 DEF TypeOK
  <2>4. BranchInv(c)' /\ (call[c].alone => ProgressInv(c)')
    BY <1>1, <1>4, <2>2, <2>3 DEF BranchInv, ProgressInv, riskVars
  <2>. QED
    BY <1>1, <1>2, <2>1, <2>2, <2>4, MoveSync
<1>. QED
  BY <1>5, <1>6

\* Resolving the event found clears the last of it.
LEMMA ResolveEventSync ==
  ASSUME TypeOK, SyncInv, NEW c \in Callers, ResolveEvent(c)
  PROVE  SyncInv'
<1>. DEFINE t == call[c].id
<1>1. Syncing(c) /\ UNCHANGED <<inserted, flags>> /\ Return(c)
  BY DEF ResolveEvent, Syncing
<1>2. Busy(c) /\ BranchInv(c) /\ (call[c].alone => ProgressInv(c))
  BY <1>1, SyncingFacts
<1>3. t \in Turnovers /\ flags[t] \subseteq Flags
  BY DEF TypeOK, Calls
<1>4. /\ call[c].level = "OK"
      /\ call[c].alone => flags[t] = {} /\ openEvent[t] = call[c].event
  BY <1>2, <1>3 DEF ResolveEvent, BranchInv, ProgressInv, Flags
<1>5. /\ call[c].alone => openEvent'[t] = 0
      /\ \A s \in Turnovers \ {t} : openEvent'[s] = openEvent[s]
  BY <1>3, <1>4 DEF ResolveEvent, TypeOK
<1>. QED
  BY <1>1, <1>2, <1>4, <1>5, ReturnSync

-----------------------------------------------------------------------------
(***************************************************************************)
(* The steps around it.                                                    *)
(***************************************************************************)

\* The lookup lets the call go on or ends it.
LEMMA LookupSync ==
  ASSUME TypeOK, SyncInv, NEW c \in Callers, Lookup(c)
  PROVE  SyncInv'
<1>1. UNCHANGED <<inserted, riskVars, synced>> /\ Busy(c)
  BY DEF Lookup, Busy
<1>2. CASE Goto(c, "write")
  <2>1. "write" \in Steps \ {"idle", "insert"}
    BY DEF Steps
  <2>2. ~Syncing(c)' /\ BranchInv(c)' /\ ProgressInv(c)'
    BY <1>2, GotoLocals DEF Syncing, BranchInv, ProgressInv
  <2>. QED
    BY <1>1, <1>2, <2>1, <2>2, GotoSync
<1>3. CASE Finish(c)
  BY <1>1, <1>3, FinishSync
<1>. QED
  BY <1>2, <1>3 DEF Lookup

\* A caller that was between calls starts one that has touched nothing yet.
LEMMA CreateCheckSync ==
  ASSUME TypeOK, SyncInv, NEW c \in Callers, CreateCheck(c)
  PROVE  SyncInv'
<1>1. /\ call[c].step = "idle" /\ call'[c].step = "insert"
      /\ \A d \in Callers \ {c} : call'[d] = call[d]
      /\ UNCHANGED <<inserted, riskVars, synced>>
  BY DEF CreateCheck, TypeOK, NoCall
<1>2. CallInv(c)'
  BY <1>1, IdleCallInv DEF CallInv, BranchInv, Busy, Syncing
<1>3. ASSUME NEW d \in Callers \ {c} PROVE CallInv(d)'
  <2>1. CallInv(d) /\ call'[d] = call[d]
    BY <1>1 DEF SyncInv
  <2>2. Others(d, call[d].id) = {} => Others(d, call[d].id)' = {}
    BY <1>1 DEF Others
  <2>3. (Busy(d) /\ call[d].alone => Others(d, call[d].id) = {})'
    BY <2>1, <2>2 DEF CallInv, Busy
  <2>. QED
    BY <1>1, <2>1, <2>3 DEF CallInv, BranchInv, ProgressInv, Busy, Syncing, riskVars
<1>4. \A s \in inserted : Agree(s)'
  BY <1>1 DEF SyncInv, Agree, riskVars
<1>. QED
  BY <1>1, <1>2, <1>3, <1>4 DEF SyncInv

\* A creation commits a row no call is on, with tables that agree.
LEMMA CreateCommitSync ==
  ASSUME TypeOK, SyncInv, NEW c \in Callers, CreateCommit(c)
  PROVE  SyncInv'
<1>. DEFINE r == NewRow(call[c].unit, call[c].day)
            level == SlaRisk(r, today, SlaThreshold)
<1>1. PICK t \in Turnovers \ inserted :
        /\ inserted' = inserted \cup {t}
        /\ flags' = [flags EXCEPT ![t] = CASE level = "BREACH" -> {"SLA_BREACH"}
                                           [] level = "WARNING" -> {"SLA_WARNING"}
                                           [] OTHER -> {}]
        /\ openEvent' = [openEvent EXCEPT ![t] = IF level = "BREACH" THEN 1 ELSE 0]
        /\ synced' = [synced EXCEPT ![t] = level]
  BY DEF CreateCommit
<1>2. level \in SlaLevels
  BY SlaRiskType
<1>. HIDE DEF level
<1>3. /\ flags'[t] = CASE level = "BREACH" -> {"SLA_BREACH"}
                       [] level = "WARNING" -> {"SLA_WARNING"}
                       [] OTHER -> {}
      /\ openEvent'[t] = IF level = "BREACH" THEN 1 ELSE 0
      /\ synced'[t] = level
  BY <1>1 DEF TypeOK
<1>4. \A s \in inserted : /\ s # t /\ flags'[s] = flags[s]
                          /\ openEvent'[s] = openEvent[s] /\ synced'[s] = synced[s]
  BY <1>1 DEF TypeOK
<1>5. Agree(t)'
  BY <1>2, <1>3 DEF Agree, SlaLevels
<1>6. \A s \in inserted : Agree(s)'
  BY <1>4 DEF SyncInv, Agree
<1>7. /\ call[c].step = "insert" /\ call'[c].step = "idle"
      /\ \A d \in Callers \ {c} : call'[d] = call[d]
  BY DEF CreateCommit, Finish, TypeOK, NoCall
<1>8. CallInv(c)'
  BY <1>7, IdleCallInv DEF CallInv, BranchInv, Busy, Syncing
<1>9. ASSUME NEW d \in Callers \ {c} PROVE CallInv(d)'
  <2>1. CASE ~Busy(d)
    BY <1>7, <2>1 DEF CallInv, BranchInv, Busy, Syncing
  <2>2. CASE Busy(d)
    <3>1. CallInv(d) /\ call'[d] = call[d] /\ call[d].id \in inserted
      BY <1>7, <2>2 DEF SyncInv, CallInv
    <3>2. Others(d, call[d].id) = {} => Others(d, call[d].id)' = {}
      BY <1>7, <3>1 DEF Others
    <3>3. (Busy(d) /\ call[d].alone => Others(d, call[d].id) = {})'
      BY <3>1, <3>2 DEF CallInv, Busy
    <3>4. ProgressInv(d) => ProgressInv(d)'
      BY <1>4, <3>1 DEF ProgressInv
    <3>5. call[d].id \in inserted' /\ synced'[call[d].id] = synced[call[d].id]
      BY <1>1, <1>4, <3>1
    <3>. QED
      BY <3>1, <3>3, <3>4, <3>5 DEF CallInv, BranchInv, Busy, Syncing
  <2>. QED
    BY <2>1, <2>2
<1>. QED
  BY <1>1, <1>5, <1>6, <1>8, <1>9 DEF SyncInv

\* A call that begins ends the solitude of those already on the turnover.
LEMMA BeginSync ==
  ASSUME TypeOK, SyncInv, NEW c \in Callers, Begin(c)
  PROVE  SyncInv'
<1>1. PICK t \in inserted, op \in Ops, day \in Days :
        call' = [d \in Callers |->
          IF d = c
            THEN [NoCall EXCEPT !.step = "lookup", !.op = op, !.id = t, !.day = day,
                                !.alone = Others(c, t) = {}]
          ELSE IF d \in Others(c, t) THEN [call[d] EXCEPT !.alone = FALSE]
          ELSE call[d]]
  BY DEF Begin
<1>2. call[c].step = "idle" /\ UNCHANGED <<inserted, riskVars, synced>>
  BY DEF Begin
<1>3. /\ call'[c].step = "lookup" /\ call'[c].id = t
      /\ call'[c].alone = (Others(c, t) = {})
  BY <1>1 DEF NoCall
<1>4. ASSUME NEW d \in Callers \ {c}
      PROVE  /\ call'[d].step = call[d].step /\ call'[d].id = call[d].id
             /\ call'[d].level = call[d].level /\ call'[d].event = call[d].event
             /\ call'[d].alone => call[d].alone /\ d \notin Others(c, t)
  <2>1. call[d] \in Calls
    BY DEF TypeOK
  <2>2. CASE d \in Others(c, t)
    BY <1>1, <2>1, <2>2 DEF Calls
  <2>3. CASE d \notin Others(c, t)
    BY <1>1, <2>3
  <2>. QED
    BY <2>2, <2>3
<1>5. CallInv(c)'
  <2>1. Others(c, t) = {} => (Others(c, call[c].id) = {})'
    BY <1>3, <1>4 DEF Others
  <2>2. ~Syncing(c)' /\ BranchInv(c)' /\ ProgressInv(c)'
    BY <1>3 DEF Syncing, BranchInv, ProgressInv
  <2>. QED
    BY <1>2, <1>3, <2>1, <2>2 DEF CallInv
<1>6. ASSUME NEW d \in Callers \ {c} PROVE CallInv(d)'
  <2>1. CallInv(d)
    BY DEF SyncInv
  <2>2. (Busy(d) /\ call[d].alone => Others(d, call[d].id) = {})'
    <3>. SUFFICES ASSUME Busy(d)', call'[d].alone PROVE (Others(d, call[d].id) = {})'
      OBVIOUS
    <3>1. Busy(d) /\ call[d].alone /\ d \notin Others(c, t)
      BY <1>4 DEF Busy
    <3>2. call[d].id # t
      BY <3>1 DEF Others, Busy
    <3>3. Others(d, call[d].id) = {}
      BY <2>1, <3>1 DEF CallInv
    <3>. QED
      BY <1>3, <1>4, <3>2, <3>3 DEF Others
  <2>3. ProgressInv(d) => ProgressInv(d)'
    BY <1>2, <1>4 DEF ProgressInv, riskVars
  <2>. QED
    BY <1>2, <1>4, <2>1, <2>2, <2>3 DEF CallInv, BranchInv, Busy, Syncing
<1>7. \A s \in inserted : Agree(s)'
  BY <1>2 DEF SyncInv, Agree, riskVars
<1>. QED
  BY <1>2, <1>5, <1>6, <1>7 DEF SyncInv

\* Every step keeps the invariant.
LEMMA SyncStep == TypeOK /\ SyncInv /\ [Next]_vars => SyncInv'
<1>. SUFFICES ASSUME TypeOK, SyncInv, [Next]_vars PROVE SyncInv'
  OBVIOUS
<1>1. CASE UNCHANGED vars
  BY <1>1, SyncStutter DEF vars, riskVars
<1>2. CASE Midnight
  BY <1>2, SyncStutter DEF Midnight
<1>3. ASSUME NEW c \in Callers,
             CreateCheck(c) \/ CreateCommit(c) \/ Begin(c) \/ Lookup(c) \/ Write(c)
      PROVE  SyncInv'
  BY <1>3, CreateCheckSync, CreateCommitSync, BeginSync, LookupSync, WriteSync
<1>4. ASSUME NEW c \in Callers, Fail(c) PROVE SyncInv'
  BY <1>4, FinishSync DEF Fail
<1>5. ASSUME NEW c \in Callers, SyncRisk(c) PROVE SyncInv'
  BY <1>5, EvaluateSync, FindEventSync, InsertEventSync, FindFlagSync, InsertFlagSync,
     ResolveFlagSync, FindOpenEventSync, ResolveEventSync DEF SyncRisk
<1>. QED
  BY <1>1, <1>2, <1>3, <1>4, <1>5 DEF Next

\* A call that ran alone on its turnover leaves the flags and the breach event
\* saying exactly what it evaluated, whatever races and failures came before.
THEOREM RiskAgrees == Spec => []RiskTablesAgree
<1>1. TypeOK /\ SyncInv /\ [Next]_vars => (TypeOK /\ SyncInv)'
  BY TypeStep, SyncStep
<1>2. SyncInv => RiskTablesAgree
  BY DEF SyncInv, Agree, RiskTablesAgree
<1>. QED
  BY <1>1, <1>2, TypeInit, SyncInit, PTL DEF Spec

-----------------------------------------------------------------------------
(***************************************************************************)
(* An ended turnover is left to the calls that were let through before.    *)
(***************************************************************************)

\* Is this caller past update_turnover's check?
Passed(c) == call[c].step \notin {"idle", "insert", "lookup"}

\* What EndedIsLeft says of a turnover, caller by caller.
Left(t) ==
  /\ \A c \in Callers : Passed(c)' /\ call'[c].id = t => Passed(c) /\ call[c].id = t
  /\ (\A c \in Callers : Passed(c) => call[c].id # t) =>
       /\ row'[t] = row[t] /\ flags'[t] = flags[t]
       /\ openEvent'[t] = openEvent[t] /\ lastEvent'[t] = lastEvent[t]

\* A call that has passed the check touches its own turnover only, and stays on it
\* until it ends.
LEMMA PassedStep ==
  ASSUME TypeOK, NEW c \in Callers, Write(c) \/ SyncRisk(c)
  PROVE  /\ Passed(c)
         /\ \A d \in Callers \ {c} : call'[d] = call[d]
         /\ call'[c].id = call[c].id \/ call'[c].step = "idle"
         /\ \A s \in Turnovers \ {call[c].id} :
              /\ row'[s] = row[s] /\ flags'[s] = flags[s]
              /\ openEvent'[s] = openEvent[s] /\ lastEvent'[s] = lastEvent[s]
<1> DEFINE t == call[c].id
           Tables == \A s \in Turnovers \ {t} :
                       /\ row'[s] = row[s] /\ flags'[s] = flags[s]
                       /\ openEvent'[s] = openEvent[s] /\ lastEvent'[s] = lastEvent[s]
           Calling == /\ \A d \in Callers \ {c} : call'[d] = call[d]
                      /\ call'[c].id = call[c].id \/ call'[c].step = "idle"
<1>1. ASSUME NEW step, Goto(c, step) PROVE Calling
  BY <1>1, GotoLocals
<1>2. ASSUME Finish(c) PROVE Calling
  <2>1. call' = [call EXCEPT ![c] = NoCall] /\ NoCall.step = "idle"
    BY <1>2 DEF Finish, NoCall
  <2> QED BY <2>1 DEF TypeOK
<1>3. ASSUME NEW l, l.id = call[c].id, call' = [call EXCEPT ![c] = l] PROVE Calling
  BY <1>3 DEF TypeOK
<1>4. CASE Write(c)
  <2>1. Passed(c)
    BY <1>4 DEF Write, Passed
  <2>2. Tables
    BY <1>4 DEF Write, riskVars, TypeOK
  <2>3. Calling
    <3> DEFINE r == Written(row[t], call[c].op, call[c].day)
               l == [call[c] EXCEPT !.step = "evaluate", !.updated = r]
    <3>1. call' = [call EXCEPT ![c] = l]
      BY <1>4 DEF Write
    <3>2. l.id = call[c].id
      BY DEF TypeOK, Calls
    <3> HIDE DEF l
    <3> QED BY <1>3, <3>1, <3>2
  <2> QED BY <2>1, <2>2, <2>3
<1>5. CASE Evaluate(c)
  <2>1. Passed(c)
    BY <1>5 DEF Evaluate, Passed
  <2>2. Tables
    BY <1>5 DEF Evaluate, riskVars
  <2>3. Calling
    <3> DEFINE level == SlaRisk(call[c].updated, today, SlaThreshold)
               l == [call[c] EXCEPT !.step = FirstSyncStep(level), !.level = level,
                                    !.updated = NewRow(AnyUnit, 0)]
    <3>1. call' = [call EXCEPT ![c] = l]
      BY <1>5 DEF Evaluate
    <3>2. l.id = call[c].id
      BY DEF TypeOK, Calls
    <3> HIDE DEF l
    <3> QED BY <1>3, <3>1, <3>2
  <2> QED BY <2>1, <2>2, <2>3
<1>6. CASE FindEvent(c) \/ InsertEvent(c)
  <2>1. Passed(c) /\ \E step : Goto(c, step)
    BY <1>6 DEF FindEvent, InsertEvent, Passed
  <2>2. Tables
    BY <1>6 DEF FindEvent, InsertEvent, riskVars, TypeOK
  <2> QED BY <1>1, <2>1, <2>2
<1>7. ASSUME NEW flag, NEW find \in Steps \ {"idle", "insert", "lookup"}, NEW insert,
             FindFlag(c, flag, find, insert)
      PROVE  Passed(c) /\ Tables /\ Calling
  <2>1. Passed(c) /\ (Finish(c) \/ Goto(c, insert))
    BY <1>7 DEF FindFlag, Return, Passed
  <2>2. Tables
    BY <1>7 DEF FindFlag, riskVars
  <2> QED BY <1>1, <1>2, <2>1, <2>2
<1>8. ASSUME NEW flag, NEW insert \in Steps \ {"idle", "insert", "lookup"}, InsertFlag(c, flag, insert)
      PROVE  Passed(c) /\ Tables /\ Calling
  <2>1. Passed(c) /\ Finish(c)
    BY <1>8 DEF InsertFlag, Return, Passed
  <2>2. Tables
    BY <1>8 DEF InsertFlag, TypeOK
  <2> QED BY <1>2, <2>1, <2>2
<1>9. ASSUME NEW flag, NEW step \in Steps \ {"idle", "insert", "lookup"}, NEW next,
             ResolveFlag(c, flag, step, next)
      PROVE  Passed(c) /\ Tables /\ Calling
  <2>1. Passed(c) /\ Goto(c, next)
    BY <1>9 DEF ResolveFlag, Passed
  <2>2. Tables
    BY <1>9 DEF ResolveFlag, TypeOK
  <2> QED BY <1>1, <2>1, <2>2
<1>10. CASE FindOpenEvent(c)
  <2>1. Passed(c)
    BY <1>10 DEF FindOpenEvent, Passed
  <2>2. Tables
    BY <1>10 DEF FindOpenEvent, riskVars
  <2>3. Calling
    <3> DEFINE l == [call[c] EXCEPT !.step = "resolve_event", !.event = openEvent[t]]
    <3>1. Finish(c) \/ call' = [call EXCEPT ![c] = l]
      BY <1>10 DEF FindOpenEvent, Return
    <3>2. l.id = call[c].id
      BY DEF TypeOK, Calls
    <3> HIDE DEF l
    <3> QED BY <1>2, <1>3, <3>1, <3>2
  <2> QED BY <2>1, <2>2, <2>3
<1>11. CASE ResolveEvent(c)
  <2>1. Passed(c) /\ Finish(c)
    BY <1>11 DEF ResolveEvent, Return, Passed
  <2>2. Tables
    BY <1>11 DEF ResolveEvent, TypeOK
  <2> QED BY <1>2, <2>1, <2>2
<1>12. /\ "find_breach_flag" \in Steps \ {"idle", "insert", "lookup"}
       /\ "insert_breach_flag" \in Steps \ {"idle", "insert", "lookup"}
       /\ "find_warning_flag" \in Steps \ {"idle", "insert", "lookup"}
       /\ "insert_warning_flag" \in Steps \ {"idle", "insert", "lookup"}
       /\ "resolve_breach_flag" \in Steps \ {"idle", "insert", "lookup"}
       /\ "resolve_warning_flag" \in Steps \ {"idle", "insert", "lookup"}
  BY DEF Steps
<1>13. CASE \/ FindFlag(c, "SLA_BREACH", "find_breach_flag", "insert_breach_flag")
            \/ InsertFlag(c, "SLA_BREACH", "insert_breach_flag")
            \/ FindFlag(c, "SLA_WARNING", "find_warning_flag", "insert_warning_flag")
            \/ InsertFlag(c, "SLA_WARNING", "insert_warning_flag")
            \/ ResolveFlag(c, "SLA_BREACH", "resolve_breach_flag", "resolve_warning_flag")
            \/ ResolveFlag(c, "SLA_WARNING", "resolve_warning_flag", "find_open_event")
  <2> HIDE DEF Tables, Calling
  <2>1. Passed(c) /\ Tables /\ Calling
    <3>1. CASE \/ FindFlag(c, "SLA_BREACH", "find_breach_flag", "insert_breach_flag")
               \/ FindFlag(c, "SLA_WARNING", "find_warning_flag", "insert_warning_flag")
      BY <1>7, <1>12, <3>1
    <3>2. CASE \/ InsertFlag(c, "SLA_BREACH", "insert_breach_flag")
               \/ InsertFlag(c, "SLA_WARNING", "insert_warning_flag")
      BY <1>8, <1>12, <3>2
    <3>3. CASE \/ ResolveFlag(c, "SLA_BREACH", "resolve_breach_flag", "resolve_warning_flag")
               \/ ResolveFlag(c, "SLA_WARNING", "resolve_warning_flag", "find_open_event")
      BY <1>9, <1>12, <3>3
    <3> QED BY <1>13, <3>1, <3>2, <3>3
  <2> QED BY <2>1 DEF Tables, Calling
<1> HIDE DEF Tables, Calling
<1> QED BY <1>4, <1>5, <1>6, <1>10, <1>11, <1>13 DEF SyncRisk

\* Every step of every caller leaves an ended turnover to the calls let through.
LEMMA LeftStep ==
  ASSUME TypeOK, [Next]_vars, NEW t \in inserted, ~IsOpen(row[t])
  PROVE  Left(t)
<1>1. t \in Turnovers
  BY DEF TypeOK
<1>2. CASE UNCHANGED vars
  BY <1>2 DEF vars, riskVars, Left, Passed
<1>3. CASE Midnight
  BY <1>3 DEF Midnight, riskVars, Left, Passed
<1>4. ASSUME NEW c \in Callers, CreateCheck(c) PROVE Left(t)
  <2>1. UNCHANGED <<row, flags, openEvent, lastEvent>>
    BY <1>4 DEF CreateCheck, riskVars
  <2>2. PICK u \in Units, day \in Days :
          call' = [call EXCEPT ![c] = [NoCall EXCEPT !.step = "insert", !.unit = u, !.day = day]]
    BY <1>4 DEF CreateCheck
  <2>3. ~Passed(c)' /\ \A d \in Callers \ {c} : call'[d] = call[d]
    BY <2>2 DEF TypeOK, Passed, NoCall
  <2> QED BY <2>1, <2>3 DEF Left, Passed
<1>5. ASSUME NEW c \in Callers, CreateCommit(c) PROVE Left(t)
  <2>1. Finish(c)
    BY <1>5 DEF CreateCommit
  <2>2. ~Passed(c)' /\ \A d \in Callers \ {c} : call'[d] = call[d]
    BY <2>1 DEF TypeOK, Finish, Passed, NoCall
  <2>3. /\ row'[t] = row[t] /\ flags'[t] = flags[t]
        /\ openEvent'[t] = openEvent[t] /\ lastEvent'[t] = lastEvent[t]
    BY <1>1, <1>5 DEF CreateCommit, TypeOK
  <2> QED BY <2>2, <2>3 DEF Left, Passed
<1>6. ASSUME NEW c \in Callers, Begin(c) PROVE Left(t)
  <2>1. UNCHANGED <<row, flags, openEvent, lastEvent>>
    BY <1>6 DEF Begin, riskVars
  <2>2. ASSUME NEW d \in Callers
        PROVE  Passed(d)' => Passed(d) /\ call'[d].id = call[d].id
    <3>1. PICK s \in inserted, op \in Ops, day \in Days :
            call' = [e \in Callers |->
              IF e = c
                THEN [NoCall EXCEPT !.step = "lookup", !.op = op, !.id = s, !.day = day,
                                    !.alone = Others(c, s) = {}]
              ELSE IF e \in Others(c, s) THEN [call[e] EXCEPT !.alone = FALSE]
              ELSE call[e]]
      BY <1>6 DEF Begin
    <3>2. CASE d = c
      <4>1. call'[d].step = "lookup"
        BY <3>1, <3>2 DEF NoCall
      <4> QED BY <4>1 DEF Passed
    <3>3. CASE d # c
      <4>1. call'[d].step = call[d].step /\ call'[d].id = call[d].id
        BY <3>1, <3>3 DEF TypeOK, Calls
      <4> QED BY <4>1 DEF Passed
    <3> QED BY <3>2, <3>3
  <2> QED BY <2>1, <2>2 DEF Left
<1>7. ASSUME NEW c \in Callers, Lookup(c) PROVE Left(t)
  <2>1. UNCHANGED <<row, flags, openEvent, lastEvent>>
    BY <1>7 DEF Lookup, riskVars
  <2>2. CASE IsOpen(row[call[c].id])
    <3>1. Goto(c, "write")
      BY <1>7, <2>2 DEF Lookup
    <3>2. call'[c].id # t /\ \A d \in Callers \ {c} : call'[d] = call[d]
      BY <2>2, <3>1, GotoLocals
    <3> QED BY <2>1, <3>2 DEF Left, Passed
  <2>3. CASE ~IsOpen(row[call[c].id])
    <3>1. Finish(c)
      BY <1>7, <2>3 DEF Lookup
    <3>2. ~Passed(c)' /\ \A d \in Callers \ {c} : call'[d] = call[d]
      BY <3>1 DEF TypeOK, Finish, Passed, NoCall
    <3> QED BY <2>1, <3>2 DEF Left, Passed
  <2> QED BY <2>2, <2>3
<1>8. ASSUME NEW c \in Callers, Fail(c) PROVE Left(t)
  <2>1. UNCHANGED <<row, flags, openEvent, lastEvent>>
    BY <1>8 DEF Fail, riskVars
  <2>2. ~Passed(c)' /\ \A d \in Callers \ {c} : call'[d] = call[d]
    BY <1>8 DEF Fail, TypeOK, Finish, Passed, NoCall
  <2> QED BY <2>1, <2>2 DEF Left, Passed
<1>9. ASSUME NEW c \in Callers, Write(c) \/ SyncRisk(c) PROVE Left(t)
  <2>1. /\ Passed(c)
        /\ \A d \in Callers \ {c} : call'[d] = call[d]
        /\ call'[c].id = call[c].id \/ call'[c].step = "idle"
        /\ \A s \in Turnovers \ {call[c].id} :
             /\ row'[s] = row[s] /\ flags'[s] = flags[s]
             /\ openEvent'[s] = openEvent[s] /\ lastEvent'[s] = lastEvent[s]
    BY <1>9, PassedStep
  <2> QED BY <1>1, <2>1 DEF Left, Passed
<1> QED BY <1>2, <1>3, <1>4, <1>5, <1>6, <1>7, <1>8, <1>9 DEF Next

\* A turnover that has ended is left to the calls that were let through before it
\* did, and nothing of it changes when they have returned (see EndedIsLeft).
THEOREM EndedLeft == Spec => EndedIsLeft
<1> DEFINE Step == \A t \in inserted : ~IsOpen(row[t]) =>
                     /\ InFlight(t)' \subseteq InFlight(t)
                     /\ InFlight(t) = {} =>
                          /\ row'[t] = row[t] /\ flags'[t] = flags[t]
                          /\ openEvent'[t] = openEvent[t] /\ lastEvent'[t] = lastEvent[t]
<1>1. TypeOK /\ [Next]_vars => Step
  <2> SUFFICES ASSUME TypeOK, [Next]_vars, NEW t \in inserted, ~IsOpen(row[t])
      PROVE  /\ InFlight(t)' \subseteq InFlight(t)
             /\ InFlight(t) = {} =>
                  /\ row'[t] = row[t] /\ flags'[t] = flags[t]
                  /\ openEvent'[t] = openEvent[t] /\ lastEvent'[t] = lastEvent[t]
    OBVIOUS
  <2>1. Left(t)
    BY LeftStep
  <2> QED BY <2>1 DEF Left, InFlight, Passed
<1>2. Spec => [][TypeOK /\ [Next]_vars]_vars
  BY TypeCorrect, PTL DEF Spec
<1>3. EndedIsLeft <=> [][Step]_vars
  BY DEF EndedIsLeft
<1> HIDE DEF Step
<1> QED BY <1>1, <1>2, <1>3, PTL
=============================================================================
