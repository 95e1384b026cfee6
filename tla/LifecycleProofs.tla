--------------------------- MODULE LifecycleProofs ---------------------------
(***************************************************************************)
(* Theorems about Lifecycle, for any days a date can hold, any statuses    *)
(* and any finite set of tasks:                                            *)
(*                                                                         *)
(*   TypeCorrect       every state is well typed;                          *)
(*   Settles           a transition that nobody disturbs has the phase it  *)
(*                     asked for when it reads the row again;              *)
(*   TimeHidesNothing  no agreement leaves RED because a day passes;       *)
(*   JudgesAgree       alerts, risk radar and priority follow the board;   *)
(*   ViewsCount        the views over one board count the same units;      *)
(*   DownloadsAgree    so do the parts of one download;                    *)
(*   PortKept          the DMRB Report keeps what the spreadsheet pipeline *)
(*                     would have shown, whatever weekday it is.           *)
(*                                                                         *)
(* The last five are facts about the board's item of a well typed row:     *)
(* Evaluated and Gated give its fields, Reds its agreements, RowsAre those *)
(* of the exports' rows, RefIs those of the spreadsheet's, and the         *)
(* theorems are assembled from them.                                       *)
(***************************************************************************)
EXTENDS Lifecycle, FiniteSetTheorems, FunctionTheorems, TLAPS

-----------------------------------------------------------------------------
(* Types *)

\* The CONSTANTS that the columns of a row take, between 0 and LastDay.
Day(d) == d \in Int /\ 0 <= d /\ d <= LastDay

LEMMA InRange == \A d : d \in 0..LastDay <=> Day(d)
<1>1. LastDay \in Int
  BY SMT DEF LastDay
<1> QED BY <1>1 DEF Day

LEMMA Dates ==
  /\ Days \subseteq Nat /\ MoveOuts \subseteq Days /\ AnyDay \in Days
  /\ MoveIns \subseteq Int /\ Readies \subseteq Int /\ Availables \subseteq Int
<1>1. \A d : Day(d) => d \in Nat
  BY DEF Day
<1>2. \A d \in Days : Day(d)
  BY DatesOK, InRange
<1>3. \A d \in MoveIns \cup Readies \cup Availables : Day(d) \/ d = NoDate
  BY DatesOK, InRange
<1>4. NoDate \in Int
  BY DEF NoDate
<1>5. MoveOuts \subseteq Days /\ AnyDay \in Days
  BY DatesOK DEF AnyDay
<1> QED BY <1>1, <1>2, <1>3, <1>4, <1>5

\* No edge leads back to PRE_NOTICE.
LEMMA EdgesArePhases ==
  ASSUME NEW p \in Phases
  PROVE  AllowedTransitions[p] \subseteq Phases \ {"PRE_NOTICE"}
BY DEF AllowedTransitions, Phases

\* lifecycle_phase always answers with a phase.
LEMMA PhaseType ==
  ASSUME NEW t, NEW day
  PROVE  LifecyclePhase(t, day) \in Phases
BY DEF LifecyclePhase, Phases

LEMMA InitCall == NoCall \in Calls
BY Dates DEF Calls, NoCall, Phases

\* Init is well typed.
LEMMA InitTypes == Init => TypeOK
<1> SUFFICES ASSUME Init PROVE TypeOK
  OBVIOUS
<1>1. row \in Rows /\ ~(row.closed /\ row.canceled)
  BY Dates DEF Init, Rows, NoDate, None
<1>2. today \in Days
  BY DEF Init
<1>3. progress \in [TaskKinds -> TaskStatuses \cup {"SCHEDULED"}]
  BY DEF Init
<1>4. call \in Calls
  BY InitCall DEF Init
<1> QED BY <1>1, <1>2, <1>3, <1>4 DEF TypeOK

\* _apply_transition writes columns of their types, and ends an open row one way.
LEMMA AppliedTypes ==
  ASSUME row \in Rows, IsOpen(row), call \in Calls,
         call.to = "OCCUPIED" => call.mid \in Days \cup MoveIns
  PROVE  /\ Applied(row, call) \in Rows
         /\ ~(Applied(row, call).closed /\ Applied(row, call).canceled)
<1>1. CASE call.to \in {"CLOSED", "CANCELED"}
  BY <1>1 DEF Applied, Rows, Calls, IsOpen
<1>2. CASE call.to = "ON_NOTICE"
  BY <1>2 DEF Applied, Rows, Calls, IsOpen, ManualStatuses
<1>3. CASE call.to = "OCCUPIED"
  BY <1>3 DEF Applied, Rows, Calls, IsOpen
<1>4. CASE call.to \in {"VACANT_READY", "VACANT_NOT_READY"}
  BY <1>4 DEF Applied, Rows, Calls, IsOpen, ManualStatuses
<1> QED BY <1>1, <1>2, <1>3, <1>4 DEF Calls, Phases

\* An update of an open row that leaves one of its two ends alone keeps the types.
LEMMA UpdateTypes ==
  ASSUME TypeOK, NEW r \in Rows, Update(r), r.closed = row.closed
  PROVE  TypeOK'
BY DEF TypeOK, Update, Calls, IsOpen

\* Every step keeps the types.
LEMMA StepTypes == TypeOK /\ [Next]_vars => TypeOK'
<1> SUFFICES ASSUME TypeOK, [Next]_vars PROVE TypeOK'
  OBVIOUS
<1> USE Dates DEF TypeOK
<1>1. CASE Begin
  <2> PICK to \in AllowedTransitions[LifecyclePhase(row, today)],
           mid \in {today} \cup {m \in MoveIns : m # NoDate /\ m <= today} :
             /\ call' = [step |-> "update", to |-> to, day |-> today, mid |-> mid,
                         pull |-> LifecyclePhase(row, today) = "ON_NOTICE"
                                    /\ to = "VACANT_NOT_READY" /\ row.moveOut > today,
                         disturbed |-> FALSE]
    BY <1>1 DEF Begin
  <2>1. to \in Phases \ {"PRE_NOTICE"}
    BY PhaseType, EdgesArePhases
  <2>2. call' \in Calls
    BY <2>1 DEF Calls
  <2> QED BY <1>1, <2>2 DEF Begin
<1>2. CASE ApplyTransition
  <2>1. CASE IsOpen(row)
    <3>1. /\ row' = Applied(row, call)
          /\ call' = [call EXCEPT !.step = "reread"]
          /\ UNCHANGED <<progress, today>>
      BY <1>2, <2>1 DEF ApplyTransition
    <3>2. row' \in Rows /\ ~(row'.closed /\ row'.canceled)
      BY <2>1, <3>1, AppliedTypes DEF Calls
    <3>3. call' \in Calls
      BY <3>1 DEF Calls
    <3> QED BY <3>1, <3>2, <3>3
  <2>2. CASE ~IsOpen(row)
    BY <1>2, <2>2, InitCall DEF ApplyTransition
  <2> QED BY <2>1, <2>2
<1>3. CASE Reread \/ Fail
  BY <1>3, InitCall DEF Reread, Fail
<1>4. CASE PatchDate
  <2>1. ASSUME NEW d \in MoveOuts,
              Update([row EXCEPT !.moveOut = d])
       PROVE  TypeOK'
    <3> DEFINE r == [row EXCEPT !.moveOut = d]
    <3>1. r \in Rows /\ r.closed = row.closed
      BY <2>1 DEF Rows
    <3> QED BY <2>1, <3>1, UpdateTypes
  <2>2. ASSUME NEW d \in MoveIns,
              Update([row EXCEPT !.moveIn = d])
       PROVE  TypeOK'
    <3> DEFINE r == [row EXCEPT !.moveIn = d]
    <3>1. r \in Rows /\ r.closed = row.closed
      BY <2>2 DEF Rows
    <3> QED BY <2>2, <3>1, UpdateTypes
  <2>3. ASSUME NEW d \in Readies,
              Update([row EXCEPT !.ready = d])
       PROVE  TypeOK'
    <3> DEFINE r == [row EXCEPT !.ready = d]
    <3>1. r \in Rows /\ r.closed = row.closed
      BY <2>3 DEF Rows
    <3> QED BY <2>3, <3>1, UpdateTypes
  <2>4. ASSUME NEW d \in Availables,
              Update([row EXCEPT !.available = d])
       PROVE  TypeOK'
    <3> DEFINE r == [row EXCEPT !.available = d]
    <3>1. r \in Rows /\ r.closed = row.closed
      BY <2>4 DEF Rows
    <3> QED BY <2>4, <3>1, UpdateTypes
  <2> QED BY <1>4, <2>1, <2>2, <2>3, <2>4 DEF PatchDate
<1>5. CASE PatchStatus
  <2>1. ASSUME NEW s \in {"vacant ready", "vacant not ready", "on notice"},
              Update([row EXCEPT !.status = s, !.manual = ManualReadyOf(s)])
       PROVE  TypeOK'
    <3> DEFINE r == [row EXCEPT !.status = s, !.manual = ManualReadyOf(s)]
    <3>1. r \in Rows /\ r.closed = row.closed
      BY DEF Rows, ManualReadyOf, ManualStatuses, ReadyStatuses
    <3> QED BY <2>1, <3>1, UpdateTypes
  <2> QED BY <1>5, <2>1 DEF PatchStatus
<1>6. CASE PatchOneStatus
  <2>1. ASSUME NEW s \in Statuses \cup {None},
              Update([row EXCEPT !.status = s])
       PROVE  TypeOK'
    <3> DEFINE r == [row EXCEPT !.status = s]
    <3>1. r \in Rows /\ r.closed = row.closed
      BY DEF Rows
    <3> QED BY <2>1, <3>1, UpdateTypes
  <2>2. ASSUME NEW m \in ManualStatuses \cup {None},
              Update([row EXCEPT !.manual = m])
       PROVE  TypeOK'
    <3> DEFINE r == [row EXCEPT !.manual = m]
    <3>1. r \in Rows /\ r.closed = row.closed
      BY DEF Rows
    <3> QED BY <2>2, <3>1, UpdateTypes
  <2> QED BY <1>6, <2>1, <2>2 DEF PatchOneStatus
<1>7. CASE CancelTurnover
  <2> DEFINE r == [row EXCEPT !.canceled = TRUE]
  <2>1. r \in Rows /\ r.closed = row.closed
    BY DEF Rows
  <2> QED BY <1>7, <2>1, UpdateTypes DEF CancelTurnover
<1>8. CASE TaskUpdate
  BY <1>8 DEF TaskUpdate
<1>9. CASE DayPasses
  BY <1>9 DEF DayPasses
<1>10. CASE UNCHANGED vars
  BY <1>10 DEF vars
<1> QED
  BY <1>1, <1>2, <1>3, <1>4, <1>5, <1>6, <1>7, <1>8, <1>9, <1>10 DEF Next

\* Every reachable state is well typed: the columns _apply_transition and the
\* PATCHes write, the day and the call.
THEOREM TypeCorrect == Spec => []TypeOK
BY InitTypes, StepTypes, PTL DEF Spec

-----------------------------------------------------------------------------
(* Transitions *)

\* What an undisturbed call knows before its update: the edge it validated is that
\* of the row as it still is, on the day it began.
Validated ==
  call.step = "update" /\ ~call.disturbed =>
    /\ call.to \in AllowedTransitions[LifecyclePhase(row, call.day)]
    /\ call.pull <=> /\ LifecyclePhase(row, call.day) = "ON_NOTICE"
                     /\ call.to = "VACANT_NOT_READY" /\ row.moveOut > call.day
    /\ call.to = "OCCUPIED" => call.mid # NoDate /\ call.mid <= call.day

\* The invariant: TransitionSettles speaks of the second step of a call, Validated
\* of the first.
SettleInv == Validated /\ TransitionSettles

\* The phases the edges come from.
LEMMA Sources ==
  ASSUME NEW p \in Phases, NEW to \in AllowedTransitions[p]
  PROVE  /\ to = "ON_NOTICE" => p = "PRE_NOTICE"
         /\ to = "VACANT_READY" => p = "VACANT_NOT_READY"
         /\ to = "VACANT_NOT_READY" => p \in {"ON_NOTICE", "VACANT_READY"}
BY DEF AllowedTransitions, Phases

\* The phase of an open row, by its move-in, its status and its move-out.
LEMMA OpenPhase ==
  ASSUME NEW t, IsOpen(t), NEW day
  PROVE  LifecyclePhase(t, day) =
           IF t.moveIn # NoDate /\ t.moveIn <= day THEN "OCCUPIED"
           ELSE IF EffectiveManualReadyStatus(t, day) = "Vacant Ready" THEN "VACANT_READY"
           ELSE IF t.moveOut <= day THEN "VACANT_NOT_READY"
           ELSE IF EffectiveManualReadyStatus(t, day) = "On Notice" THEN "ON_NOTICE"
           ELSE "PRE_NOTICE"
BY DEF LifecyclePhase, IsOpen

\* The columns written on a validated edge give the phase asked for, but for the
\* two exceptions of TransitionSettles.
LEMMA AppliedSettles ==
  ASSUME row \in Rows, IsOpen(row), call \in Calls,
         call.to \in AllowedTransitions[LifecyclePhase(row, call.day)],
         call.pull <=> /\ LifecyclePhase(row, call.day) = "ON_NOTICE"
                       /\ call.to = "VACANT_NOT_READY" /\ row.moveOut > call.day,
         call.to = "OCCUPIED" => call.mid # NoDate /\ call.mid <= call.day
  PROVE  LET t == Applied(row, call)
         IN  \/ LifecyclePhase(t, call.day) = call.to
             \/ call.to = "VACANT_NOT_READY" /\ ~call.pull /\ t.moveOut > call.day
             \/ call.to = "ON_NOTICE" /\ Arrived(t, call.day)
<1> DEFINE t == Applied(row, call)
           from == LifecyclePhase(row, call.day)
<1>1. CASE call.to = "CLOSED"
  BY <1>1 DEF Applied, Rows, IsOpen, LifecyclePhase
<1>2. CASE call.to = "CANCELED"
  BY <1>2 DEF Applied, Rows, IsOpen, LifecyclePhase
<1>3. CASE call.to = "ON_NOTICE"
  <2>1. from = "PRE_NOTICE"
    BY <1>3, PhaseType, Sources
  <2>2. t = [row EXCEPT !.manual = "On Notice", !.status = "on notice"]
    BY <1>3 DEF Applied
  <2>3. ~(row.moveIn # NoDate /\ row.moveIn <= call.day) /\ ~(row.moveOut <= call.day)
    BY <2>1, OpenPhase
  <2>4. EffectiveManualReadyStatus(t, call.day) = "On Notice" \/ Arrived(t, call.day)
    BY <2>2 DEF Rows, EffectiveManualReadyStatus, None
  <2>5. IsOpen(t) /\ t.moveIn = row.moveIn /\ t.moveOut = row.moveOut
    BY <2>2 DEF Rows, IsOpen
  <2> QED BY <1>3, <2>3, <2>4, <2>5, OpenPhase
<1>4. CASE call.to = "OCCUPIED"
  <2>1. t = [row EXCEPT !.moveIn = call.mid]
    BY <1>4 DEF Applied
  <2>2. IsOpen(t) /\ t.moveIn = call.mid
    BY <2>1 DEF Rows, IsOpen
  <2> QED BY <1>4, <2>2, OpenPhase
<1>5. CASE call.to = "VACANT_READY"
  <2>1. from = "VACANT_NOT_READY"
    BY <1>5, PhaseType, Sources
  <2>2. t = [row EXCEPT !.manual = "Vacant Ready", !.status = "vacant ready"]
    BY <1>5 DEF Applied
  <2>3. ~(row.moveIn # NoDate /\ row.moveIn <= call.day)
    BY <2>1, OpenPhase
  <2>4. EffectiveManualReadyStatus(t, call.day) = "Vacant Ready"
    BY <2>2 DEF Rows, EffectiveManualReadyStatus, None
  <2>5. IsOpen(t) /\ t.moveIn = row.moveIn
    BY <2>2 DEF Rows, IsOpen
  <2> QED BY <1>5, <2>3, <2>4, <2>5, OpenPhase
<1>6. CASE call.to = "VACANT_NOT_READY"
  <2>1. from \in {"ON_NOTICE", "VACANT_READY"}
    BY <1>6, PhaseType, Sources
  <2>2. t = [row EXCEPT !.manual = "Vacant Not Ready", !.status = "vacant not ready",
                        !.moveOut = IF call.pull THEN call.day ELSE @]
    BY <1>6 DEF Applied
  <2>3. ~(row.moveIn # NoDate /\ row.moveIn <= call.day)
    BY <2>1, OpenPhase
  <2>4. EffectiveManualReadyStatus(t, call.day) = "Vacant Not Ready"
    BY <2>2 DEF Rows, EffectiveManualReadyStatus, None
  <2>5. /\ IsOpen(t) /\ t.moveIn = row.moveIn
        /\ t.moveOut = IF call.pull THEN call.day ELSE row.moveOut
    BY <2>2 DEF Rows, IsOpen
  <2>6. call.day \in Nat /\ t.moveOut \in Nat
    BY <2>5, Dates DEF Rows, Calls
  <2>7. t.moveOut <= call.day \/ (~call.pull /\ t.moveOut > call.day)
    BY <2>5, <2>6 DEF Calls
  <2> QED BY <1>6, <2>3, <2>4, <2>5, <2>7, OpenPhase
<1> QED BY <1>1, <1>2, <1>3, <1>4, <1>5, <1>6 DEF Calls, Phases

LEMMA InitSettles == Init => SettleInv
BY DEF Init, NoCall, SettleInv, Validated, TransitionSettles

\* Every step keeps the invariant: Begin establishes Validated, ApplyTransition
\* turns it into TransitionSettles, and another caller's update disturbs the call.
LEMMA StepSettles == TypeOK /\ SettleInv /\ [Next]_vars => SettleInv'
<1> SUFFICES ASSUME TypeOK, SettleInv, [Next]_vars PROVE SettleInv'
  OBVIOUS
<1> USE DEF SettleInv
<1>1. CASE Begin
  <2> PICK to \in AllowedTransitions[LifecyclePhase(row, today)],
           mid \in {today} \cup {m \in MoveIns : m # NoDate /\ m <= today} :
             /\ call' = [step |-> "update", to |-> to, day |-> today, mid |-> mid,
                         pull |-> LifecyclePhase(row, today) = "ON_NOTICE"
                                    /\ to = "VACANT_NOT_READY" /\ row.moveOut > today,
                         disturbed |-> FALSE]
             /\ row' = row
    BY <1>1 DEF Begin
  <2>1. mid # NoDate /\ mid <= today
    BY Dates DEF TypeOK, NoDate
  <2>2. Validated'
    BY <2>1 DEF Validated
  <2> QED BY <2>2 DEF TransitionSettles
<1>2. CASE ApplyTransition
  <2>1. CASE IsOpen(row) /\ ~call.disturbed
    <3>1. row' = Applied(row, call) /\ call' = [call EXCEPT !.step = "reread"]
      BY <1>2, <2>1 DEF ApplyTransition
    <3>2. /\ call'.step = "reread" /\ call'.to = call.to /\ call'.day = call.day
          /\ call'.pull = call.pull
      BY <3>1 DEF TypeOK, Calls
    <3>3. \/ LifecyclePhase(row', call.day) = call.to
          \/ call.to = "VACANT_NOT_READY" /\ ~call.pull /\ row'.moveOut > call.day
          \/ call.to = "ON_NOTICE" /\ Arrived(row', call.day)
      BY <1>2, <2>1, <3>1, AppliedSettles DEF ApplyTransition, Validated, TypeOK
    <3> QED BY <3>2, <3>3 DEF Validated, TransitionSettles
  <2>2. CASE call.disturbed \/ ~IsOpen(row)
    BY <1>2, <2>2 DEF ApplyTransition, NoCall, Validated, TransitionSettles, TypeOK, Calls
  <2> QED BY <2>1, <2>2
<1>3. CASE Reread \/ Fail
  BY <1>3 DEF Reread, Fail, NoCall, Validated, TransitionSettles
<1>4. CASE \E r : Update(r)
  <2>1. call'.step = "idle" \/ call'.disturbed
    BY <1>4 DEF Update, TypeOK, Calls
  <2> QED BY <2>1 DEF Validated, TransitionSettles
<1>5. CASE TaskUpdate \/ DayPasses \/ UNCHANGED vars
  BY <1>5 DEF TaskUpdate, DayPasses, vars, Validated, TransitionSettles
<1>6. PatchDate \/ PatchStatus \/ PatchOneStatus \/ CancelTurnover => \E r : Update(r)
  BY DEF PatchDate, PatchStatus, PatchOneStatus, CancelTurnover
<1> QED
  BY <1>1, <1>2, <1>3, <1>4, <1>5, <1>6 DEF Next

\* A transition that nobody disturbs never raises with the row already changed, but
\* on the two edges whose columns cannot produce the phase, whatever days, dates and
\* statuses there are.
THEOREM Settles == Spec => []TransitionSettles
<1>1. Init => SettleInv
  BY InitSettles
<1>2. SettleInv => TransitionSettles
  BY DEF SettleInv
<1> QED BY <1>1, <1>2, StepSettles, TypeCorrect, PTL DEF Spec

-----------------------------------------------------------------------------
(* One item of the board, field by field *)

Threshold == DefaultSlaThreshold
Item(t, S, day) == BoardItem(t, S, day, Threshold)

\* The row of an open turnover.
OpenRow(t) == IsOpen(t) /\ t.moveOut \in Int /\ t.moveIn \in Int /\ t.ready \in Int

LEMMA Evaluated ==
  ASSUME NEW t, NEW S, NEW day, EvaluationGate(t, day) = "evaluate", NEW i, i = Item(t, S, day)
  PROVE  /\ i.turnover = t /\ i.tasks = S /\ i.today = day /\ i.phase = LifecyclePhase(t, day)
         /\ i.readiness = ReadinessState(S) /\ i.blockers = BlockingTasks(S)
         /\ i.completed = CompletionRatio(S)
         /\ i.slaLevel = SlaRisk(t, day, Threshold)
         /\ i.agreements = EvaluateAgreements(t, S, day)
         /\ i.priority = PriorityFromAgreements(EvaluateAgreements(t, S, day))
         /\ \A n \in {0, 3, 7} : i.pressured[n] <=> MoveInWithin(t, day, n)
<1> DEFINE pressed == [n \in {0, 3, 7} |-> MoveInWithin(t, day, n)]
           agreed == EvaluateAgreements(t, S, day)
           phase == LifecyclePhase(t, day)
           sla == SlaRisk(t, day, Threshold)
           ready == ReadinessState(S)
           done == CompletionRatio(S)
           blocks == BlockingTasks(S)
           key == UrgencySortKey(t, day)
           priority == PriorityFromAgreements(agreed)
<1>1. i = [turnover |-> t, tasks |-> S, phase |-> phase, today |-> day, readiness |-> ready,
           completed |-> done, blockers |-> blocks, slaLevel |-> sla, pressured |-> pressed,
           agreements |-> agreed, priority |-> priority, sortKey |-> key]
  BY DEF Item, BoardItem
<1>2. \A n \in {0, 3, 7} : pressed[n] <=> MoveInWithin(t, day, n)
  OBVIOUS
<1> HIDE DEF pressed, agreed, phase, sla, ready, done, blocks, key, priority
<1>3. /\ i.turnover = t /\ i.tasks = S /\ i.today = day /\ i.phase = phase
      /\ i.readiness = ready /\ i.blockers = blocks /\ i.slaLevel = sla
      /\ i.completed = done
      /\ i.agreements = agreed /\ i.priority = priority /\ i.pressured = pressed
  BY <1>1
<1> QED BY <1>2, <1>3 DEF agreed, phase, sla, ready, blocks, priority, done

LEMMA Gated ==
  ASSUME NEW t, NEW S, NEW day, EvaluationGate(t, day) # "evaluate", NEW i, i = Item(t, S, day)
  PROVE  /\ i.turnover = t /\ i.tasks = S /\ i.today = day /\ i.phase = LifecyclePhase(t, day)
         /\ i.readiness = "READY" /\ i.blockers = {} /\ i.slaLevel = "OK"
         /\ i.completed = <<0, 0>>
         /\ i.agreements = AgreementsAllGreen /\ i.priority = "NORMAL"
         /\ \A n \in {0, 3, 7} : ~i.pressured[n]
<1> DEFINE pressed == [n \in {0, 3, 7} |-> FALSE]
           phase == LifecyclePhase(t, day)
           key == UrgencySortKey(t, day)
<1>1. i = [turnover |-> t, tasks |-> S, phase |-> phase, today |-> day,
           readiness |-> "READY", completed |-> <<0, 0>>, blockers |-> {}, slaLevel |-> "OK",
           pressured |-> pressed, agreements |-> AgreementsAllGreen, priority |-> "NORMAL",
           sortKey |-> key]
  BY DEF Item, BoardItem, HealthyBoardItem
<1>2. \A n \in {0, 3, 7} : ~pressed[n]
  OBVIOUS
<1> HIDE DEF pressed, phase, key
<1>3. /\ i.turnover = t /\ i.tasks = S /\ i.today = day /\ i.phase = phase
      /\ i.readiness = "READY" /\ i.blockers = {} /\ i.slaLevel = "OK"
      /\ i.completed = <<0, 0>>
      /\ i.agreements = AgreementsAllGreen /\ i.priority = "NORMAL" /\ i.pressured = pressed
  BY <1>1
<1> QED BY <1>2, <1>3 DEF phase

AgreementNames == {"inspection", "sla", "moveIn", "plan", "viol"}

LEMMA AllGreen ==
  /\ DOMAIN AgreementsAllGreen = AgreementNames
  /\ \A a \in AgreementNames : AgreementsAllGreen[a] = "GREEN"
BY DEF AgreementsAllGreen, AgreementNames

\* The agreements that are red.
LEMMA Reds ==
  ASSUME NEW t, NEW S, NEW day, NEW a, a = EvaluateAgreements(t, S, day)
  PROVE  LET behind == ReadinessState(S) # "READY"
         IN  /\ DOMAIN a = AgreementNames
             /\ a.inspection = InspectionFlag(t, S, day)
             /\ a.sla = "RED" <=> DaysSinceMoveOut(t, day) > AgreementSlaDays /\ behind
             /\ a.moveIn = "RED" <=> MoveInWithin(t, day, 3) /\ behind
             /\ a.plan = "RED" <=> t.ready # NoDate /\ day > t.ready /\ behind
             /\ a.viol = "RED" <=> a.sla = "RED" \/ a.moveIn = "RED"
             /\ {a.sla, a.moveIn, a.plan, a.viol} \subseteq {"RED", "GREEN"}
<1> DEFINE Judged(cond) == IF cond /\ ReadinessState(S) # "READY" THEN "RED" ELSE "GREEN"
           inspection == InspectionFlag(t, S, day)
           sla == Judged(DaysSinceMoveOut(t, day) > AgreementSlaDays)
           moveIn == Judged(MoveInWithin(t, day, 3))
           plan == Judged(t.ready # NoDate /\ day > t.ready)
           viol == IF "RED" \in {sla, moveIn} THEN "RED" ELSE "GREEN"
<1>1. a = [inspection |-> inspection, sla |-> sla, moveIn |-> moveIn, plan |-> plan, viol |-> viol]
  BY DEF EvaluateAgreements
<1>2. /\ sla = "RED" <=> DaysSinceMoveOut(t, day) > AgreementSlaDays /\ ReadinessState(S) # "READY"
      /\ moveIn = "RED" <=> MoveInWithin(t, day, 3) /\ ReadinessState(S) # "READY"
      /\ plan = "RED" <=> t.ready # NoDate /\ day > t.ready /\ ReadinessState(S) # "READY"
      /\ viol = "RED" <=> sla = "RED" \/ moveIn = "RED"
      /\ {sla, moveIn, plan, viol} \subseteq {"RED", "GREEN"}
  OBVIOUS
<1> HIDE DEF inspection, sla, moveIn, plan, viol
<1>3. /\ DOMAIN a = AgreementNames
      /\ a.inspection = inspection /\ a.sla = sla /\ a.moveIn = moveIn /\ a.plan = plan /\ a.viol = viol
  BY <1>1 DEF AgreementNames
<1> QED BY <1>2, <1>3 DEF inspection

\* Only a turnover that is Vacant Ready, or shown so, is not evaluated, and no day
\* that passes makes one so.
LEMMA GateOpens ==
  ASSUME NEW t, OpenRow(t), NEW day \in Nat, NEW later \in Nat, day < later,
         EvaluationGate(t, day) = "evaluate"
  PROVE  EvaluationGate(t, later) = "evaluate"
<1>1. ~t.canceled
  BY DEF OpenRow, IsOpen
<1>2. LifecyclePhase(t, day) # "VACANT_READY"
        /\ EffectiveAvailabilityStatus(t, day) \notin ReadyStatuses
  BY <1>1 DEF EvaluationGate
<1>3. EffectiveManualReadyStatus(t, later) = "Vacant Ready"
        => EffectiveManualReadyStatus(t, day) = "Vacant Ready"
  BY DEF EffectiveManualReadyStatus, None
<1>4. LifecyclePhase(t, later) # "VACANT_READY"
  <2>1. t.moveIn # NoDate /\ t.moveIn <= day => t.moveIn # NoDate /\ t.moveIn <= later
    BY DEF OpenRow
  <2>2. IsOpen(t)
    BY DEF OpenRow
  <2> QED BY <1>2, <1>3, <2>1, <2>2, OpenPhase
<1>5. EffectiveAvailabilityStatus(t, later) \notin ReadyStatuses
  BY <1>2 DEF EffectiveAvailabilityStatus, ReadyStatuses, StatusIsOnNotice
<1> QED BY <1>1, <1>4, <1>5 DEF EvaluationGate

-----------------------------------------------------------------------------
(* Time *)

SlaPoints(i) == IF i.slaLevel = "BREACH" THEN 40 ELSE IF i.slaLevel = "WARNING" THEN 25 ELSE 0
VacancyPoints(i) ==
  LET out == DaysSinceMoveOut(i.turnover, i.today)
  IN  IF out > 14 THEN 20 ELSE IF out > 7 THEN 10 ELSE 0
MoveInPoints(i) == IF i.pressured[0] THEN 25 ELSE IF i.pressured[3] THEN 20
                   ELSE IF i.pressured[7] THEN 10 ELSE 0
WorkPoints(i) ==
  IF i.readiness = "BLOCKED" THEN 15 ELSE IF i.readiness = "NOT_STARTED" THEN 10 ELSE 0

\* compute_risk_score is a sum of four, capped.
LEMMA ScoreIs ==
  ASSUME NEW i
  PROVE  /\ SlaPoints(i) \in {0, 25, 40} /\ VacancyPoints(i) \in {0, 10, 20}
         /\ MoveInPoints(i) \in {0, 10, 20, 25} /\ WorkPoints(i) \in {0, 10, 15}
         /\ RiskScore(i) = LET n == SlaPoints(i) + VacancyPoints(i) + MoveInPoints(i) + WorkPoints(i)
                           IN  IF n > 100 THEN 100 ELSE n
BY DEF RiskScore, SlaPoints, VacancyPoints, MoveInPoints, WorkPoints

\* The score does not fall when none of the four does.
LEMMA ScoreRises ==
  ASSUME NEW i, NEW j, i.turnover = j.turnover, i.turnover.moveOut \in Int,
         i.today \in Nat, j.today \in Nat, i.today < j.today,
         i.slaLevel = "BREACH" => j.slaLevel = "BREACH",
         i.slaLevel = "WARNING" => j.slaLevel \in {"WARNING", "BREACH"},
         \A n \in {0, 3, 7} : i.pressured[n] => j.pressured[n],
         i.readiness \in {"READY", j.readiness}
  PROVE  RiskScore(j) >= RiskScore(i)
<1>1. SlaPoints(i) <= SlaPoints(j)
  BY DEF SlaPoints
<1>2. VacancyPoints(i) <= VacancyPoints(j)
  BY DEF VacancyPoints, DaysSinceMoveOut
<1>3. MoveInPoints(i) <= MoveInPoints(j)
  BY DEF MoveInPoints
<1>4. WorkPoints(i) <= WorkPoints(j)
  BY DEF WorkPoints
<1>5. \A a, b, c, d, e, f, g, h \in Nat :
        a <= b /\ c <= d /\ e <= f /\ g <= h => a + c + e + g <= b + d + f + h
  OBVIOUS
<1>6. /\ SlaPoints(i) \in Nat /\ SlaPoints(j) \in Nat /\ VacancyPoints(i) \in Nat /\ VacancyPoints(j) \in Nat
      /\ MoveInPoints(i) \in Nat /\ MoveInPoints(j) \in Nat /\ WorkPoints(i) \in Nat /\ WorkPoints(j) \in Nat
  BY ScoreIs
<1> DEFINE m == SlaPoints(i) + VacancyPoints(i) + MoveInPoints(i) + WorkPoints(i)
           n == SlaPoints(j) + VacancyPoints(j) + MoveInPoints(j) + WorkPoints(j)
<1>7. m \in Nat /\ n \in Nat /\ m <= n
  BY <1>1, <1>2, <1>3, <1>4, <1>5, <1>6
<1>8. RiskScore(i) = (IF m > 100 THEN 100 ELSE m) /\ RiskScore(j) = (IF n > 100 THEN 100 ELSE n)
  BY ScoreIs
<1> HIDE DEF m, n
<1> QED BY <1>7, <1>8

\* Days since the move-out and towards the move-in only go one way.
LEMMA DaysGoOn ==
  ASSUME NEW t, OpenRow(t), NEW day \in Nat, NEW later \in Nat, day < later
  PROVE  /\ DaysSinceMoveOut(t, day) \in Int /\ DaysSinceMoveOut(t, later) \in Int
         /\ DaysSinceMoveOut(t, day) < DaysSinceMoveOut(t, later)
         /\ \A n \in {0, 3, 7} : MoveInWithin(t, day, n) => MoveInWithin(t, later, n)
         /\ day > t.ready => later > t.ready
<1>1. t.moveOut \in Int /\ t.moveIn \in Int /\ t.ready \in Int
  BY DEF OpenRow
<1> QED BY <1>1 DEF DaysSinceMoveOut, MoveInWithin

\* What the board says of a row does not get better because a day passes.
LEMMA DayPassesItem ==
  ASSUME NEW t, OpenRow(t), NEW S, NEW day \in Nat, NEW later \in Nat, day < later,
         NEW was, was = Item(t, S, day), NEW is, is = Item(t, S, later)
  PROVE  /\ \A a \in DOMAIN was.agreements : was.agreements[a] = "RED" => is.agreements[a] = "RED"
         /\ was.slaLevel = "BREACH" => is.slaLevel = "BREACH"
         /\ RiskScore(is) >= RiskScore(was)
<1>1. /\ was.turnover = t /\ is.turnover = t /\ was.today = day /\ is.today = later
      /\ t.moveOut \in Int
  BY Evaluated, Gated DEF OpenRow
<1>2. CASE EvaluationGate(t, day) # "evaluate"
  <2>1. /\ was.readiness = "READY" /\ was.slaLevel = "OK" /\ was.agreements = AgreementsAllGreen
        /\ \A n \in {0, 3, 7} : ~was.pressured[n]
    BY <1>2, Gated
  <2>2. RiskScore(is) >= RiskScore(was)
    BY <1>1, <2>1, ScoreRises
  <2> QED BY <2>1, <2>2, AllGreen
<1>3. CASE EvaluationGate(t, day) = "evaluate"
  <2>1. EvaluationGate(t, later) = "evaluate"
    BY <1>3, GateOpens
  <2>2. /\ was.readiness = ReadinessState(S) /\ was.slaLevel = SlaRisk(t, day, Threshold)
        /\ was.agreements = EvaluateAgreements(t, S, day)
        /\ \A n \in {0, 3, 7} : was.pressured[n] <=> MoveInWithin(t, day, n)
    BY <1>3, Evaluated
  <2>3. /\ is.readiness = ReadinessState(S) /\ is.slaLevel = SlaRisk(t, later, Threshold)
        /\ is.agreements = EvaluateAgreements(t, S, later)
        /\ \A n \in {0, 3, 7} : is.pressured[n] <=> MoveInWithin(t, later, n)
    BY <2>1, Evaluated
  <2>4. /\ was.slaLevel = "BREACH" => is.slaLevel = "BREACH"
        /\ was.slaLevel = "WARNING" => is.slaLevel \in {"WARNING", "BREACH"}
    BY <1>1, <2>2, <2>3 DEF SlaRisk, WarningDay, Threshold, DefaultSlaThreshold
  <2>5. RiskScore(is) >= RiskScore(was)
    BY <1>1, <2>2, <2>3, <2>4, DaysGoOn, ScoreRises
  <2> DEFINE a == was.agreements  b == is.agreements
  <2>6. /\ DOMAIN a = AgreementNames
        /\ a.inspection = InspectionFlag(t, S, day)
        /\ a.sla = "RED" <=> DaysSinceMoveOut(t, day) > AgreementSlaDays /\ ReadinessState(S) # "READY"
        /\ a.moveIn = "RED" <=> MoveInWithin(t, day, 3) /\ ReadinessState(S) # "READY"
        /\ a.plan = "RED" <=> t.ready # NoDate /\ day > t.ready /\ ReadinessState(S) # "READY"
        /\ a.viol = "RED" <=> a.sla = "RED" \/ a.moveIn = "RED"
    BY <2>2, Reds
  <2>7. /\ b.inspection = InspectionFlag(t, S, later)
        /\ b.sla = "RED" <=> DaysSinceMoveOut(t, later) > AgreementSlaDays /\ ReadinessState(S) # "READY"
        /\ b.moveIn = "RED" <=> MoveInWithin(t, later, 3) /\ ReadinessState(S) # "READY"
        /\ b.plan = "RED" <=> t.ready # NoDate /\ later > t.ready /\ ReadinessState(S) # "READY"
        /\ b.viol = "RED" <=> b.sla = "RED" \/ b.moveIn = "RED"
    BY <2>3, Reds
  <2> HIDE DEF a, b
  <2>8. a.inspection = "RED" => b.inspection = "RED"
    <3>1. \A m, n \in Int : m < n /\ m > InspectionRed => n > InspectionRed
      BY DEF InspectionRed
    <3> QED BY <2>6, <2>7, <3>1, DaysGoOn DEF InspectionFlag
  <2>9. a.sla = "RED" => b.sla = "RED"
    <3>1. \A m, n \in Int : m < n /\ m > AgreementSlaDays => n > AgreementSlaDays
      BY DEF AgreementSlaDays
    <3> QED BY <2>6, <2>7, <3>1, DaysGoOn
  <2>10. (a.moveIn = "RED" => b.moveIn = "RED") /\ (a.plan = "RED" => b.plan = "RED")
    BY <2>6, <2>7, DaysGoOn
  <2>11. a.viol = "RED" => b.viol = "RED"
    BY <2>6, <2>7, <2>9, <2>10
  <2>12. \A n \in AgreementNames : a[n] = "RED" => b[n] = "RED"
    BY <2>8, <2>9, <2>10, <2>11 DEF AgreementNames
  <2> QED BY <2>4, <2>5, <2>6, <2>12 DEF a, b
<1> QED BY <1>2, <1>3

\* An open row that is well typed, and what the board makes of it.
LEMMA BoardIs ==
  ASSUME TypeOK
  PROVE  /\ today \in Nat
         /\ board # {} => OpenRow(row)
         /\ \A i \in board : i = Item(row, tasks, today)
<1>1. today \in Nat
  BY Dates DEF TypeOK
<1>2. board # {} => OpenRow(row)
  <2>1. board # {} => IsOpen(row)
    BY DEF board
  <2>2. row \in Rows
    BY DEF TypeOK
  <2>3. row.moveOut \in Int /\ row.moveIn \in Int /\ row.ready \in Int
    <3>1. /\ row.moveOut \in Days /\ row.moveIn \in Days \cup MoveIns \cup {NoDate}
          /\ row.ready \in Readies \cup {NoDate}
      BY <2>2 DEF Rows
    <3>2. NoDate \in Int
      BY DEF NoDate
    <3>3. Days \subseteq Int /\ MoveIns \subseteq Int /\ Readies \subseteq Int
      BY Dates
    <3> QED BY <3>1, <3>2, <3>3
  <2> QED BY <2>1, <2>3 DEF OpenRow
<1>3. \A i \in board : i = Item(row, tasks, today)
  BY DEF board, Item, Threshold
<1> QED BY <1>1, <1>2, <1>3

\* Time alone never hides a problem (see BreachesOnlyRise).
LEMMA DayStep ==
  ASSUME TypeOK, TypeOK', [Next]_vars, today' # today, row' = row, progress' = progress,
         NEW was \in board, NEW is \in board'
  PROVE  /\ \A a \in DOMAIN was.agreements : was.agreements[a] = "RED" => is.agreements[a] = "RED"
         /\ was.slaLevel = "BREACH" => is.slaLevel = "BREACH"
         /\ RiskScore(is) >= RiskScore(was)
<1>1. today' > today
  BY DEF Next, vars, Begin, ApplyTransition, Reread, Fail, PatchDate, PatchStatus,
         PatchOneStatus, CancelTurnover, Update, TaskUpdate, DayPasses
<1>2. today \in Nat /\ today' \in Nat
  BY Dates DEF TypeOK
<1>3. tasks' = tasks
  BY DEF tasks
<1>4. was = Item(row, tasks, today) /\ OpenRow(row)
  BY BoardIs
<1>5. is = Item(row, tasks, today')
  BY <1>3 DEF board, Item, Threshold
<1> QED BY <1>1, <1>2, <1>4, <1>5, DayPassesItem

\* No agreement leaves RED, and neither the SLA level nor the risk score falls,
\* because a day passes (services/board_service.py, services/risk_service.py).
THEOREM TimeHidesNothing == Spec => BreachesOnlyRise
<1>1. ASSUME TypeOK, TypeOK', [Next]_vars
      PROVE  [BetweenCalls /\ today' # today /\ row' = row /\ progress' = progress =>
                \A was \in board, is \in board' :
                  /\ \A a \in DOMAIN was.agreements :
                       was.agreements[a] = "RED" => is.agreements[a] = "RED"
                  /\ was.slaLevel = "BREACH" => is.slaLevel = "BREACH"
                  /\ RiskScore(is) >= RiskScore(was)]_vars
  BY <1>1, DayStep
<1> QED BY <1>1, TypeCorrect, PTL DEF Spec, BreachesOnlyRise

-----------------------------------------------------------------------------
(* The judges of a row *)

LEMMA Readiness ==
  ASSUME NEW S
  PROVE  /\ ReadinessState(S) \in {"NO_TASKS", "READY", "BLOCKED", "NOT_STARTED"}
         /\ ReadinessState(S) = "READY" => BlockingTasks(S) = {}
         /\ S # {} /\ ReadinessState(S) # "READY" => ReadinessState(S) \in {"BLOCKED", "NOT_STARTED"}
BY DEF ReadinessState

\* A RED inspection: nothing else blocks, no inspection is complete, and the unit
\* has been vacant for long.
LEMMA RedInspection ==
  ASSUME NEW t, NEW S, NEW day, InspectionFlag(t, S, day) = "RED"
  PROVE  /\ {k \in S : k.type \in InspectionTaskTypes} # {}
         /\ \A k \in S : k.type \in InspectionTaskTypes => k.status # "COMPLETE"
         /\ DaysSinceMoveOut(t, day) > InspectionRed
BY DEF InspectionFlag

\* The Alert column names every breach (board_breach_row_display).
LEMMA AlertsSpeak ==
  ASSUME NEW t, OpenRow(t), NEW S, NEW day \in Nat, NEW i, i = Item(t, S, day),
         HasAnyBreach(i), NEW first \in SUBSET {k \in S : k.type \in InspectionTaskTypes}
  PROVE  AlertParts(i, first) # {}
<1>1. EvaluationGate(t, day) = "evaluate"
  <2> SUFFICES ASSUME EvaluationGate(t, day) # "evaluate" PROVE FALSE
    OBVIOUS
  <2>1. i.agreements = AgreementsAllGreen
    BY Gated
  <2> QED BY <2>1, AllGreen DEF HasAnyBreach
<1>2. /\ i.turnover = t /\ i.today = day /\ i.agreements = EvaluateAgreements(t, S, day)
  BY <1>1, Evaluated
<1> DEFINE a == i.agreements
<1>3. /\ DOMAIN a = AgreementNames
      /\ a.inspection = InspectionFlag(t, S, day)
      /\ a.moveIn = "RED" => MoveInWithin(t, day, 3)
      /\ a.viol = "RED" => a.sla = "RED" \/ a.moveIn = "RED"
  BY <1>2, Reds
<1> DEFINE Named(p) == CASE p = "SLA"  -> a.sla = "RED"
                         [] p = "MI"   -> t.moveIn # NoDate /\ a.moveIn = "RED"
                         [] p = "Insp" -> InspectionDot(i, first) = "red"
                         [] p = "Plan" -> a.plan = "RED"
<1>4. AlertParts(i, first) = {p \in {"SLA", "MI", "Insp", "Plan"} : Named(p)}
  BY <1>2 DEF AlertParts
<1>5. /\ Named("SLA") <=> a.sla = "RED"
      /\ Named("MI") <=> t.moveIn # NoDate /\ a.moveIn = "RED"
      /\ Named("Insp") <=> InspectionDot(i, first) = "red"
      /\ Named("Plan") <=> a.plan = "RED"
  OBVIOUS
<1> HIDE DEF Named
<1>6. a.inspection = "RED" => InspectionDot(i, first) = "red"
  <2> SUFFICES ASSUME a.inspection = "RED" PROVE InspectionDot(i, first) = "red"
    OBVIOUS
  <2>1. /\ \A k \in S : k.type \in InspectionTaskTypes => k.status # "COMPLETE"
        /\ DaysSinceMoveOut(t, day) > InspectionRed
    BY <1>3, RedInspection
  <2>2. ~\E k \in first : k.status = "COMPLETE"
    BY <2>1
  <2>3. DaysSinceMoveOut(i.turnover, i.today) >= 2
    BY <1>2, <2>1 DEF DaysSinceMoveOut, InspectionRed, OpenRow
  <2> QED BY <2>2, <2>3 DEF InspectionDot
<1>7. a.moveIn = "RED" => t.moveIn # NoDate
  BY <1>3 DEF MoveInWithin
<1>8. \E n \in AgreementNames : a[n] = "RED"
  BY <1>3 DEF HasAnyBreach
<1>9. a.inspection = "RED" \/ a.sla = "RED" \/ a.moveIn = "RED" \/ a.plan = "RED"
  BY <1>3, <1>8 DEF AgreementNames
<1> HIDE DEF a
<1>10. Named("SLA") \/ Named("MI") \/ Named("Insp") \/ Named("Plan")
  BY <1>5, <1>6, <1>7, <1>9
<1> QED BY <1>4, <1>10

\* The risk radar sees every violation (compute_risk_score).
LEMMA RadarSees ==
  ASSUME NEW t, OpenRow(t), NEW S, S # {}, NEW day \in Nat, NEW i, i = Item(t, S, day),
         i.agreements.viol = "RED"
  PROVE  RiskLevel(i) # "LOW"
<1>1. EvaluationGate(t, day) = "evaluate"
  BY Gated, AllGreen DEF AgreementNames
<1>2. /\ i.turnover = t /\ i.today = day /\ i.readiness = ReadinessState(S)
      /\ i.slaLevel = SlaRisk(t, day, Threshold) /\ i.agreements = EvaluateAgreements(t, S, day)
      /\ \A n \in {0, 3, 7} : i.pressured[n] <=> MoveInWithin(t, day, n)
  BY <1>1, Evaluated
<1>3. /\ ReadinessState(S) # "READY"
      /\ DaysSinceMoveOut(t, day) > AgreementSlaDays \/ MoveInWithin(t, day, 3)
  BY <1>2, Reds
<1>4. WorkPoints(i) >= 10
  BY <1>2, <1>3, Readiness DEF WorkPoints
<1>5. /\ SlaPoints(i) \in {0, 25, 40} /\ VacancyPoints(i) \in {0, 10, 20}
      /\ MoveInPoints(i) \in {0, 10, 20, 25} /\ WorkPoints(i) \in {0, 10, 15}
      /\ RiskScore(i) = LET n == SlaPoints(i) + VacancyPoints(i) + MoveInPoints(i) + WorkPoints(i)
                        IN  IF n > 100 THEN 100 ELSE n
  BY ScoreIs
<1>6. CASE DaysSinceMoveOut(t, day) > AgreementSlaDays
  <2>1. i.slaLevel \in {"WARNING", "BREACH"}
    BY <1>2, <1>6 DEF DaysSinceMoveOut, AgreementSlaDays, SlaRisk, WarningDay, Threshold,
                      DefaultSlaThreshold, OpenRow
  <2>2. SlaPoints(i) >= 25
    BY <2>1 DEF SlaPoints
  <2>3. VacancyPoints(i) >= 10
    BY <1>2, <1>6 DEF VacancyPoints, DaysSinceMoveOut, AgreementSlaDays, OpenRow
  <2>4. RiskScore(i) >= 30
    BY <1>4, <1>5, <2>2, <2>3
  <2> QED BY <2>4 DEF RiskLevel
<1>7. CASE MoveInWithin(t, day, 3)
  <2>1. MoveInPoints(i) >= 20
    BY <1>2, <1>7 DEF MoveInPoints
  <2>2. RiskScore(i) >= 30
    BY <1>4, <1>5, <2>1
  <2> QED BY <2>2 DEF RiskLevel
<1> QED BY <1>3, <1>6, <1>7

\* sla_risk reaches BREACH on the day days_until_breach reaches zero.
LEMMA BreachDay ==
  ASSUME NEW t, OpenRow(t), NEW day \in Nat
  PROVE  SlaRisk(t, day, Threshold) = "BREACH" <=> DaysUntilBreach(t, day, Threshold) <= 0
BY DEF SlaRisk, DaysUntilBreach, DaysSinceMoveOut, WarningDay, Threshold, DefaultSlaThreshold, OpenRow

\* The older priority rule calls a move-in a danger only where the agreement does.
LEMMA DangerIsRed ==
  ASSUME NEW t, NEW S, NEW day, PriorityLevel(t, S, day, Threshold) = "MOVE_IN_DANGER"
  PROVE  EvaluateAgreements(t, S, day).moveIn = "RED"
<1>1. MoveInWithin(t, day, 3) /\ ReadinessState(S) # "READY"
  BY DEF PriorityLevel, MoveInDangerDays
<1> QED BY <1>1, Reds

\* What days_to_be_ready counts for a unit that readiness_state calls READY.
LEMMA OnlyOptional ==
  ASSUME NEW t, ScheduledMoveIn(t) = NoDate, NEW S, ReadinessState(S) = "READY", NEW day
  PROVE  DaysToBeReady(t, S, day) = DaysToBeReady(t, S \ BlockingKinds(S), day)
<1> DEFINE Due(T) == {k.due : k \in {j \in T : j.due # NoDate /\ j.status \notin {"COMPLETE", "SKIPPED"}}}
<1>1. BlockingTasks(S) = {}
  BY Readiness
<1>2. \A k \in BlockingKinds(S) : k.status \in {"COMPLETE", "SKIPPED"}
  BY <1>1 DEF BlockingTasks, IsDone
<1>3. {j \in S : j.due # NoDate /\ j.status \notin {"COMPLETE", "SKIPPED"}}
        = {j \in S \ BlockingKinds(S) : j.due # NoDate /\ j.status \notin {"COMPLETE", "SKIPPED"}}
  BY <1>2
<1>4. Due(S) = Due(S \ BlockingKinds(S))
  BY <1>3
<1> QED BY <1>4 DEF DaysToBeReady

\* The Alert column, the risk radar and the older priority rule agree with the
\* board's agreements, for any dates and tasks (see RiskAndAlertsMatchBoard).
THEOREM JudgesAgree == Spec => []RiskAndAlertsMatchBoard
<1>1. TypeOK => RiskAndAlertsMatchBoard
  <2> SUFFICES ASSUME TypeOK, BetweenCalls, NEW i \in board
      PROVE  LET inspections == {k \in tasks : k.type \in InspectionTaskTypes}
                 firsts      == IF inspections = {} THEN {{}} ELSE {{k} : k \in inspections}
                 evaluated   == EvaluationGate(row, today) = "evaluate"
             IN  /\ \A first \in firsts : HasAnyBreach(i) => AlertParts(i, first) # {}
                 /\ i.agreements.viol = "RED" /\ tasks # {} => RiskLevel(i) # "LOW"
                 /\ evaluated => (i.slaLevel = "BREACH" <=>
                                    DaysUntilBreach(row, today, DefaultSlaThreshold) <= 0)
                 /\ evaluated /\ PriorityLevel(row, tasks, today, DefaultSlaThreshold) = "MOVE_IN_DANGER"
                      => i.agreements.moveIn = "RED"
                 /\ i.readiness = "READY" /\ evaluated /\ ScheduledMoveIn(row) = NoDate
                      => DaysToBeReady(row, tasks, today) =
                           DaysToBeReady(row, tasks \ BlockingKinds(tasks), today)
    BY DEF RiskAndAlertsMatchBoard
  <2>1. /\ OpenRow(row) /\ today \in Nat /\ i = Item(row, tasks, today)
    BY BoardIs
  <2> DEFINE inspections == {k \in tasks : k.type \in InspectionTaskTypes}
             firsts == IF inspections = {} THEN {{}} ELSE {{k} : k \in inspections}
  <2>2. ASSUME NEW first \in firsts, HasAnyBreach(i) PROVE AlertParts(i, first) # {}
    <3>1. first \in SUBSET {k \in tasks : k.type \in InspectionTaskTypes}
      BY <2>2
    <3> QED BY <2>1, <2>2, <3>1, AlertsSpeak
  <2>3. i.agreements.viol = "RED" /\ tasks # {} => RiskLevel(i) # "LOW"
    BY <2>1, RadarSees
  <2>4. ASSUME EvaluationGate(row, today) = "evaluate"
        PROVE  /\ i.slaLevel = "BREACH" <=> DaysUntilBreach(row, today, DefaultSlaThreshold) <= 0
               /\ PriorityLevel(row, tasks, today, DefaultSlaThreshold) = "MOVE_IN_DANGER"
                    => i.agreements.moveIn = "RED"
               /\ i.readiness = "READY" /\ ScheduledMoveIn(row) = NoDate
                    => DaysToBeReady(row, tasks, today) =
                         DaysToBeReady(row, tasks \ BlockingKinds(tasks), today)
    <3>1. /\ i.slaLevel = SlaRisk(row, today, Threshold) /\ i.readiness = ReadinessState(tasks)
          /\ i.agreements = EvaluateAgreements(row, tasks, today)
      BY <2>1, <2>4, Evaluated
    <3>2. i.slaLevel = "BREACH" <=> DaysUntilBreach(row, today, DefaultSlaThreshold) <= 0
      BY <2>1, <3>1, BreachDay DEF Threshold
    <3>3. PriorityLevel(row, tasks, today, DefaultSlaThreshold) = "MOVE_IN_DANGER"
            => i.agreements.moveIn = "RED"
      BY <3>1, DangerIsRed DEF Threshold
    <3>4. i.readiness = "READY" /\ ScheduledMoveIn(row) = NoDate
            => DaysToBeReady(row, tasks, today) =
                 DaysToBeReady(row, tasks \ BlockingKinds(tasks), today)
      BY <3>1, OnlyOptional
    <3> QED BY <3>2, <3>3, <3>4
  <2> QED BY <2>2, <2>3, <2>4
<1> QED BY <1>1, TypeCorrect, PTL

-----------------------------------------------------------------------------
(* The views of a board *)

\* The agreements of an item: viol is the turn's or the move-in's, and the item has
\* its priority from the four.
ItemOK(i) ==
  /\ DOMAIN i.agreements = AgreementNames
  /\ i.agreements.viol = "RED" <=> i.agreements.sla = "RED" \/ i.agreements.moveIn = "RED"
  /\ i.priority = "NORMAL" <=> \A a \in AgreementNames \ {"viol"} : i.agreements[a] # "RED"

LEMMA ItemsOK ==
  ASSUME NEW t, NEW S, NEW day, NEW i, i = Item(t, S, day)
  PROVE  ItemOK(i)
<1>1. CASE EvaluationGate(t, day) # "evaluate"
  <2>1. i.agreements = AgreementsAllGreen /\ i.priority = "NORMAL"
    BY <1>1, Gated
  <2> QED BY <2>1, AllGreen DEF ItemOK, AgreementNames
<1>2. CASE EvaluationGate(t, day) = "evaluate"
  <2> DEFINE a == i.agreements
  <2>1. a = EvaluateAgreements(t, S, day) /\ i.priority = PriorityFromAgreements(a)
    BY <1>2, Evaluated
  <2>2. /\ DOMAIN a = AgreementNames
        /\ a.viol = "RED" <=> a.sla = "RED" \/ a.moveIn = "RED"
    BY <2>1, Reds
  <2>3. PriorityFromAgreements(a) = "NORMAL" <=>
          a.moveIn # "RED" /\ a.sla # "RED" /\ a.inspection # "RED" /\ a.plan # "RED"
    BY DEF PriorityFromAgreements
  <2>4. (\A n \in AgreementNames \ {"viol"} : a[n] # "RED") <=>
          a.moveIn # "RED" /\ a.sla # "RED" /\ a.inspection # "RED" /\ a.plan # "RED"
    BY DEF AgreementNames
  <2> QED BY <2>1, <2>2, <2>3, <2>4 DEF ItemOK
<1> QED BY <1>1, <1>2

\* The sidebar's categories are the red agreements.
LEMMA Categories ==
  ASSUME NEW B
  PROVE  /\ FlagUnits(B).SLA_BREACH = Red("sla", B)
         /\ FlagUnits(B).MOVE_IN_DANGER = Red("moveIn", B)
         /\ FlagUnits(B).INSPECTION_BREACH = Red("inspection", B)
         /\ FlagUnits(B).PLAN_BLOCKED = Red("plan", B)
         /\ DOMAIN FlagUnits(B) = {"SLA_BREACH", "MOVE_IN_DANGER", "INSPECTION_BREACH", "PLAN_BLOCKED"}
<1> DEFINE s == Red("sla", B)  m == Red("moveIn", B)  n == Red("inspection", B)  p == Red("plan", B)
<1>1. FlagUnits(B) = [SLA_BREACH |-> s, MOVE_IN_DANGER |-> m, INSPECTION_BREACH |-> n, PLAN_BLOCKED |-> p]
  BY DEF FlagUnits
<1> HIDE DEF s, m, n, p
<1>2. /\ FlagUnits(B).SLA_BREACH = s /\ FlagUnits(B).MOVE_IN_DANGER = m
      /\ FlagUnits(B).INSPECTION_BREACH = n /\ FlagUnits(B).PLAN_BLOCKED = p
      /\ DOMAIN FlagUnits(B) = {"SLA_BREACH", "MOVE_IN_DANGER", "INSPECTION_BREACH", "PLAN_BLOCKED"}
  BY <1>1
<1> QED BY <1>2 DEF s, m, n, p

\* get_flag_counts counts what get_flag_units lists.
LEMMA CountsAre ==
  ASSUME NEW B
  PROVE  /\ FlagCounts(B).SLA_BREACH = Cardinality(Red("sla", B))
         /\ FlagCounts(B).MOVE_IN_DANGER = Cardinality(Red("moveIn", B))
         /\ FlagCounts(B).INSPECTION_BREACH = Cardinality(Red("inspection", B))
         /\ FlagCounts(B).PLAN_BLOCKED = Cardinality(Red("plan", B))
<1> DEFINE m(i) == i.agreements.moveIn = "RED"
           s(i) == i.agreements.sla = "RED"
           n(i) == i.agreements.inspection = "RED"
           p(i) == i.agreements.plan = "RED"
           reds(i) == [MOVE_IN_DANGER |-> m(i), SLA_BREACH |-> s(i), INSPECTION_BREACH |-> n(i),
                       PLAN_BLOCKED |-> p(i)]
<1>1. FlagCounts(B) = [c \in {"SLA_BREACH", "MOVE_IN_DANGER", "INSPECTION_BREACH", "PLAN_BLOCKED"} |->
                         Cardinality({i \in B : reds(i)[c]})]
  BY DEF FlagCounts
<1>2. /\ {i \in B : s(i)} = Red("sla", B) /\ {i \in B : m(i)} = Red("moveIn", B)
      /\ {i \in B : n(i)} = Red("inspection", B) /\ {i \in B : p(i)} = Red("plan", B)
  BY DEF Red
<1>3. ASSUME NEW i PROVE /\ reds(i).MOVE_IN_DANGER = m(i) /\ reds(i).SLA_BREACH = s(i)
                         /\ reds(i).INSPECTION_BREACH = n(i) /\ reds(i).PLAN_BLOCKED = p(i)
  <2> HIDE DEF m, s, n, p
  <2> QED OBVIOUS
<1> HIDE DEF m, s, n, p, reds
<1>4. /\ {i \in B : reds(i)["SLA_BREACH"]} = {i \in B : s(i)}
      /\ {i \in B : reds(i)["MOVE_IN_DANGER"]} = {i \in B : m(i)}
      /\ {i \in B : reds(i)["INSPECTION_BREACH"]} = {i \in B : n(i)}
      /\ {i \in B : reds(i)["PLAN_BLOCKED"]} = {i \in B : p(i)}
  BY <1>3
<1>5. /\ FlagCounts(B).SLA_BREACH = Cardinality({i \in B : reds(i)["SLA_BREACH"]})
      /\ FlagCounts(B).MOVE_IN_DANGER = Cardinality({i \in B : reds(i)["MOVE_IN_DANGER"]})
      /\ FlagCounts(B).INSPECTION_BREACH = Cardinality({i \in B : reds(i)["INSPECTION_BREACH"]})
      /\ FlagCounts(B).PLAN_BLOCKED = Cardinality({i \in B : reds(i)["PLAN_BLOCKED"]})
  BY <1>1
<1> QED BY <1>2, <1>4, <1>5

\* Over items that are ItemOK: the violations are the turns and move-ins, the units
\* with a breach are those of the categories, and a unit is NORMAL outside them.
LEMMA BreachesAre ==
  ASSUME NEW B, \A i \in B : ItemOK(i)
  PROVE  LET flagged == Red("sla", B) \cup Red("moveIn", B) \cup Red("inspection", B) \cup Red("plan", B)
         IN  /\ Red("viol", B) = Red("sla", B) \cup Red("moveIn", B)
             /\ {i \in B : HasAnyBreach(i)} = flagged
             /\ \A i \in B : i.priority = "NORMAL" <=> i \notin flagged
<1> DEFINE flagged == Red("sla", B) \cup Red("moveIn", B) \cup Red("inspection", B) \cup Red("plan", B)
<1>1. Red("viol", B) = Red("sla", B) \cup Red("moveIn", B)
  BY DEF Red, ItemOK
<1>2. ASSUME NEW i \in B
      PROVE  i \in flagged <=> \E a \in AgreementNames \ {"viol"} : i.agreements[a] = "RED"
  <2>1. i \in flagged <=> \/ i.agreements.sla = "RED" \/ i.agreements.moveIn = "RED"
                          \/ i.agreements.inspection = "RED" \/ i.agreements.plan = "RED"
    BY DEF Red
  <2> QED BY <2>1 DEF AgreementNames
<1>3. ASSUME NEW i \in B
      PROVE  HasAnyBreach(i) <=> \E a \in AgreementNames \ {"viol"} : i.agreements[a] = "RED"
  <2>1. HasAnyBreach(i) <=> \E a \in AgreementNames : i.agreements[a] = "RED"
    BY DEF HasAnyBreach, ItemOK
  <2> QED BY <2>1 DEF ItemOK, AgreementNames
<1> HIDE DEF flagged
<1>4. {i \in B : HasAnyBreach(i)} = flagged
  <2>1. flagged \subseteq B
    BY DEF flagged, Red
  <2> QED BY <2>1, <1>2, <1>3
<1>5. \A i \in B : i.priority = "NORMAL" <=> i \notin flagged
  BY <1>2 DEF ItemOK
<1> QED BY <1>1, <1>4, <1>5 DEF flagged

\* nvm_label and nvm_state name the same rows Move-In, but those of a move-in before 1990.
LEMMA MovedIn ==
  ASSUME NEW t, OpenRow(t), NEW day \in Nat
  PROVE  /\ NvmState(t, day) = "Move-In" => NvmLabel(LifecyclePhase(t, day)) = "Move-In"
         /\ NvmLabel(LifecyclePhase(t, day)) = "Move-In" =>
              NvmState(t, day) = "Move-In" \/ ScheduledMoveIn(t) # t.moveIn
<1>1. LifecyclePhase(t, day) = "OCCUPIED" <=> t.moveIn # NoDate /\ t.moveIn <= day
  BY OpenPhase DEF OpenRow
<1>2. ScheduledMoveIn(t) = NoDate \/ ScheduledMoveIn(t) = t.moveIn
  BY DEF ScheduledMoveIn
<1>5. NvmState(t, day) = "Move-In" <=> ScheduledMoveIn(t) # NoDate /\ ScheduledMoveIn(t) <= day
  BY <1>2 DEF NvmState, OpenRow
<1>3. LifecyclePhase(t, day) \in Phases
  BY PhaseType
<1>4. \A p \in Phases : NvmLabel(p) = "Move-In" <=> p = "OCCUPIED"
  BY DEF NvmLabel, Phases
<1> QED BY <1>1, <1>2, <1>3, <1>4, <1>5

\* The sidebar, the filters, the metrics, the bridge, the priority badge and the
\* move-in label agree on every board (see ViewsAgree).
THEOREM ViewsCount == Spec => []ViewsAgree
<1>1. TypeOK => ViewsAgree
  <2> SUFFICES ASSUME TypeOK PROVE ViewsAgree
    OBVIOUS
  <2> DEFINE B == board
             units == FlagUnits(B)
             flagged == UNION {units[c] : c \in DOMAIN units}
             s == Red("sla", B)  m == Red("moveIn", B)  n == Red("inspection", B)  p == Red("plan", B)
  <2>1. \A i \in B : ItemOK(i)
    BY BoardIs, ItemsOK
  <2>2. \A c \in DOMAIN units : FlagCounts(B)[c] = Cardinality(units[c])
    BY Categories, CountsAre
  <2>3. flagged = s \cup m \cup n \cup p
    <3> HIDE DEF units
    <3>1. /\ DOMAIN units = {"SLA_BREACH", "MOVE_IN_DANGER", "INSPECTION_BREACH", "PLAN_BLOCKED"}
          /\ units["SLA_BREACH"] = s /\ units["MOVE_IN_DANGER"] = m
          /\ units["INSPECTION_BREACH"] = n /\ units["PLAN_BLOCKED"] = p
      BY Categories DEF units
    <3> HIDE DEF s, m, n, p
    <3>2. {units[c] : c \in DOMAIN units} = {s, m, n, p}
      BY <3>1
    <3> QED BY <3>2
  <2>4. /\ FilterByFlagCategory(B, "SLA_RISK") = units.SLA_BREACH
        /\ FilterByFlagCategory(B, "MOVE_IN_DANGER") = units.MOVE_IN_DANGER
        /\ FilterByFlagCategory(B, "INSPECTION_DELAY") = units.INSPECTION_BREACH
        /\ FilterByFlagCategory(B, "PLAN_BREACH") = units.PLAN_BLOCKED
    BY Categories DEF FilterByFlagCategory
  <2>5. /\ BoardMetrics(B).planBreach = Cardinality(p) /\ FlagCounts(B).PLAN_BLOCKED = Cardinality(p)
        /\ BoardMetrics(B).violations = Cardinality(Red("viol", B))
        /\ FlagBridgeMetrics(B).violations = Cardinality(Red("viol", B))
        /\ FlagBridgeMetrics(B).unitsWithBreach = Cardinality({i \in B : HasAnyBreach(i)})
        /\ BoardSummary(B).total = BoardMetrics(B).active
    BY CountsAre DEF BoardMetrics, FlagBridgeMetrics, BoardSummary
  <2>6. /\ Red("viol", B) = units.SLA_BREACH \cup units.MOVE_IN_DANGER
        /\ {i \in B : HasAnyBreach(i)} = flagged
        /\ \A i \in B : i.priority = "NORMAL" <=> i \notin flagged
    BY <2>1, <2>3, Categories, BreachesAre
  <2>7. \A i \in B :
          /\ NvmState(row, today) = "Move-In" => NvmLabel(i.phase) = "Move-In"
          /\ NvmLabel(i.phase) = "Move-In" =>
               NvmState(row, today) = "Move-In" \/ ScheduledMoveIn(row) # row.moveIn
    <3> SUFFICES ASSUME NEW i \in B
        PROVE  /\ NvmState(row, today) = "Move-In" => NvmLabel(i.phase) = "Move-In"
               /\ NvmLabel(i.phase) = "Move-In" =>
                    NvmState(row, today) = "Move-In" \/ ScheduledMoveIn(row) # row.moveIn
      OBVIOUS
    <3>1. OpenRow(row) /\ today \in Nat /\ i = Item(row, tasks, today)
      BY BoardIs
    <3>2. i.phase = LifecyclePhase(row, today)
      BY <3>1, Evaluated, Gated
    <3> QED BY <3>1, <3>2, MovedIn
  <2> HIDE DEF units, flagged
  <2> QED BY <2>2, <2>4, <2>5, <2>6, <2>7 DEF ViewsAgree, units, flagged
<1> QED BY <1>1, TypeCorrect, PTL

-----------------------------------------------------------------------------
(* The reports of a board *)

\* A share of a whole, in percent.
LEMMA Percent ==
  ASSUME NEW n \in Nat \ {0}, NEW m \in Nat, m <= n
  PROVE  (m * 100) \div n \in 0..100
<1> DEFINE q == (m * 100) \div n
<1>1. m * 100 \in Nat /\ m * 100 <= n * 100
  OBVIOUS
<1>2. q \in Int /\ q * n <= m * 100 /\ m * 100 < (q + 1) * n
  BY <1>1
<1> HIDE DEF q
<1>3. q <= 100
  <2> SUFFICES ASSUME q >= 101 PROVE FALSE
    BY <1>2
  <2>1. q * n >= 101 * n
    BY <1>2
  <2> QED BY <1>1, <1>2, <2>1
<1>4. q >= 0
  <2> SUFFICES ASSUME q + 1 <= 0 PROVE FALSE
    BY <1>2
  <2>1. (q + 1) * n <= 0
    BY <1>2
  <2> QED BY <1>1, <1>2, <2>1
<1> QED BY <1>2, <1>3, <1>4 DEF q

\* What the reports read of an item.
LEMMA ReportItem ==
  ASSUME NEW t, OpenRow(t), NEW S, IsFiniteSet(S), NEW day \in Nat, NEW i, i = Item(t, S, day)
  PROVE  /\ i.turnover = t /\ i.today = day
         /\ i.agreements.moveIn = "RED" => t.moveIn # NoDate /\ i.readiness # "READY"
         /\ i.slaLevel = "BREACH" => i.readiness = "READY" \/ i.agreements.sla = "RED"
         /\ CompletionPercent(i) \in 0..100
<1>1. CASE EvaluationGate(t, day) # "evaluate"
  <2>1. /\ i.turnover = t /\ i.today = day /\ i.slaLevel = "OK" /\ i.completed = <<0, 0>>
        /\ i.agreements.moveIn = "GREEN"
    BY <1>1, Gated, AllGreen DEF AgreementNames
  <2>2. CompletionPercent(i) = 0
    BY <2>1 DEF CompletionPercent
  <2> QED BY <2>1, <2>2
<1>2. CASE EvaluationGate(t, day) = "evaluate"
  <2>1. /\ i.turnover = t /\ i.today = day /\ i.readiness = ReadinessState(S)
        /\ i.slaLevel = SlaRisk(t, day, Threshold) /\ i.completed = CompletionRatio(S)
        /\ i.agreements = EvaluateAgreements(t, S, day)
    BY <1>2, Evaluated
  <2>2. i.agreements.moveIn = "RED" => t.moveIn # NoDate /\ i.readiness # "READY"
    BY <2>1, Reds DEF MoveInWithin
  <2>3. i.slaLevel = "BREACH" => DaysSinceMoveOut(t, day) > AgreementSlaDays
    BY <2>1 DEF SlaRisk, Threshold, DefaultSlaThreshold, DaysSinceMoveOut, AgreementSlaDays,
                WarningDay, OpenRow
  <2>4. i.slaLevel = "BREACH" => i.readiness = "READY" \/ i.agreements.sla = "RED"
    BY <2>1, <2>3, Reds
  <2> DEFINE required == {k \in S : k.required}
             done == {k \in required : IsDone(k)}
             m == Cardinality(done)  n == Cardinality(required)
  <2>5. i.completed = <<m, n>>
    BY <2>1 DEF CompletionRatio
  <2>6. m \in Nat /\ n \in Nat /\ m <= n
    <3>1. required \in SUBSET S /\ done \in SUBSET required
      OBVIOUS
    <3> HIDE DEF required, done
    <3>2. IsFiniteSet(required) /\ IsFiniteSet(done) /\ m <= n
      BY <3>1, FS_Subset
    <3> QED BY <3>2, FS_CardinalityType
  <2> HIDE DEF m, n
  <2>7. CompletionPercent(i) = IF n = 0 THEN 0 ELSE (m * 100) \div n
    BY <2>5 DEF CompletionPercent
  <2>8. CompletionPercent(i) \in 0..100
    BY <2>6, <2>7, Percent
  <2> QED BY <2>1, <2>2, <2>4, <2>8
<1> QED BY <1>1, <1>2

\* One row of the exports, field by field.
LEMMA RowIs ==
  ASSUME NEW i, NEW r, r = ExportRow(i)
  PROVE  /\ r.item = i /\ r.state = i.phase /\ r.dv = VacancyDays(i.turnover, i.today)
         /\ r.sla_breach <=> i.slaLevel = "BREACH"
         /\ r.plan_breach <=> i.agreements.plan = "RED"
         /\ r.inspection_breach <=> i.agreements.inspection = "RED"
         /\ r.is_task_stalled <=> i \in WorkStalled({i})
         /\ r.completion = CompletionPercent(i)
         /\ r.is_unit_ready <=> i.readiness = "READY"
<1> DEFINE state == i.phase
           dv == VacancyDays(i.turnover, i.today)
           sla == i.slaLevel = "BREACH"
           plan == i.agreements.plan = "RED"
           inspection == i.agreements.inspection = "RED"
           movein == i.agreements.moveIn = "RED"
           stalled == WorkStalled({i}) # {}
           completion == CompletionPercent(i)
           ready == i.readiness = "READY"
           qc == QcStatus(i.tasks)
<1>1. r = [item |-> i, state |-> state, dv |-> dv, sla_breach |-> sla, plan_breach |-> plan,
           inspection_breach |-> inspection, movein_breach |-> movein, is_task_stalled |-> stalled,
           completion |-> completion, is_unit_ready |-> ready, qc_status |-> qc]
  BY DEF ExportRow
<1>2. stalled <=> i \in WorkStalled({i})
  BY DEF WorkStalled
<1> HIDE DEF state, dv, sla, plan, inspection, movein, stalled, completion, ready, qc
<1>3. /\ r.item = i /\ r.state = state /\ r.dv = dv /\ r.sla_breach = sla
      /\ r.plan_breach = plan /\ r.inspection_breach = inspection /\ r.is_task_stalled = stalled
      /\ r.completion = completion /\ r.is_unit_ready = ready
  BY <1>1
<1> QED BY <1>2, <1>3 DEF state, dv, sla, plan, inspection, completion, ready

\* Counting rows is counting their items.
LEMMA CountItems ==
  ASSUME NEW B, IsFiniteSet(B), NEW R \in SUBSET ExportRows(B)
  PROVE  Cardinality(R) = Cardinality({r.item : r \in R})
<1> DEFINE T == {i \in B : ExportRow(i) \in R}
           f == [i \in T |-> ExportRow(i)]
<1>1. ASSUME NEW r \in R PROVE r.item \in B /\ r = ExportRow(r.item)
  <2>1. PICK i \in B : r = ExportRow(i)
    BY DEF ExportRows
  <2> QED BY <2>1, RowIs
<1>2. \A i \in B : ExportRow(i).item = i
  BY RowIs
<1>3. {r.item : r \in R} = T
  BY <1>1, <1>2
<1>4. f \in Bijection(T, R)
  <2>1. f \in [T -> R]
    OBVIOUS
  <2>2. \A i, j \in T : f[i] = f[j] => i = j
    BY <1>2
  <2>3. \A r \in R : \E i \in T : f[i] = r
    BY <1>1
  <2> QED BY <2>1, <2>2, <2>3, Fun_IsBij
<1>5. IsFiniteSet(T)
  BY FS_Subset
<1> HIDE DEF T, f
<1>6. Cardinality(R) = Cardinality(T)
  BY <1>4, <1>5, FS_Bijection DEF ExistsBijection
<1> QED BY <1>3, <1>6

\* The sheets and texts, field by field.
LEMMA Sheets ==
  ASSUME NEW R
  PROVE  /\ OperationsSheet(R).OpsMoveIn = {r \in R : r.item.turnover.moveIn # NoDate /\ ~r.is_unit_ready}
         /\ OperationsSheet(R).OpsSLABreach = {r \in R : r.sla_breach}
         /\ OperationsSheet(R).OpsInspBreach = {r \in R : r.inspection_breach}
         /\ OperationsSheet(R).OpsPlanBreach = {r \in R : r.plan_breach}
         /\ DailyOps(R).turnBreaches = Cardinality({r \in R : r.sla_breach})
         /\ DailyOps(R).stalled = Cardinality({r \in R : r.is_task_stalled})
         /\ DailyOps(R).vacant = Cardinality({r \in R : IsVacantRow(r)})
         /\ PhasePerformance(R).SLA_Breaches = Cardinality({r \in R : r.sla_breach})
         /\ TasksSheet(R).TaskStalled = {r \in R : r.is_task_stalled}
         /\ TasksSheet(R).CleanTurn = {r \in R : TaskState(r) = "All Tasks Complete" /\ IsVacantRow(r)}
         /\ TasksSheet(R).TaskFlow = {r \in R : TaskState(r) = "In Progress" /\ InTurnExecution(r)}
         /\ FinalReport(R).AvailableUnits = {r \in R : IsVacantRow(r)}
         /\ FinalReport(R).HasMoveIn = {r \in R : r.item.turnover.moveIn # NoDate}
         /\ FinalReport(R).NoMoveIn = R \ {r \in R : r.item.turnover.moveIn # NoDate}
         /\ AgingSheet(R).All = BucketGrid(R, AllBuckets)
         /\ AgingSheet(R).NotReady = BucketGrid({r \in R : r.state = "VACANT_NOT_READY"}, AllBuckets)
<1>1. /\ OperationsSheet(R).OpsMoveIn = {r \in R : r.item.turnover.moveIn # NoDate /\ ~r.is_unit_ready}
      /\ OperationsSheet(R).OpsSLABreach = {r \in R : r.sla_breach}
      /\ OperationsSheet(R).OpsInspBreach = {r \in R : r.inspection_breach}
      /\ OperationsSheet(R).OpsPlanBreach = {r \in R : r.plan_breach}
  BY DEF OperationsSheet
<1>2. /\ DailyOps(R).turnBreaches = Cardinality({r \in R : r.sla_breach})
      /\ DailyOps(R).stalled = Cardinality({r \in R : r.is_task_stalled})
      /\ DailyOps(R).vacant = Cardinality({r \in R : IsVacantRow(r)})
  BY DEF DailyOps
<1>3. PhasePerformance(R).SLA_Breaches = Cardinality({r \in R : r.sla_breach})
  BY DEF PhasePerformance
<1>4. /\ TasksSheet(R).TaskStalled = {r \in R : r.is_task_stalled}
      /\ TasksSheet(R).CleanTurn = {r \in R : TaskState(r) = "All Tasks Complete" /\ IsVacantRow(r)}
      /\ TasksSheet(R).TaskFlow = {r \in R : TaskState(r) = "In Progress" /\ InTurnExecution(r)}
  BY DEF TasksSheet
<1>5. /\ FinalReport(R).AvailableUnits = {r \in R : IsVacantRow(r)}
      /\ FinalReport(R).HasMoveIn = {r \in R : r.item.turnover.moveIn # NoDate}
      /\ FinalReport(R).NoMoveIn = R \ {r \in R : r.item.turnover.moveIn # NoDate}
  BY DEF FinalReport
<1>6. /\ AgingSheet(R).All = BucketGrid(R, AllBuckets)
      /\ AgingSheet(R).NotReady = BucketGrid({r \in R : r.state = "VACANT_NOT_READY"}, AllBuckets)
  BY DEF AgingSheet
<1> QED BY <1>1, <1>2, <1>3, <1>4, <1>5, <1>6

LEMMA Weekly ==
  ASSUME NEW B
  PROVE  /\ WeeklySummary(B).vacant = Cardinality({i \in B : i.phase \in VacantStates})
         /\ WeeklySummary(B).slaBreaches = Red("sla", B)
         /\ WeeklySummary(B).moveInRisk = Red("moveIn", B)
         /\ WeeklySummary(B).planBreaches = Red("plan", B)
         /\ WeeklySummary(B).stalled = WorkStalled(B)
         /\ WeeklySummary(B).upcomingMoveIns = {i \in B : WithinWeek(i.turnover.moveIn, i.today)}
         /\ WeeklySummary(B).aging =
              [b \in AllBuckets |->
                 {i \in {j \in B : VacancyDays(j.turnover, j.today) # NoDays} :
                    AgingBucket(VacancyDays(i.turnover, i.today)) = b}]
<1> DEFINE InPhase(phases) == Cardinality({i \in B : i.phase \in phases})
           Week(field) == {i \in B : WithinWeek(i.turnover[field], i.today)}
           vacancies   == {i \in B : VacancyDays(i.turnover, i.today) # NoDays}
           v == InPhase(VacantStates)  n == InPhase(NoticeStates)
           ok == Max({0, Cardinality(B) - BoardMetrics(B).slaBreach})
           ready == Cardinality({i \in B : i.readiness = "READY"})
           active == BoardMetrics(B).active
           s == FlagUnits(B).SLA_BREACH  m == FlagUnits(B).MOVE_IN_DANGER  p == FlagUnits(B).PLAN_BLOCKED
           w == WorkStalled(B)  ins == Week("moveIn")  readies == Week("ready")
           aging == [b \in {10, 20, 30, 60, 120, 1000} |->
                       {i \in vacancies : AgingBucket(VacancyDays(i.turnover, i.today)) = b}]
<1>1. WeeklySummary(B) =
        [active |-> active, vacant |-> v, onNotice |-> n, slaOk |-> ok, ready |-> ready,
         slaBreaches |-> s, moveInRisk |-> m, stalled |-> w, planBreaches |-> p,
         upcomingMoveIns |-> ins, upcomingReady |-> readies, aging |-> aging]
  BY DEF WeeklySummary
<1> HIDE DEF v, n, ok, ready, active, s, m, p, w, ins, readies, aging
<1>2. /\ WeeklySummary(B).vacant = v /\ WeeklySummary(B).slaBreaches = s
      /\ WeeklySummary(B).moveInRisk = m /\ WeeklySummary(B).planBreaches = p
      /\ WeeklySummary(B).stalled = w /\ WeeklySummary(B).upcomingMoveIns = ins
      /\ WeeklySummary(B).aging = aging
  BY <1>1
<1>3. s = Red("sla", B) /\ m = Red("moveIn", B) /\ p = Red("plan", B)
  BY Categories DEF s, m, p
<1>4. ins = {i \in B : WithinWeek(i.turnover.moveIn, i.today)}
  BY DEF ins
<1> QED BY <1>2, <1>3, <1>4 DEF v, w, aging, AllBuckets

\* Every number of days has a bucket of the grid, and a bar in each histogram.
LEMMA Bucketed ==
  ASSUME NEW d \in Int
  PROVE  AgingBucket(d) \in AllBuckets
<1> DEFINE above == {b \in {10, 20, 30, 60, 120} : d <= b}
<1>1. CASE d > 120
  BY <1>1 DEF AgingBucket, AllBuckets
<1>2. CASE ~(d > 120)
  <2>1. \E x \in above : \A y \in above : x <= y
    <3>1. CASE d <= 10
      BY <3>1
    <3>2. CASE d > 10 /\ d <= 20
      BY <3>2
    <3>3. CASE d > 20 /\ d <= 30
      BY <3>3
    <3>4. CASE d > 30 /\ d <= 60
      BY <3>4
    <3>5. CASE d > 60 /\ d <= 120
      BY <3>5
    <3> QED BY <1>2, <3>1, <3>2, <3>3, <3>4, <3>5
  <2>2. above \subseteq AllBuckets
    BY DEF AllBuckets
  <2>3. AgingBucket(d) = Min(above)
    BY <1>2 DEF AgingBucket
  <2> HIDE DEF above
  <2>4. Min(above) \in above
    BY <2>1 DEF Min
  <2> QED BY <2>2, <2>3, <2>4
<1> QED BY <1>1, <1>2

LEMMA Barred ==
  ASSUME NEW d \in Int
  PROVE  /\ d <= OpenEnded =>
              \E b \in {5, 10, 15, 20, OpenEnded} :
                d <= b /\ \A a \in {5, 10, 15, 20, OpenEnded} : a < b => d > a
         /\ d <= OpenEnded =>
              \E b \in {2, 7, 14, OpenEnded} :
                d <= b /\ \A a \in {2, 7, 14, OpenEnded} : a < b => d > a
         /\ d <= 100 =>
              \E b \in {25, 50, 75, 100} :
                d <= b /\ \A a \in {25, 50, 75, 100} : a < b => d > a
<1>1. OpenEnded \in Int /\ OpenEnded > 20
  BY SMT DEF OpenEnded
<1>2. ASSUME d <= OpenEnded
      PROVE  \E b \in {5, 10, 15, 20, OpenEnded} :
               d <= b /\ \A a \in {5, 10, 15, 20, OpenEnded} : a < b => d > a
  <2>1. CASE d <= 5
    BY <1>1, <2>1
  <2>2. CASE d > 5 /\ d <= 10
    BY <1>1, <2>2
  <2>3. CASE d > 10 /\ d <= 15
    BY <1>1, <2>3
  <2>4. CASE d > 15 /\ d <= 20
    BY <1>1, <2>4
  <2>5. CASE d > 20
    BY <1>1, <1>2, <2>5
  <2> QED BY <2>1, <2>2, <2>3, <2>4, <2>5
<1>3. ASSUME d <= OpenEnded
      PROVE  \E b \in {2, 7, 14, OpenEnded} :
               d <= b /\ \A a \in {2, 7, 14, OpenEnded} : a < b => d > a
  <2>1. CASE d <= 2
    BY <1>1, <2>1
  <2>2. CASE d > 2 /\ d <= 7
    BY <1>1, <2>2
  <2>3. CASE d > 7 /\ d <= 14
    BY <1>1, <2>3
  <2>4. CASE d > 14
    BY <1>1, <1>3, <2>4
  <2> QED BY <2>1, <2>2, <2>3, <2>4
<1>4. ASSUME d <= 100
      PROVE  \E b \in {25, 50, 75, 100} :
               d <= b /\ \A a \in {25, 50, 75, 100} : a < b => d > a
  <2>1. CASE d <= 25
    BY <2>1
  <2>2. CASE d > 25 /\ d <= 50
    BY <2>2
  <2>3. CASE d > 50 /\ d <= 75
    BY <2>3
  <2>4. CASE d > 75
    BY <1>4, <2>4
  <2> QED BY <2>1, <2>2, <2>3, <2>4
<1> QED BY <1>2, <1>3, <1>4

\* What the reports need of an item of the board.
Reported(i) ==
  /\ i.agreements.moveIn = "RED" => i.turnover.moveIn # NoDate /\ i.readiness # "READY"
  /\ i.slaLevel = "BREACH" => i.readiness = "READY" \/ i.agreements.sla = "RED"
  /\ CompletionPercent(i) \in 0..100
  /\ i.today \in Nat
  /\ VacancyDays(i.turnover, i.today) \in Int /\ VacancyDays(i.turnover, i.today) <= OpenEnded
  /\ i.turnover.moveIn - i.today \in Int /\ i.turnover.moveIn - i.today <= OpenEnded

\* Dates are at most LastDay apart.
LEMMA Span ==
  ASSUME NEW d, Day(d), NEW e, Day(e)
  PROVE  /\ d - e \in Int /\ d - e <= OpenEnded
         /\ NoDate - e \in Int /\ NoDate - e <= OpenEnded
         /\ NoDays \in Int /\ NoDays <= OpenEnded
BY SMT DEF Day, LastDay, OpenEnded, NoDate, NoDays

LEMMA TasksFinite == IsFiniteSet(tasks)
<1> DEFINE f == [k \in TaskKinds |->
                   [type |-> k.type, required |-> k.required, blocking |-> k.blocking,
                    due |-> k.due, scheduled |-> k.scheduled, status |-> progress[k]]]
           T == {f[k] : k \in TaskKinds}
<1>1. tasks = T
  BY DEF tasks
<1> HIDE DEF f
<1> DEFINE g == [k \in TaskKinds |-> f[k]]
<1>2. g \in Surjection(TaskKinds, T)
  BY Fun_IsSurj
<1> QED BY <1>1, <1>2, TasksOK, FS_Surjection

LEMMA BoardReported ==
  ASSUME TypeOK
  PROVE  IsFiniteSet(board) /\ \A i \in board : Reported(i)
<1>1. IsFiniteSet(board)
  BY FS_EmptySet, FS_Singleton DEF board
<1>2. IsFiniteSet(tasks)
  BY TasksFinite
<1>3. ASSUME NEW i \in board PROVE Reported(i)
  <2>1. OpenRow(row) /\ today \in Nat /\ i = Item(row, tasks, today)
    BY <1>3, BoardIs
  <2>2. /\ i.turnover = row /\ i.today = today
        /\ i.agreements.moveIn = "RED" => row.moveIn # NoDate /\ i.readiness # "READY"
        /\ i.slaLevel = "BREACH" => i.readiness = "READY" \/ i.agreements.sla = "RED"
        /\ CompletionPercent(i) \in 0..100
    BY <1>2, <2>1, ReportItem
  <2>3. Day(today) /\ Day(row.moveOut) /\ (Day(row.moveIn) \/ row.moveIn = NoDate)
    <3>1. /\ row.moveOut \in Days /\ row.moveIn \in Days \cup MoveIns \cup {NoDate}
          /\ today \in Days
      <4>1. row \in Rows /\ today \in Days
        BY DEF TypeOK
      <4> QED BY <4>1 DEF Rows
    <3>2. \A d \in Days : Day(d)
      BY DatesOK, InRange
    <3>3. \A d \in MoveIns : Day(d) \/ d = NoDate
      BY DatesOK, InRange
    <3> QED BY <3>1, <3>2, <3>3
  <2>4. row.moveIn - today \in Int /\ row.moveIn - today <= OpenEnded
    BY <2>3, Span
  <2>5. VacancyDays(row, today) \in Int /\ VacancyDays(row, today) <= OpenEnded
    <3>1. /\ today - row.moveOut \in Int /\ today - row.moveOut <= OpenEnded
          /\ NoDays \in Int /\ NoDays <= OpenEnded
          /\ row.moveIn # NoDate =>
               row.moveIn - row.moveOut \in Int /\ row.moveIn - row.moveOut <= OpenEnded
      BY <2>3, Span
    <3> QED BY <3>1 DEF VacancyDays
  <2> QED BY <2>1, <2>2, <2>4, <2>5 DEF Reported
<1> QED BY <1>1, <1>3

\* The exports' rows and the board's items are one to one.
LEMMA RowsAre ==
  ASSUME NEW B
  PROVE  /\ \A i \in B : ExportRow(i) \in ExportRows(B) /\ ExportRow(i).item = i
         /\ \A r \in ExportRows(B) :
              /\ r.item \in B /\ r = ExportRow(r.item)
              /\ r.state = r.item.phase /\ r.dv = VacancyDays(r.item.turnover, r.item.today)
              /\ r.sla_breach <=> r.item.slaLevel = "BREACH"
              /\ r.plan_breach <=> r.item.agreements.plan = "RED"
              /\ r.inspection_breach <=> r.item.agreements.inspection = "RED"
              /\ r.is_task_stalled <=> r.item \in WorkStalled(B)
              /\ r.completion = CompletionPercent(r.item)
              /\ r.is_unit_ready <=> r.item.readiness = "READY"
<1>1. \A i \in B : ExportRow(i) \in ExportRows(B) /\ ExportRow(i).item = i
  BY RowIs DEF ExportRows
<1>2. ASSUME NEW r \in ExportRows(B)
      PROVE  /\ r.item \in B /\ r = ExportRow(r.item)
             /\ r.state = r.item.phase /\ r.dv = VacancyDays(r.item.turnover, r.item.today)
             /\ r.sla_breach <=> r.item.slaLevel = "BREACH"
             /\ r.plan_breach <=> r.item.agreements.plan = "RED"
             /\ r.inspection_breach <=> r.item.agreements.inspection = "RED"
             /\ r.is_task_stalled <=> r.item \in WorkStalled(B)
             /\ r.completion = CompletionPercent(r.item)
             /\ r.is_unit_ready <=> r.item.readiness = "READY"
  <2>1. PICK i \in B : r = ExportRow(i)
    BY DEF ExportRows
  <2>2. r.item = i
    BY <2>1, RowIs
  <2>3. i \in WorkStalled({i}) <=> i \in WorkStalled(B)
    BY DEF WorkStalled
  <2> QED BY <2>1, <2>2, <2>3, RowIs
<1> QED BY <1>1, <1>2

\* The bars of the three histograms hold every row that they count.
LEMMA AllBars ==
  ASSUME NEW B, \A i \in B : Reported(i)
  PROVE  LET R == ExportRows(B)
             Bars(f) == UNION {f[b] : b \in DOMAIN f}
         IN  /\ Bars(ChartTurnTime(R)) = {r \in R : r.dv # NoDays}
             /\ Bars(BucketGrid(R, AllBuckets)) = {r \in R : r.dv # NoDays}
             /\ Bars(ChartTaskCompletion(R)) = R
             /\ Bars(ChartDaysToMoveIn(R)) = {r \in R : r.item.turnover.moveIn # NoDate}
<1> DEFINE R == ExportRows(B)
           Bars(f) == UNION {f[b] : b \in DOMAIN f}
           left(r) == r.item.turnover.moveIn - r.item.today
<1>1. ASSUME NEW r \in R
      PROVE  /\ r.dv \in Int /\ r.dv <= OpenEnded
             /\ left(r) \in Int /\ left(r) <= OpenEnded
             /\ r.completion \in Int /\ r.completion <= 100
  <2>1. r.item \in B /\ r.dv = VacancyDays(r.item.turnover, r.item.today)
          /\ r.completion = CompletionPercent(r.item)
    BY RowsAre
  <2> QED BY <2>1 DEF Reported
<1> HIDE DEF R
<1>2. Bars(ChartTurnTime(R)) = {r \in R : r.dv # NoDays}
  <2> DEFINE bounds == {5, 10, 15, 20, OpenEnded}
             bar(b) == {r \in R : r.dv # NoDays /\ r.dv <= b /\ \A a \in bounds : a < b => r.dv > a}
  <2>1. ChartTurnTime(R) = [b \in bounds |-> bar(b)]
    BY DEF ChartTurnTime, Histogram
  <2>2. \A r \in R : r.dv # NoDays => \E b \in bounds : r \in bar(b)
    BY <1>1, Barred
  <2>3. \A b : bar(b) \subseteq {r \in R : r.dv # NoDays}
    OBVIOUS
  <2> HIDE DEF bounds, bar
  <2> QED BY <2>1, <2>2, <2>3
<1>3. Bars(BucketGrid(R, AllBuckets)) = {r \in R : r.dv # NoDays}
  <2> DEFINE cell(b) == {r \in R : r.dv # NoDays /\ AgingBucket(r.dv) = b}
  <2>1. BucketGrid(R, AllBuckets) = [b \in AllBuckets |-> cell(b)]
    BY DEF BucketGrid
  <2>2. \A r \in R : r.dv # NoDays => \E b \in AllBuckets : r \in cell(b)
    BY <1>1, Bucketed
  <2>3. \A b : cell(b) \subseteq {r \in R : r.dv # NoDays}
    OBVIOUS
  <2> HIDE DEF cell
  <2> QED BY <2>1, <2>2, <2>3
<1>4. Bars(ChartTaskCompletion(R)) = R
  <2> DEFINE bounds == {25, 50, 75, 100}
             bar(b) == {r \in R : TRUE /\ r.completion <= b
                                  /\ \A a \in bounds : a < b => r.completion > a}
  <2>1. ChartTaskCompletion(R) = [b \in bounds |-> bar(b)]
    BY DEF ChartTaskCompletion, Histogram
  <2>2. \A r \in R : \E b \in bounds : r \in bar(b)
    BY <1>1, Barred
  <2>3. \A b : bar(b) \subseteq R
    OBVIOUS
  <2> HIDE DEF bounds, bar
  <2> QED BY <2>1, <2>2, <2>3
<1>5. Bars(ChartDaysToMoveIn(R)) = {r \in R : r.item.turnover.moveIn # NoDate}
  <2> DEFINE bounds == {2, 7, 14, OpenEnded}
             bar(b) == {r \in R : /\ r.item.turnover.moveIn # NoDate /\ left(r) <= b
                                  /\ \A a \in bounds : a < b => left(r) > a}
  <2>1. ChartDaysToMoveIn(R) = [b \in bounds |-> bar(b)]
    BY DEF ChartDaysToMoveIn, Histogram
  <2>2. ASSUME NEW r \in R, r.item.turnover.moveIn # NoDate PROVE \E b \in bounds : r \in bar(b)
    <3>1. PICK b \in bounds : left(r) <= b /\ \A a \in bounds : a < b => left(r) > a
      BY <1>1, Barred
    <3> QED BY <2>2, <3>1
  <2>3. \A b : bar(b) \subseteq {r \in R : r.item.turnover.moveIn # NoDate}
    OBVIOUS
  <2> HIDE DEF bounds, bar
  <2> QED BY <2>1, <2>2, <2>3
<1> QED BY <1>2, <1>3, <1>4, <1>5 DEF R

\* The sheets of one download, over the rows of any board.
LEMMA SheetsAgree ==
  ASSUME NEW B, IsFiniteSet(B), \A i \in B : Reported(i)
  PROVE  LET R == ExportRows(B)
             Units(S) == {r.item : r \in S}
         IN  /\ Units({r \in R : r.plan_breach}) = Red("plan", B)
             /\ Red("moveIn", B) \subseteq
                  Units({r \in R : r.item.turnover.moveIn # NoDate /\ ~r.is_unit_ready})
             /\ Units({r \in R : r.inspection_breach}) = Red("inspection", B)
             /\ \A r \in {s \in R : s.sla_breach} : r.is_unit_ready \/ r.item \in Red("sla", B)
             /\ Units({r \in R : r.is_task_stalled}) = WorkStalled(B)
             /\ Cardinality({r \in R : r.is_task_stalled}) = Cardinality(WorkStalled(B))
             /\ Cardinality({r \in R : IsVacantRow(r)})
                  = Cardinality({i \in B : i.phase \in VacantStates})
             /\ \A b \in AllBuckets :
                  Units(BucketGrid(R, AllBuckets)[b]) = WeeklySummary(B).aging[b]
<1> DEFINE R == ExportRows(B)
           Units(S) == {r.item : r \in S}
<1>1. Units({r \in R : r.plan_breach}) = Red("plan", B)
  BY RowsAre DEF Red
<1>2. Red("moveIn", B) \subseteq Units({r \in R : r.item.turnover.moveIn # NoDate /\ ~r.is_unit_ready})
  <2> SUFFICES ASSUME NEW i \in B, i.agreements.moveIn = "RED"
      PROVE  i \in Units({r \in R : r.item.turnover.moveIn # NoDate /\ ~r.is_unit_ready})
    BY DEF Red
  <2>1. i.turnover.moveIn # NoDate /\ i.readiness # "READY"
    BY DEF Reported
  <2>2. ExportRow(i) \in R /\ ExportRow(i).item = i
    BY RowsAre
  <2>3. ~ExportRow(i).is_unit_ready
    BY <2>1, <2>2, RowsAre
  <2> QED BY <2>1, <2>2, <2>3
<1>3. Units({r \in R : r.inspection_breach}) = Red("inspection", B)
  BY RowsAre DEF Red
<1>4. \A r \in {s \in R : s.sla_breach} : r.is_unit_ready \/ r.item \in Red("sla", B)
  BY RowsAre DEF Red, Reported
<1>5. Units({r \in R : r.is_task_stalled}) = WorkStalled(B)
  <2>1. WorkStalled(B) \subseteq B
    BY DEF WorkStalled
  <2> QED BY <2>1, RowsAre
<1>6. Cardinality({r \in R : r.is_task_stalled}) = Cardinality(WorkStalled(B))
  BY <1>5, CountItems
<1>7. Cardinality({r \in R : IsVacantRow(r)}) = Cardinality({i \in B : i.phase \in VacantStates})
  <2>1. Units({r \in R : IsVacantRow(r)}) = {i \in B : i.phase \in VacantStates}
    BY RowsAre DEF IsVacantRow
  <2> QED BY <2>1, CountItems
<1>8. ASSUME NEW b \in AllBuckets
      PROVE  Units(BucketGrid(R, AllBuckets)[b]) = WeeklySummary(B).aging[b]
  <2>1. BucketGrid(R, AllBuckets)[b] = {r \in R : r.dv # NoDays /\ AgingBucket(r.dv) = b}
    BY DEF BucketGrid
  <2>2. WeeklySummary(B).aging[b] =
          {i \in {j \in B : VacancyDays(j.turnover, j.today) # NoDays} :
             AgingBucket(VacancyDays(i.turnover, i.today)) = b}
    <3> DEFINE cell(c) == {i \in {j \in B : VacancyDays(j.turnover, j.today) # NoDays} :
                             AgingBucket(VacancyDays(i.turnover, i.today)) = c}
    <3>1. WeeklySummary(B).aging = [c \in AllBuckets |-> cell(c)]
      BY Weekly
    <3> HIDE DEF cell
    <3>2. WeeklySummary(B).aging[b] = cell(b)
      BY <3>1
    <3> QED BY <3>2 DEF cell
  <2> QED BY <2>1, <2>2, RowsAre
<1> QED BY <1>1, <1>2, <1>3, <1>4, <1>5, <1>6, <1>7, <1>8

\* What is about rows alone: the word of a task state, the columns, the score.
LEMMA RowsAgree ==
  ASSUME NEW R
  PROVE  /\ {r \in R : TaskState(r) = "All Tasks Complete" /\ IsVacantRow(r)}
              \cap {r \in R : TaskState(r) = "In Progress" /\ InTurnExecution(r)} = {}
         /\ {r \in R : TaskState(r) = "All Tasks Complete" /\ IsVacantRow(r)}
              \cup {r \in R : TaskState(r) = "In Progress" /\ InTurnExecution(r)}
                \subseteq {r \in R : IsVacantRow(r)}
         /\ {r \in R : r.item.turnover.moveIn # NoDate} = {r \in R : Nvm(r) = "M"}
         /\ \A b \in {10, 20} :
              ActiveAgingSheet(R)[b]
                = BucketGrid({r \in R : r.state = "VACANT_NOT_READY"}, AllBuckets)[b]
         /\ \A r \in R : PriorityAction(r) = "ESCALATE" => PriorityScore(r) >= 50
<1>1. {r \in R : TaskState(r) = "All Tasks Complete" /\ IsVacantRow(r)}
        \cap {r \in R : TaskState(r) = "In Progress" /\ InTurnExecution(r)} = {}
  OBVIOUS
<1>2. {r \in R : TaskState(r) = "All Tasks Complete" /\ IsVacantRow(r)}
        \cup {r \in R : TaskState(r) = "In Progress" /\ InTurnExecution(r)}
          \subseteq {r \in R : IsVacantRow(r)}
  BY DEF InTurnExecution
<1>3. {r \in R : r.item.turnover.moveIn # NoDate} = {r \in R : Nvm(r) = "M"}
  BY DEF Nvm
<1>4. \A b \in {10, 20} :
        ActiveAgingSheet(R)[b] = BucketGrid({r \in R : r.state = "VACANT_NOT_READY"}, AllBuckets)[b]
  BY DEF ActiveAgingSheet, BucketGrid, AllBuckets
<1>5. ASSUME NEW r \in R, PriorityAction(r) = "ESCALATE" PROVE PriorityScore(r) >= 50
  <2>1. r.sla_breach
    BY <1>5 DEF PriorityAction
  <2> QED BY <2>1 DEF PriorityScore
<1> QED BY <1>1, <1>2, <1>3, <1>4, <1>5

\* One download puts the same units behind the same word (see ReportsAgree).
THEOREM DownloadsAgree == Spec => []ReportsAgree
<1>1. TypeOK => ReportsAgree
  <2> SUFFICES ASSUME TypeOK PROVE ReportsAgree
    OBVIOUS
  <2> DEFINE rows   == ExportRows(board)
             weekly == WeeklySummary(board)
             ops    == OperationsSheet(rows)
             sheet  == TasksSheet(rows)
             final  == FinalReport(rows)
             aging  == AgingSheet(rows)
             Units(S) == {r.item : r \in S}
             Bars(f)  == UNION {f[b] : b \in DOMAIN f}
  <2>1. IsFiniteSet(board) /\ \A i \in board : Reported(i)
    BY BoardReported
  <2> DEFINE late   == {r \in rows : r.sla_breach}
             plan   == {r \in rows : r.plan_breach}
             insp   == {r \in rows : r.inspection_breach}
             risky  == {r \in rows : r.item.turnover.moveIn # NoDate /\ ~r.is_unit_ready}
             stuck  == {r \in rows : r.is_task_stalled}
             vacant == {r \in rows : IsVacantRow(r)}
             clean  == {r \in rows : TaskState(r) = "All Tasks Complete" /\ IsVacantRow(r)}
             flow   == {r \in rows : TaskState(r) = "In Progress" /\ InTurnExecution(r)}
             booked == {r \in rows : r.item.turnover.moveIn # NoDate}
             dated  == {r \in rows : r.dv # NoDays}
             grid   == BucketGrid(rows, AllBuckets)
             grid2  == BucketGrid({r \in rows : r.state = "VACANT_NOT_READY"}, AllBuckets)
             there  == {i \in board : i.phase \in VacantStates}
             sla == Red("sla", board)  mi == Red("moveIn", board)
             in == Red("inspection", board)  pl == Red("plan", board)
             stalls == WorkStalled(board)
             called == {r \in rows : Nvm(r) = "M"}
  <2>2. /\ ops.OpsMoveIn = risky /\ ops.OpsSLABreach = late
        /\ ops.OpsInspBreach = insp /\ ops.OpsPlanBreach = plan
    BY Sheets
  <2>3. /\ DailyOps(rows).turnBreaches = Cardinality(late)
        /\ DailyOps(rows).stalled = Cardinality(stuck)
        /\ DailyOps(rows).vacant = Cardinality(vacant)
        /\ PhasePerformance(rows).SLA_Breaches = Cardinality(late)
    BY Sheets
  <2>4. sheet.TaskStalled = stuck /\ sheet.CleanTurn = clean /\ sheet.TaskFlow = flow
    BY Sheets
  <2>5. final.AvailableUnits = vacant /\ final.HasMoveIn = booked /\ final.NoMoveIn = rows \ booked
    BY Sheets
  <2>6. aging.All = grid /\ aging.NotReady = grid2
    BY Sheets
  <2>7. /\ weekly.vacant = Cardinality(there) /\ weekly.slaBreaches = sla /\ weekly.moveInRisk = mi
        /\ weekly.planBreaches = pl /\ weekly.stalled = stalls
    BY Weekly
  <2>8. FlagUnits(board).INSPECTION_BREACH = in
    BY Categories
  <2>9. /\ ChartSlaByPhase(rows) = late /\ WalkingPathBoard(rows) = vacant /\ WDAudit(rows) = vacant
        /\ ChartVacancyByPhase(rows) = vacant
    BY DEF ChartSlaByPhase, WalkingPathBoard, WDAudit, ChartVacancyByPhase
  <2>10. /\ Units(plan) = pl /\ mi \subseteq Units(risky) /\ Units(insp) = in
         /\ \A r \in late : r.is_unit_ready \/ r.item \in sla
         /\ Units(stuck) = stalls /\ Cardinality(stuck) = Cardinality(stalls)
         /\ Cardinality(vacant) = Cardinality(there)
         /\ \A b \in AllBuckets : Units(grid[b]) = weekly.aging[b]
    BY <2>1, SheetsAgree
  <2>11. clean \cap flow = {} /\ clean \cup flow \subseteq vacant
    BY RowsAgree
  <2>12. booked = called
    BY RowsAgree
  <2>13. \A b \in {10, 20} : ActiveAgingSheet(rows)[b] = grid2[b]
    BY RowsAgree
  <2>14. /\ Bars(ChartTurnTime(rows)) = dated /\ Bars(grid) = dated
         /\ Bars(ChartTaskCompletion(rows)) = rows /\ Bars(ChartDaysToMoveIn(rows)) = booked
    BY <2>1, AllBars
  <2>15. \A i \in board : <<i, "Move-In">> \in TodaysCriticalUnits(board) => i \in weekly.upcomingMoveIns
    <3> SUFFICES ASSUME NEW i \in board, <<i, "Move-In">> \in TodaysCriticalUnits(board)
        PROVE  i \in weekly.upcomingMoveIns
      OBVIOUS
    <3>1. i.turnover.moveIn = i.today
      BY DEF TodaysCriticalUnits
    <3>2. i.today \in Nat
      BY <2>1 DEF Reported
    <3>3. WithinWeek(i.turnover.moveIn, i.today)
      BY <3>1, <3>2 DEF WithinWeek, NoDate
    <3> QED BY <3>3, Weekly
  <2>16. \A r \in rows : PriorityAction(r) = "ESCALATE" => PriorityScore(r) >= 50
    BY RowsAgree
  <2> HIDE DEF rows, weekly, ops, sheet, final, aging, late, plan, insp, risky, stuck, vacant, clean,
               flow, booked, dated, grid, grid2, there, sla, mi, in, pl, stalls, called
  <2>17. /\ Units(ops.OpsPlanBreach) = weekly.planBreaches
         /\ weekly.moveInRisk \subseteq Units(ops.OpsMoveIn)
         /\ Units(ops.OpsInspBreach) = FlagUnits(board).INSPECTION_BREACH
         /\ \A r \in ops.OpsSLABreach : r.is_unit_ready \/ r.item \in weekly.slaBreaches
         /\ ChartSlaByPhase(rows) = ops.OpsSLABreach
    BY <2>2, <2>7, <2>8, <2>9, <2>10
  <2>18. /\ DailyOps(rows).turnBreaches = PhasePerformance(rows).SLA_Breaches
         /\ DailyOps(rows).stalled = Cardinality(weekly.stalled)
         /\ Units(sheet.TaskStalled) = weekly.stalled
         /\ DailyOps(rows).vacant = weekly.vacant
    BY <2>3, <2>4, <2>7, <2>10
  <2>19. /\ WalkingPathBoard(rows) = WDAudit(rows)
         /\ ChartVacancyByPhase(rows) = final.AvailableUnits
         /\ sheet.CleanTurn \cap sheet.TaskFlow = {}
         /\ sheet.CleanTurn \cup sheet.TaskFlow \subseteq WalkingPathBoard(rows)
         /\ final.HasMoveIn \cap final.NoMoveIn = {}
         /\ final.HasMoveIn = called
         /\ final.HasMoveIn = Bars(ChartDaysToMoveIn(rows))
    BY <2>4, <2>5, <2>9, <2>11, <2>12, <2>14
  <2>20. /\ \A b \in AllBuckets : Units(aging.All[b]) = weekly.aging[b]
         /\ \A b \in {10, 20} : ActiveAgingSheet(rows)[b] = aging.NotReady[b]
         /\ Bars(aging.All) = Bars(ChartTurnTime(rows))
         /\ Bars(ChartTaskCompletion(rows)) = rows
    BY <2>6, <2>10, <2>13, <2>14
  <2> QED BY <2>15, <2>16, <2>17, <2>18, <2>19, <2>20
          DEF ReportsAgree, rows, weekly, ops, sheet, final, aging, called
<1> QED BY <1>1, TypeCorrect, PTL
-----------------------------------------------------------------------------
(* The port and its reference: the calendar *)

\* The days of the week, counted from a Monday.
LEMMA Mod7 ==
  ASSUME NEW x \in Int
  PROVE  /\ x % 7 \in 0..6
         /\ (x + 1) % 7 = IF x % 7 = 6 THEN 0 ELSE (x % 7) + 1
         /\ (x + 7) % 7 = x % 7
  BY SMT

Working(d, monday) == (d - monday) % 7 \notin {5, 6}

\* A weekend is two days, so that one of any three days is a working day, two of
\* four are and four of six; of thirteen days three are not.
LEMMA Weeks ==
  ASSUME NEW d \in Int, NEW monday \in Int
  PROVE  /\ \E a \in d..(d + 2) : Working(a, monday)
         /\ \E a, b \in d..(d + 3) : a < b /\ Working(a, monday) /\ Working(b, monday)
         /\ \E a, b, c, e \in d..(d + 5) :
              /\ a < b /\ b < c /\ c < e
              /\ Working(a, monday) /\ Working(b, monday) /\ Working(c, monday) /\ Working(e, monday)
         /\ \E a, b, c \in d..(d + 12) :
              a < b /\ b < c /\ ~Working(a, monday) /\ ~Working(b, monday) /\ ~Working(c, monday)
<1> DEFINE w(k) == (d + k - monday) % 7
<1>1. \A k \in Nat : /\ w(k) \in 0..6 /\ w(k + 1) = (IF w(k) = 6 THEN 0 ELSE w(k) + 1)
                     /\ w(k + 7) = w(k)
  <2> SUFFICES ASSUME NEW k \in Nat
      PROVE  /\ w(k) \in 0..6 /\ w(k + 1) = (IF w(k) = 6 THEN 0 ELSE w(k) + 1)
             /\ w(k + 7) = w(k)
    OBVIOUS
  <2> DEFINE x == d + k - monday
  <2>1. x \in Int /\ d + (k + 1) - monday = x + 1 /\ d + (k + 7) - monday = x + 7
    OBVIOUS
  <2> QED BY <2>1, Mod7
<1>2. \A k \in Nat : Working(d + k, monday) <=> w(k) \notin {5, 6}
  BY DEF Working
<1> HIDE DEF w
<1>3. w(0) \in 0..6
  BY <1>1
<1>4. \A k \in 0..5 : w(k + 1) = IF w(k) = 6 THEN 0 ELSE w(k) + 1
  BY <1>1
<1>5. /\ w(1) = IF w(0) = 6 THEN 0 ELSE w(0) + 1
      /\ w(2) = IF w(1) = 6 THEN 0 ELSE w(1) + 1
      /\ w(3) = IF w(2) = 6 THEN 0 ELSE w(2) + 1
      /\ w(4) = IF w(3) = 6 THEN 0 ELSE w(3) + 1
      /\ w(5) = IF w(4) = 6 THEN 0 ELSE w(4) + 1
      /\ w(6) = IF w(5) = 6 THEN 0 ELSE w(5) + 1
  BY <1>4
<1>6. \A k \in 0..5 : w(k + 7) = w(k)
  BY <1>1
<1>7. w(7) = w(0) /\ w(8) = w(1) /\ w(9) = w(2) /\ w(10) = w(3) /\ w(11) = w(4) /\ w(12) = w(5)
  BY <1>6
<1> DEFINE on(k) == w(k) \notin {5, 6}
<1>8. /\ \E i \in 0..2 : on(i)
      /\ \E i, j \in 0..3 : i < j /\ on(i) /\ on(j)
      /\ \E i, j, k, l \in 0..5 : i < j /\ j < k /\ k < l /\ on(i) /\ on(j) /\ on(k) /\ on(l)
      /\ \E i, j, k \in 0..12 : i < j /\ j < k /\ ~on(i) /\ ~on(j) /\ ~on(k)
  <2> USE <1>5, <1>7
  <2>0. CASE w(0) = 0
    <3>1. on(0) /\ on(1) /\ on(2) /\ on(3) /\ ~on(5) /\ ~on(6) /\ ~on(12)
      BY <2>0
    <3> QED BY ONLY <3>1
  <2>1. CASE w(0) = 1
    <3>1. on(0) /\ on(1) /\ on(2) /\ on(3) /\ ~on(4) /\ ~on(5) /\ ~on(11)
      BY <2>1
    <3> QED BY ONLY <3>1
  <2>2. CASE w(0) = 2
    <3>1. on(0) /\ on(1) /\ on(2) /\ on(5) /\ ~on(3) /\ ~on(4) /\ ~on(10)
      BY <2>2
    <3> QED BY ONLY <3>1
  <2>3. CASE w(0) = 3
    <3>1. on(0) /\ on(1) /\ on(4) /\ on(5) /\ ~on(2) /\ ~on(3) /\ ~on(9)
      BY <2>3
    <3> QED BY ONLY <3>1
  <2>4. CASE w(0) = 4
    <3>1. on(0) /\ on(3) /\ on(4) /\ on(5) /\ ~on(1) /\ ~on(2) /\ ~on(8)
      BY <2>4
    <3> QED BY ONLY <3>1
  <2>5. CASE w(0) = 5
    <3>1. on(2) /\ on(3) /\ on(4) /\ on(5) /\ ~on(0) /\ ~on(1) /\ ~on(7)
      BY <2>5
    <3> QED BY ONLY <3>1
  <2>6. CASE w(0) = 6
    <3>1. on(1) /\ on(2) /\ on(3) /\ on(4) /\ ~on(0) /\ ~on(7) /\ ~on(6)
      BY <2>6
    <3> QED BY ONLY <3>1
  <2> QED BY <1>3, <2>0, <2>1, <2>2, <2>3, <2>4, <2>5, <2>6
<1>9. \A k \in Nat : on(k) <=> Working(d + k, monday)
  BY <1>2
<1> HIDE DEF on
<1>10. \E a \in d..(d + 2) : Working(a, monday)
  <2>1. PICK i \in 0..2 : on(i)
    BY <1>8
  <2>2. Working(d + i, monday) /\ d + i \in d..(d + 2)
    BY <1>9, <2>1
  <2> QED BY <2>2
<1>11. \E a, b \in d..(d + 3) : a < b /\ Working(a, monday) /\ Working(b, monday)
  <2>1. PICK i \in 0..3, j \in 0..3 : i < j /\ on(i) /\ on(j)
    BY <1>8
  <2>2. /\ Working(d + i, monday) /\ Working(d + j, monday)
        /\ d + i \in d..(d + 3) /\ d + j \in d..(d + 3) /\ d + i < d + j
    BY <1>9, <2>1
  <2> QED BY <2>2
<1>12. \E a, b, c, e \in d..(d + 5) :
         /\ a < b /\ b < c /\ c < e
         /\ Working(a, monday) /\ Working(b, monday) /\ Working(c, monday) /\ Working(e, monday)
  <2>1. PICK i \in 0..5, j \in 0..5, k \in 0..5, l \in 0..5 :
          i < j /\ j < k /\ k < l /\ on(i) /\ on(j) /\ on(k) /\ on(l)
    BY <1>8
  <2>2. /\ Working(d + i, monday) /\ Working(d + j, monday)
        /\ Working(d + k, monday) /\ Working(d + l, monday)
        /\ d + i \in d..(d + 5) /\ d + j \in d..(d + 5) /\ d + k \in d..(d + 5) /\ d + l \in d..(d + 5)
        /\ d + i < d + j /\ d + j < d + k /\ d + k < d + l
    BY <1>9, <2>1
  <2> QED BY <2>2
<1>13. \E a, b, c \in d..(d + 12) :
         a < b /\ b < c /\ ~Working(a, monday) /\ ~Working(b, monday) /\ ~Working(c, monday)
  <2>1. PICK i \in 0..12, j \in 0..12, k \in 0..12 : i < j /\ j < k /\ ~on(i) /\ ~on(j) /\ ~on(k)
    BY <1>8
  <2>2. /\ ~Working(d + i, monday) /\ ~Working(d + j, monday) /\ ~Working(d + k, monday)
        /\ d + i \in d..(d + 12) /\ d + j \in d..(d + 12) /\ d + k \in d..(d + 12)
        /\ d + i < d + j /\ d + j < d + k
    BY <1>9, <2>1
  <2> QED BY <2>2
<1> QED BY <1>10, <1>11, <1>12, <1>13

LEMMA TwoOf ==
  ASSUME NEW a, NEW b, a # b
  PROVE  IsFiniteSet({a, b}) /\ Cardinality({a, b}) = 2
<1>1. IsFiniteSet({a}) /\ Cardinality({a}) = 1
  BY FS_Singleton
<1>2. {a, b} = {a} \cup {b} /\ b \notin {a}
  OBVIOUS
<1> QED BY <1>1, <1>2, FS_AddElement

\* What business_days counts of so many calendar days.
LEMMA BusinessDaysAre ==
  ASSUME NEW from \in Int, NEW to \in Int, NEW monday \in Int
  PROVE  LET n == BusinessDays(from, to, monday)
         IN  /\ n \in Nat
             /\ to - from >= 4 => n > 1
             /\ to - from >= 6 => n >= 4
             /\ n > 10 => to - from >= 14
<1> DEFINE span == from..(to - 1)
           days == {d \in span : (d - monday) % 7 \notin {5, 6}}
           n == Cardinality(days)
<1>0. BusinessDays(from, to, monday) = n
  BY DEF BusinessDays
<1>1. days \subseteq span /\ \A d \in span : d \in days <=> Working(d, monday)
  BY DEF Working
<1>2. IsFiniteSet(span) /\ \A d : d \in span <=> d \in Int /\ from <= d /\ d <= to - 1
  BY FS_Interval
<1> HIDE DEF span, days
<1>3. IsFiniteSet(days) /\ n \in Nat
  BY <1>1, <1>2, FS_Subset, FS_CardinalityType
<1>4. ASSUME to - from >= 4 PROVE n > 1
  <2>1. PICK a \in from..(from + 3), b \in from..(from + 3) :
          a < b /\ Working(a, monday) /\ Working(b, monday)
    BY Weeks
  <2>2. {a, b} \subseteq days
    BY <1>1, <1>2, <1>4, <2>1
  <2>3. Cardinality({a, b}) = 2
    <3>1. a # b
      BY <2>1
    <3> QED BY <3>1, TwoOf
  <2>4. 2 <= n
    BY <1>3, <2>2, <2>3, FS_Subset
  <2> QED BY <1>3, <2>4
<1>5. ASSUME to - from >= 6 PROVE n >= 4
  <2>1. PICK a \in from..(from + 5), b \in from..(from + 5), c \in from..(from + 5), e \in from..(from + 5) :
          /\ a < b /\ b < c /\ c < e
          /\ Working(a, monday) /\ Working(b, monday) /\ Working(c, monday) /\ Working(e, monday)
    BY Weeks
  <2>2. {a, b, c, e} \subseteq days
    BY <1>1, <1>2, <1>5, <2>1
  <2>3. Cardinality({a, b, c, e}) = 4
    <3>1. a # b
      BY <2>1
    <3>2. IsFiniteSet({a, b}) /\ Cardinality({a, b}) = 2
      BY <3>1, TwoOf
    <3> DEFINE two == {a, b}  three == {a, b, c}  four == {a, b, c, e}
    <3>3. three = two \cup {c} /\ c \notin two /\ four = three \cup {e} /\ e \notin three
      BY <2>1
    <3>4. IsFiniteSet(two) /\ Cardinality(two) = 2
      BY <3>2
    <3> HIDE DEF two, three, four
    <3>5. IsFiniteSet(three) /\ Cardinality(three) = 2 + 1
      BY <3>3, <3>4, FS_AddElement
    <3>6. Cardinality(four) = 3 + 1
      BY <3>3, <3>5, FS_AddElement
    <3> QED BY <3>6 DEF four
  <2> QED BY <1>3, <2>2, <2>3, FS_Subset
<1>6. ASSUME to - from <= 13 PROVE n <= 10
  <2>1. PICK a \in from..(from + 12), b \in from..(from + 12), c \in from..(from + 12) :
          a < b /\ b < c /\ ~Working(a, monday) /\ ~Working(b, monday) /\ ~Working(c, monday)
    BY Weeks
  <2> DEFINE long == from..(from + 12)
  <2>2. IsFiniteSet(long) /\ Cardinality(long) = 13
    BY FS_Interval
  <2>3. days \subseteq ((long \ {a}) \ {b}) \ {c}
    <3> SUFFICES ASSUME NEW d \in days PROVE d \in ((long \ {a}) \ {b}) \ {c}
      OBVIOUS
    <3>1. d \in long
      BY <1>1, <1>2, <1>6
    <3>2. d # a /\ d # b /\ d # c
      BY <1>1, <2>1
    <3> QED BY <3>1, <3>2
  <2>4. a \in long /\ b \in long \ {a} /\ c \in (long \ {a}) \ {b}
    BY <2>1
  <2> HIDE DEF long
  <2>5. IsFiniteSet(long \ {a}) /\ Cardinality(long \ {a}) = 12
    BY <2>2, <2>4, FS_RemoveElement
  <2>6. IsFiniteSet((long \ {a}) \ {b}) /\ Cardinality((long \ {a}) \ {b}) = 11
    BY <2>4, <2>5, FS_RemoveElement
  <2>7. IsFiniteSet(((long \ {a}) \ {b}) \ {c}) /\ Cardinality(((long \ {a}) \ {b}) \ {c}) = 10
    BY <2>4, <2>6, FS_RemoveElement
  <2> QED BY <2>3, <2>7, FS_Subset
<1> QED BY <1>0, <1>3, <1>4, <1>5, <1>6
-----------------------------------------------------------------------------
(* The row of the spreadsheet *)

LEMMA RefIs ==
  ASSUME NEW i, NEW monday, NEW ref, ref = ReferenceRow(i, monday)
  PROVE  /\ ref.status = StateToStatus(i.phase) /\ ref.nvm = NvmState(i.turnover, i.today)
         /\ ref.moveOut = i.turnover.moveOut /\ ref.ready = i.turnover.ready
         /\ ref.moveIn = i.turnover.moveIn /\ ref.dv = VacancyDays(i.turnover, i.today)
         /\ ref.today = i.today /\ ref.monday = monday /\ ref.note = None
         /\ \A n \in 1..5 : ref.tasks[n] = TaskColumn(i.tasks, TASK_SEQUENCE[n])
<1> DEFINE status == StateToStatus(i.phase)  nvm == NvmState(i.turnover, i.today)
           dv == VacancyDays(i.turnover, i.today)
           columns == [n \in 1..5 |-> TaskColumn(i.tasks, TASK_SEQUENCE[n])]
           qc == IF \E k \in i.tasks : k.type = "QUALITY_CONTROL" /\ k.status = "COMPLETE"
                 THEN "Done" ELSE "Not Started"
<1>1. ref = [status |-> status, nvm |-> nvm, moveOut |-> i.turnover.moveOut,
             ready |-> i.turnover.ready, moveIn |-> i.turnover.moveIn, dv |-> dv,
             today |-> i.today, monday |-> monday, tasks |-> columns, qc |-> qc,
             assign |-> None, note |-> None]
  BY DEF ReferenceRow
<1> HIDE DEF status, nvm, dv, columns, qc
<1>2. /\ ref.status = status /\ ref.nvm = nvm /\ ref.moveOut = i.turnover.moveOut
      /\ ref.ready = i.turnover.ready /\ ref.moveIn = i.turnover.moveIn /\ ref.dv = dv
      /\ ref.today = i.today /\ ref.monday = monday /\ ref.tasks = columns /\ ref.note = None
  BY <1>1
<1>3. \A n \in 1..5 : columns[n] = TaskColumn(i.tasks, TASK_SEQUENCE[n])
  BY DEF columns
<1> QED BY <1>2, <1>3 DEF status, nvm, dv

\* The Status column names the phase.
LEMMA StatusNames ==
  ASSUME NEW p \in Phases
  PROVE  /\ StateToStatus(p) = "Vacant Ready" <=> p = "VACANT_READY"
         /\ StateToStatus(p) = "Vacant Not Ready" <=> p = "VACANT_NOT_READY"
         /\ StateToStatus(p) = "On Notice" <=> p = "ON_NOTICE"
         /\ StateToStatus(p) = "Pre-Notice" <=> p = "PRE_NOTICE"
BY DEF StateToStatus, Phases

\* N/V/M says Vacant of a unit that has been left and has no move-in, or one before 1990.
LEMMA VacantMeans ==
  ASSUME NEW t, OpenRow(t), NEW day \in Nat
  PROVE  /\ NvmState(t, day) = "Vacant" <=> ScheduledMoveIn(t) = NoDate /\ t.moveOut <= day
         /\ NvmState(t, day) = "Vacant" /\ ScheduledMoveIn(t) = t.moveIn =>
              LifecyclePhase(t, day) \in VacantStates
<1>0. ScheduledMoveIn(t) = NoDate \/ ScheduledMoveIn(t) = t.moveIn
  BY DEF ScheduledMoveIn
<1>1. NvmState(t, day) = "Vacant" <=> ScheduledMoveIn(t) = NoDate /\ t.moveOut <= day
  BY <1>0 DEF NvmState, OpenRow
<1>2. ASSUME t.moveIn = NoDate, t.moveOut <= day PROVE LifecyclePhase(t, day) \in VacantStates
  BY <1>2, OpenPhase DEF OpenRow, VacantStates
<1> QED BY <1>1, <1>2

Execution == {"SCHEDULED", "IN_PROGRESS", "COMPLETE", "SKIPPED", "BLOCKED"}

\* The tasks of a turnover: one of a type, in a status of the schema.
Tasks(S) ==
  /\ IsFiniteSet(S)
  /\ \A k, l \in S : k.type = l.type => k = l
  /\ \A k \in S : k.status \in Execution /\ (k.scheduled \in Nat \/ k.scheduled = NoDate)

\* What a column shows of the task it is about.
LEMMA ColumnIs ==
  ASSUME NEW S, Tasks(S), NEW type
  PROVE  /\ (\A k \in S : k.type # type) =>
              TaskColumn(S, type) = [status |-> "Not Started", date |-> NoDate]
         /\ \A k \in S : k.type = type =>
              /\ TaskColumn(S, type).date = k.scheduled
              /\ TaskColumn(S, type).status \in
                   {"Done", "Scheduled", "In Progress", "SKIPPED", "BLOCKED"}
              /\ TaskColumn(S, type).status = "Done" <=> k.status = "COMPLETE"
              /\ TaskColumn(S, type).status = "Scheduled" <=> k.status = "SCHEDULED"
              /\ TaskColumn(S, type).status = "In Progress" <=> k.status = "IN_PROGRESS"
<1> DEFINE mine == {k \in S : k.type = type}
           word(s) == CASE s = "COMPLETE" -> "Done" [] s = "SCHEDULED" -> "Scheduled"
                        [] s = "IN_PROGRESS" -> "In Progress" [] s = "NOT_STARTED" -> "Not Started"
                        [] OTHER -> s
           Label == [s \in {"NOT_STARTED", "SCHEDULED", "IN_PROGRESS", "COMPLETE", "SKIPPED", "BLOCKED"}
                       |-> word(s)]
           j == CHOOSE k \in mine : TRUE
<1>1. TaskColumn(S, type) = IF mine = {} THEN [status |-> "Not Started", date |-> NoDate]
                            ELSE [status |-> Label[j.status], date |-> j.scheduled]
  BY DEF TaskColumn
<1>2. ASSUME NEW k \in S, k.type = type
      PROVE  TaskColumn(S, type) = [status |-> word(k.status), date |-> k.scheduled]
  <2>1. mine = {k}
    BY <1>2 DEF Tasks
  <2>2. j = k
    BY <2>1
  <2>3. k.status \in Execution
    BY DEF Tasks
  <2>4. Label[k.status] = word(k.status)
    BY <2>3 DEF Execution
  <2> HIDE DEF mine, Label, word, j
  <2> QED BY <1>1, <2>1, <2>2, <2>4
<1>3. ASSUME \A k \in S : k.type # type
      PROVE  TaskColumn(S, type) = [status |-> "Not Started", date |-> NoDate]
  <2>1. mine = {}
    BY <1>3
  <2> HIDE DEF mine, Label, j
  <2> QED BY <1>1, <2>1
<1>4. ASSUME NEW s \in Execution
      PROVE  /\ word(s) \in {"Done", "Scheduled", "In Progress", "SKIPPED", "BLOCKED"}
             /\ word(s) = "Done" <=> s = "COMPLETE"
             /\ word(s) = "Scheduled" <=> s = "SCHEDULED"
             /\ word(s) = "In Progress" <=> s = "IN_PROGRESS"
  BY <1>4 DEF Execution
<1> HIDE DEF word
<1>5. ASSUME NEW k \in S, k.type = type
      PROVE  TaskColumn(S, type).status = word(k.status) /\ TaskColumn(S, type).date = k.scheduled
  BY <1>2, <1>5
<1> QED BY <1>3, <1>4, <1>5 DEF Tasks
-----------------------------------------------------------------------------
(* The upcoming sheet *)

LEMMA NextDay ==
  ASSUME NEW day \in Int, NEW monday \in Int
  PROVE  NextBusinessDay(day, monday) \in Int /\ NextBusinessDay(day, monday) > day
<1> DEFINE S == {d \in (day + 1)..(day + 3) : (d - monday) % 7 \notin {5, 6}}
<1>1. \E a \in (day + 1)..(day + 3) : a \in S
  <2>1. (day + 1) + 2 = day + 3 /\ day + 1 \in Int
    OBVIOUS
  <2>2. \E a \in (day + 1)..((day + 1) + 2) : Working(a, monday)
    BY <2>1, Weeks
  <2> QED BY <2>1, <2>2 DEF Working
<1>2. S \subseteq {day + 1, day + 2, day + 3}
  <2>1. S \subseteq (day + 1)..(day + 3)
    OBVIOUS
  <2> HIDE DEF S
  <2> QED BY <2>1
<1>3. NextBusinessDay(day, monday) = Min(S)
  BY DEF NextBusinessDay
<1> HIDE DEF S
<1>4. \E x \in S : \A y \in S : x <= y
  <2>1. CASE day + 1 \in S
    BY <1>2, <2>1
  <2>2. CASE day + 1 \notin S /\ day + 2 \in S
    BY <1>2, <2>2
  <2>3. CASE day + 1 \notin S /\ day + 2 \notin S
    BY <1>1, <1>2, <2>3
  <2> QED BY <2>1, <2>2, <2>3
<1>5. Min(S) \in S
  BY <1>4 DEF Min
<1>6. Min(S) \in {day + 1, day + 2, day + 3}
  BY <1>2, <1>5
<1> QED BY <1>3, <1>6

LEMMA MaxOfTwo ==
  ASSUME NEW a \in Int, NEW b \in Int
  PROVE  Max({a, b}) \in {a, b} /\ Max({a, b}) >= b
<1>1. \E x \in {a, b} : \A y \in {a, b} : x >= y
  OBVIOUS
<1> QED BY <1>1 DEF Max

\* What the loop keeps: the days that it has given are different, and before its cursor.
Placed(acc) ==
  /\ acc.cursor \in Int /\ acc.dates \in [1..5 -> Int]
  /\ \A m \in 1..5 : acc.dates[m] # NoDate => acc.dates[m] < acc.cursor
  /\ \A m, n \in 1..5 : m # n /\ acc.dates[m] # NoDate => acc.dates[m] # acc.dates[n]

LEMMA PlaceKeeps ==
  ASSUME NEW r, r.monday \in Int, r.today \in Int, NEW i \in 1..5, r.tasks[i].date \in Int,
         NEW acc, Placed(acc)
  PROVE  Placed(PlaceTask(r, acc, i))
<1> DEFINE date == r.tasks[i].date
           day == IF date > r.today THEN Max({date, acc.cursor}) ELSE acc.cursor
           next == NextBusinessDay(day, r.monday)
           dates == [acc.dates EXCEPT ![i] = day]
<1>1. PlaceTask(r, acc, i) = IF r.tasks[i].status # "Scheduled" \/ date = NoDate THEN acc
                             ELSE [cursor |-> next, dates |-> dates]
  BY DEF PlaceTask
<1>2. day \in Int /\ day >= acc.cursor
  BY MaxOfTwo DEF Placed
<1> HIDE DEF day
<1>3. next \in Int /\ next > day
  BY <1>2, NextDay
<1> HIDE DEF next
<1>4. /\ dates \in [1..5 -> Int] /\ dates[i] = day
      /\ \A m \in (1..5) \ {i} : dates[m] = acc.dates[m]
  BY <1>2 DEF Placed
<1> HIDE DEF dates
<1>5. \A m \in 1..5 : dates[m] # NoDate => dates[m] < next
  BY <1>2, <1>3, <1>4 DEF Placed
<1>6. \A m, n \in 1..5 : m # n /\ dates[m] # NoDate => dates[m] # dates[n]
  <2> SUFFICES ASSUME NEW m \in 1..5, NEW n \in 1..5, m # n, dates[m] # NoDate, dates[m] = dates[n]
      PROVE  FALSE
    OBVIOUS
  <2>1. dates[n] # NoDate
    OBVIOUS
  <2>2. CASE m = i
    <3>1. dates[n] = acc.dates[n] /\ acc.dates[n] < acc.cursor
      BY <1>4, <2>1, <2>2 DEF Placed
    <3> QED BY <1>2, <1>4, <2>2, <3>1 DEF Placed
  <2>3. CASE n = i
    <3>1. dates[m] = acc.dates[m] /\ acc.dates[m] < acc.cursor
      BY <1>4, <2>3 DEF Placed
    <3> QED BY <1>2, <1>4, <2>3, <3>1 DEF Placed
  <2>4. CASE m # i /\ n # i
    BY <1>4, <2>4 DEF Placed
  <2> QED BY <2>2, <2>3, <2>4
<1>7. Placed([cursor |-> next, dates |-> dates])
  BY <1>3, <1>4, <1>5, <1>6 DEF Placed
<1> HIDE DEF date
<1>8. CASE r.tasks[i].status # "Scheduled" \/ date = NoDate
  BY <1>1, <1>8
<1>9. CASE ~(r.tasks[i].status # "Scheduled" \/ date = NoDate)
  <2>1. PlaceTask(r, acc, i) = [cursor |-> next, dates |-> dates]
    BY <1>1, <1>9
  <2> QED BY <1>7, <2>1
<1> QED BY <1>8, <1>9

\* No two tasks of a unit are given one day (_assign_upcoming_dates).
LEMMA DaysApart ==
  ASSUME NEW r, r.monday \in Int, r.today \in Int, \A n \in 1..5 : r.tasks[n].date \in Int
  PROVE  LET dates == AssignUpcomingDates(r)
         IN  \A m, n \in 1..5 : m # n /\ dates[m] # NoDate => dates[m] # dates[n]
<1> DEFINE a0 == [cursor |-> NextBusinessDay(r.today, r.monday), dates |-> [n \in 1..5 |-> NoDate]]
           a1 == PlaceTask(r, a0, 1)  a2 == PlaceTask(r, a1, 2)  a3 == PlaceTask(r, a2, 3)
           a4 == PlaceTask(r, a3, 4)  a5 == PlaceTask(r, a4, 5)
<1>1. Placed(a0)
  <2> DEFINE none == [n \in 1..5 |-> NoDate]
  <2>1. none \in [1..5 -> Int] /\ \A n \in 1..5 : none[n] = NoDate
    BY DEF NoDate
  <2> HIDE DEF none
  <2>2. NextBusinessDay(r.today, r.monday) \in Int
    BY NextDay
  <2> QED BY <2>1, <2>2 DEF Placed, none
<1>2. AssignUpcomingDates(r) = a5.dates
  BY DEF AssignUpcomingDates
<1> HIDE DEF a0, a1, a2, a3, a4, a5
<1>3. Placed(a1)
  BY <1>1, PlaceKeeps DEF a1
<1>4. Placed(a2)
  BY <1>3, PlaceKeeps DEF a2
<1>5. Placed(a3)
  BY <1>4, PlaceKeeps DEF a3
<1>6. Placed(a4)
  BY <1>5, PlaceKeeps DEF a4
<1>7. Placed(a5)
  BY <1>6, PlaceKeeps DEF a5
<1> QED BY <1>2, <1>7 DEF Placed
-----------------------------------------------------------------------------
(* One unit in both *)

\* The board's item, the exports' row and the spreadsheet's row of a turnover.
Told(t, S, day, monday, i, r, ref) ==
  /\ OpenRow(t) /\ Tasks(S) /\ day \in Nat /\ monday \in Int
  /\ i = Item(t, S, day) /\ r = ExportRow(i) /\ ref = ReferenceRow(i, monday)

LEMMA ItemIs ==
  ASSUME NEW t, NEW S, NEW day, NEW i, i = Item(t, S, day)
  PROVE  i.turnover = t /\ i.tasks = S /\ i.today = day /\ i.phase = LifecyclePhase(t, day)
BY Evaluated, Gated

LEMMA ToldFlags ==
  ASSUME NEW t, NEW S, NEW day, NEW monday, NEW i, NEW r, NEW ref, Told(t, S, day, monday, i, r, ref)
  PROVE  /\ r.sla_breach <=> i.slaLevel = "BREACH"
         /\ r.plan_breach <=> i.agreements.plan = "RED"
         /\ r.inspection_breach <=> i.agreements.inspection = "RED"
         /\ r.is_task_stalled <=> i \in WorkStalled({i})
         /\ r.is_unit_ready <=> i.readiness = "READY"
<1>1. r = ExportRow(i)
  BY DEF Told
<1> QED BY <1>1, RowIs

LEMMA ToldIs ==
  ASSUME NEW t, NEW S, NEW day, NEW monday, NEW i, NEW r, NEW ref, Told(t, S, day, monday, i, r, ref)
  PROVE  /\ OpenRow(t) /\ Tasks(S) /\ day \in Nat /\ day \in Int /\ monday \in Int /\ i = Item(t, S, day)
         /\ t.moveOut \in Int /\ t.moveIn \in Int /\ t.ready \in Int /\ IsOpen(t)
         /\ i.turnover = t /\ i.tasks = S /\ i.today = day
         /\ i.phase = LifecyclePhase(t, day) /\ i.phase \in Phases
         /\ r.item = i /\ r.state = i.phase /\ r.dv = VacancyDays(t, day)
         /\ r.completion = CompletionPercent(i)
         /\ ref.status = StateToStatus(i.phase) /\ ref.nvm = NvmState(t, day)
         /\ ref.moveOut = t.moveOut /\ ref.ready = t.ready /\ ref.moveIn = t.moveIn
         /\ ref.dv = VacancyDays(t, day) /\ ref.today = day /\ ref.monday = monday
         /\ \A n \in 1..5 : ref.tasks[n] = TaskColumn(S, TASK_SEQUENCE[n])
<1>1. /\ OpenRow(t) /\ Tasks(S) /\ day \in Nat /\ day \in Int /\ monday \in Int
      /\ i = Item(t, S, day) /\ r = ExportRow(i) /\ ref = ReferenceRow(i, monday)
  BY DEF Told
<1>2. t.moveOut \in Int /\ t.moveIn \in Int /\ t.ready \in Int /\ IsOpen(t)
  BY <1>1 DEF OpenRow
<1>3. /\ i.turnover = t /\ i.tasks = S /\ i.today = day /\ i.phase = LifecyclePhase(t, day)
  BY <1>1, ItemIs
<1>4. i.phase \in Phases
  BY <1>3, PhaseType
<1>5. /\ r.item = i /\ r.state = i.phase /\ r.dv = VacancyDays(i.turnover, i.today)
      /\ r.completion = CompletionPercent(i)
  BY <1>1, RowIs
<1>6. /\ ref.status = StateToStatus(i.phase) /\ ref.nvm = NvmState(i.turnover, i.today)
      /\ ref.moveOut = i.turnover.moveOut /\ ref.ready = i.turnover.ready
      /\ ref.moveIn = i.turnover.moveIn /\ ref.dv = VacancyDays(i.turnover, i.today)
      /\ ref.today = i.today /\ ref.monday = monday
      /\ \A n \in 1..5 : ref.tasks[n] = TaskColumn(i.tasks, TASK_SEQUENCE[n])
  BY <1>1, RefIs
<1> QED BY <1>1, <1>2, <1>3, <1>4, <1>5, <1>6

\* Only a unit in VACANT_READY is ready there, which is READY here.
LEMMA ReadyThere ==
  ASSUME NEW t, NEW S, NEW day, NEW monday, NEW i, NEW r, NEW ref, Told(t, S, day, monday, i, r, ref),
         Is_Unit_Ready(ref)
  PROVE  EvaluationGate(t, day) # "evaluate" /\ r.is_unit_ready
<1>1. /\ ref.status = StateToStatus(i.phase) /\ i.phase = LifecyclePhase(t, day)
      /\ i.phase \in Phases /\ i = Item(t, S, day)
  BY ToldIs
<1>2. ref.status = "Vacant Ready"
  BY DEF Is_Unit_Ready
<1>3. LifecyclePhase(t, day) = "VACANT_READY"
  BY <1>1, <1>2, StatusNames
<1>4. EvaluationGate(t, day) # "evaluate"
  BY <1>3 DEF EvaluationGate
<1>5. i.readiness = "READY"
  BY <1>1, <1>4, Gated
<1> QED BY <1>4, <1>5, ToldFlags

\* A unit that is vacant there has been left, for as many working days.
LEMMA VacantThere ==
  ASSUME NEW t, NEW S, NEW day, NEW monday, NEW i, NEW r, NEW ref, Told(t, S, day, monday, i, r, ref)
  PROVE  /\ Is_Vacant(ref) <=> ScheduledMoveIn(t) = NoDate /\ t.moveOut <= day
         /\ Is_Vacant(ref) /\ ScheduledMoveIn(t) = t.moveIn => IsVacantRow(r)
         /\ AgingBusinessDays(ref) = BusinessDays(t.moveOut, day, monday)
<1>1. OpenRow(t) /\ day \in Nat /\ r.state = LifecyclePhase(t, day)
  BY ToldIs
<1>2. /\ ref.nvm = NvmState(t, day) /\ ref.moveOut = t.moveOut
      /\ ref.today = day /\ ref.monday = monday
  BY ToldIs
<1> QED BY <1>1, <1>2, VacantMeans DEF Is_Vacant, AgingBusinessDays, IsVacantRow

\* A turn that is late there, by business days, is late here.
LEMMA LateHere ==
  ASSUME NEW t, NEW S, NEW day, NEW monday, NEW i, NEW r, NEW ref, Told(t, S, day, monday, i, r, ref),
         SLA_Breach(ref), EvaluationGate(t, day) = "evaluate"
  PROVE  r.sla_breach
<1>0. /\ t.moveOut \in Int /\ day \in Int /\ monday \in Int /\ IsOpen(t)
      /\ i = Item(t, S, day)
  BY ToldIs
<1>1. t.moveOut <= day /\ BusinessDays(t.moveOut, day, monday) > 10
  BY VacantThere DEF SLA_Breach, TURN_SLA_DAYS
<1>2. day - t.moveOut >= 14
  BY <1>0, <1>1, BusinessDaysAre
<1>3. SlaRisk(t, day, Threshold) = "BREACH"
  BY <1>0, <1>2 DEF SlaRisk, Threshold, DefaultSlaThreshold
<1>4. i.slaLevel = "BREACH"
  <2>1. i.slaLevel = SlaRisk(t, day, Threshold)
    BY <1>0, Evaluated
  <2> QED BY <1>3, <2>1
<1> QED BY <1>4, ToldFlags

\* An inspection that is late here is late there, if no move-in is planned.
LEMMA InspectionThere ==
  ASSUME NEW t, NEW S, NEW day, NEW monday, NEW i, NEW r, NEW ref, Told(t, S, day, monday, i, r, ref),
         r.inspection_breach, ScheduledMoveIn(t) = NoDate
  PROVE  Inspection_SLA_Breach(ref)
<1>0. /\ t.moveOut \in Int /\ day \in Int /\ monday \in Int /\ i = Item(t, S, day) /\ Tasks(S)
      /\ ref.tasks[1] = TaskColumn(S, TASK_SEQUENCE[1])
  BY ToldIs
<1>1. i.agreements.inspection = "RED"
  BY ToldFlags
<1>2. EvaluationGate(t, day) = "evaluate"
  BY <1>0, <1>1, Gated, AllGreen DEF AgreementNames
<1>3. InspectionFlag(t, S, day) = "RED"
  BY <1>0, <1>1, <1>2, Evaluated, Reds
<1>4. /\ \A k \in S : k.type \in InspectionTaskTypes => k.status # "COMPLETE"
      /\ day - t.moveOut > 48
  BY <1>3, RedInspection DEF DaysSinceMoveOut, InspectionRed
<1>5. Is_Vacant(ref)
  BY <1>0, <1>4, VacantThere
<1>6. AgingBusinessDays(ref) > 1
  <2>1. AgingBusinessDays(ref) = BusinessDays(t.moveOut, day, monday)
    BY VacantThere
  <2>2. t.moveOut \in Int /\ day \in Int /\ monday \in Int /\ day - t.moveOut >= 4
    BY <1>0, <1>4
  <2> QED BY <2>1, <2>2, BusinessDaysAre
<1>7. 1 \notin Done(ref)
  <2>1. ref.tasks[1] = TaskColumn(S, "INSPECT")
    BY <1>0 DEF TASK_SEQUENCE
  <2>2. TaskColumn(S, "INSPECT").status # "Done"
    <3>1. CASE \A k \in S : k.type # "INSPECT"
      <4> DEFINE column == TaskColumn(S, "INSPECT")
      <4>1. column = [status |-> "Not Started", date |-> NoDate]
        BY <1>0, <3>1, ColumnIs
      <4> HIDE DEF column
      <4>2. column.status # "Done"
        BY <4>1
      <4> QED BY <4>2 DEF column
    <3>2. CASE \E k \in S : k.type = "INSPECT"
      <4>1. PICK k \in S : k.type = "INSPECT"
        BY <3>2
      <4>2. k.status # "COMPLETE"
        BY <1>4, <4>1 DEF InspectionTaskTypes
      <4> QED BY <1>0, <4>1, <4>2, ColumnIs
    <3> QED BY <3>1, <3>2
  <2> QED BY <2>1, <2>2 DEF Done
<1> QED BY <1>5, <1>6, <1>7 DEF Inspection_SLA_Breach, INSPECTION_SLA_DAYS

\* So is a stalled unit, unless its first two tasks are done.
LEMMA StalledThere ==
  ASSUME NEW t, NEW S, NEW day, NEW monday, NEW i, NEW r, NEW ref, Told(t, S, day, monday, i, r, ref),
         r.is_task_stalled, ScheduledMoveIn(t) = NoDate, ~({1, 2} \subseteq Done(ref))
  PROVE  Is_Task_Stalled(ref)
<1>0. t.moveOut \in Int /\ day \in Int /\ monday \in Int
  BY ToldIs
<1>1. day - t.moveOut > 5
  <2>1. i \in WorkStalled({i})
    BY ToldFlags
  <2>2. DaysSinceMoveOut(i.turnover, i.today) > 5
    BY <2>1 DEF WorkStalled
  <2>3. i.turnover = t /\ i.today = day
    BY ToldIs
  <2> QED BY <2>2, <2>3 DEF DaysSinceMoveOut
<1>2. Is_Vacant(ref)
  BY <1>0, <1>1, VacantThere
<1>3. AgingBusinessDays(ref) \in Nat /\ AgingBusinessDays(ref) >= 4
  <2>1. AgingBusinessDays(ref) = BusinessDays(t.moveOut, day, monday)
    BY VacantThere
  <2>2. t.moveOut \in Int /\ day \in Int /\ monday \in Int /\ day - t.moveOut >= 6
    BY <1>0, <1>1
  <2> QED BY <2>1, <2>2, BusinessDaysAre
<1>4. PICK n \in {1, 2} : n \notin Done(ref)
  OBVIOUS
<1>5. DueOffset[n] + 1 <= 3
  BY DEF DueOffset
<1>6. DueOffset[n] \in Int
  BY DEF DueOffset
<1> QED BY <1>2, <1>3, <1>4, <1>5, <1>6 DEF Is_Task_Stalled

\* A readiness or a ready date that is behind here is behind there.
LEMMA BehindThere ==
  ASSUME NEW t, NEW S, NEW day, NEW monday, NEW i, NEW r, NEW ref, Told(t, S, day, monday, i, r, ref)
  PROVE  /\ r.item.turnover.moveIn # NoDate /\ ~r.is_unit_ready =>
              Is_MoveIn_Present(ref) /\ ~Is_Unit_Ready_For_Moving(ref)
         /\ r.plan_breach => Plan_Breach(ref)
<1>1. r.item = i /\ i.turnover = t /\ i = Item(t, S, day)
  BY ToldIs
<1>2. /\ ref.moveIn = t.moveIn /\ ref.ready = t.ready /\ ref.today = day
      /\ day \in Int /\ t.ready \in Int
  BY ToldIs
<1>3. ~r.is_unit_ready => ~Is_Unit_Ready(ref)
  BY ReadyThere
<1>4. ASSUME r.plan_breach PROVE Plan_Breach(ref)
  <2>1. i.agreements.plan = "RED"
    BY <1>4, ToldFlags
  <2>2. EvaluationGate(t, day) = "evaluate"
    BY <1>1, <2>1, Gated, AllGreen DEF AgreementNames
  <2>3. t.ready # NoDate /\ day > t.ready
    BY <1>1, <2>1, <2>2, Evaluated, Reds
  <2>4. ~Is_Unit_Ready(ref)
    BY <2>2, ReadyThere
  <2>5. day >= t.ready
    BY <1>2, <2>3
  <2> QED BY <1>2, <2>3, <2>4, <2>5 DEF Plan_Breach, Is_Ready_Declared
<1> QED BY <1>1, <1>2, <1>3, <1>4 DEF Is_MoveIn_Present, Is_Unit_Ready_For_Moving

\* The schedule, the walking path and the W/D audit.
LEMMA SameLists ==
  ASSUME NEW t, NEW S, NEW day, NEW monday, NEW i, NEW r, NEW ref, Told(t, S, day, monday, i, r, ref)
  PROVE  /\ \A n \in 1..5 :
              (\E k \in S : k.type = TASK_SEQUENCE[n] /\ k.scheduled # NoDate
                             /\ k.status \in {"IN_PROGRESS", "SCHEDULED"})
              <=> ref.tasks[n].date # NoDate /\ ref.tasks[n].status \in {"In Progress", "Scheduled"}
         /\ IsVacantRow(r) <=> VacantStatus(ref)
         /\ \A n \in 1..5 : ref.tasks[n].date \in Int
<1>1. /\ Tasks(S) /\ r.state = i.phase /\ i.phase \in Phases /\ ref.status = StateToStatus(i.phase)
      /\ \A n \in 1..5 : ref.tasks[n] = TaskColumn(S, TASK_SEQUENCE[n])
  BY ToldIs
<1>2. ASSUME NEW n \in 1..5
      PROVE  /\ (\E k \in S : k.type = TASK_SEQUENCE[n] /\ k.scheduled # NoDate
                               /\ k.status \in {"IN_PROGRESS", "SCHEDULED"})
                <=> ref.tasks[n].date # NoDate /\ ref.tasks[n].status \in {"In Progress", "Scheduled"}
             /\ ref.tasks[n].date \in Int
  <2> DEFINE type == TASK_SEQUENCE[n]
             column == TaskColumn(S, type)
  <2>1. ref.tasks[n] = column
    BY <1>1
  <2> HIDE DEF type
  <2>2. CASE \A k \in S : k.type # type
    <3>1. column = [status |-> "Not Started", date |-> NoDate]
      BY <1>1, <2>2, ColumnIs
    <3>2. column.date = NoDate
      <4> HIDE DEF column
      <4> QED BY <3>1
    <3> HIDE DEF column
    <3> QED BY <2>1, <2>2, <3>2 DEF type, NoDate
  <2>3. CASE \E k \in S : k.type = type
    <3>1. PICK k \in S : k.type = type
      BY <2>3
    <3>2. /\ column.date = k.scheduled
          /\ column.status = "Scheduled" <=> k.status = "SCHEDULED"
          /\ column.status = "In Progress" <=> k.status = "IN_PROGRESS"
      <4>1. \A j \in S : j.type = type =>
              /\ TaskColumn(S, type).date = j.scheduled
              /\ TaskColumn(S, type).status = "Scheduled" <=> j.status = "SCHEDULED"
              /\ TaskColumn(S, type).status = "In Progress" <=> j.status = "IN_PROGRESS"
        BY <1>1, ColumnIs
      <4> QED BY <3>1, <4>1
    <3>3. \A l \in S : l.type = type => l = k
      BY <1>1, <3>1 DEF Tasks
    <3>4. k.scheduled \in Int
      BY <1>1 DEF Tasks, NoDate
    <3> HIDE DEF column
    <3> QED BY <2>1, <3>1, <3>2, <3>3, <3>4 DEF type
  <2> QED BY <2>2, <2>3
<1>3. IsVacantRow(r) <=> VacantStatus(ref)
  BY <1>1, StatusNames DEF IsVacantRow, VacantStatus, VacantStates
<1> QED BY <1>2, <1>3

\* A share that is neither nothing nor the whole.
LEMMA PartDone ==
  ASSUME NEW m \in Nat, NEW n \in Nat \ {0}, m <= n, (m * 100) \div n > 0, (m * 100) \div n < 100
  PROVE  0 < m /\ m < n
<1> DEFINE q == (m * 100) \div n
<1>1. q \in Int /\ q * n <= m * 100 /\ m * 100 < (q + 1) * n
  OBVIOUS
<1>2. q > 0 /\ q + 1 <= 100
  BY <1>1
<1> HIDE DEF q
<1>3. m # 0
  <2> SUFFICES ASSUME m = 0 PROVE FALSE
    OBVIOUS
  <2>1. q * n >= n
    BY <1>1, <1>2
  <2> QED BY <1>1, <2>1
<1>4. m # n
  <2> SUFFICES ASSUME m = n PROVE FALSE
    OBVIOUS
  <2>1. (q + 1) * n <= 100 * n
    BY <1>1, <1>2
  <2> QED BY <1>1, <2>1
<1> QED BY <1>3, <1>4

\* Of tasks that are neither all to do nor all done, one is done and one is not.
LEMMA Underway ==
  ASSUME NEW S, IsFiniteSet(S), NEW i, i.completed = CompletionRatio(S),
         CompletionPercent(i) > 0, CompletionPercent(i) < 100
  PROVE  /\ \E k \in S : k.required /\ IsDone(k)
         /\ \E k \in S : k.required /\ ~IsDone(k)
<1> DEFINE required == {k \in S : k.required}
           done == {k \in required : IsDone(k)}
           m == Cardinality(done)  n == Cardinality(required)
<1>1. i.completed = <<m, n>>
  BY DEF CompletionRatio
<1>2. done \subseteq required /\ m \in Nat /\ n \in Nat /\ m <= n
  <2>1. required \in SUBSET S /\ done \in SUBSET required
    OBVIOUS
  <2> HIDE DEF required, done
  <2>2. IsFiniteSet(required) /\ IsFiniteSet(done) /\ m <= n
    BY <2>1, FS_Subset
  <2> QED BY <2>1, <2>2, FS_CardinalityType
<1>3. done = {} => m = 0
  BY FS_EmptySet
<1>4. done = required => m = n
  OBVIOUS
<1> HIDE DEF m, n
<1>5. CompletionPercent(i) = IF n = 0 THEN 0 ELSE (m * 100) \div n
  BY <1>1 DEF CompletionPercent
<1>6. 0 < m /\ m < n
  <2>1. n # 0
    BY <1>5
  <2>2. (m * 100) \div n > 0 /\ (m * 100) \div n < 100
    BY <1>5, <2>1
  <2> QED BY <1>2, <2>1, <2>2, PartDone
<1>7. done # {} /\ done # required
  BY <1>2, <1>3, <1>4, <1>6
<1>8. \E k \in done : TRUE
  BY <1>7
<1>9. \E k \in required : k \notin done
  <2> HIDE DEF done, required
  <2> QED BY <1>2, <1>7
<1> QED BY <1>8, <1>9

\* Every required task has a column.
Listed(S) == \A k \in S : k.required => k.type \in SchedTasks

\* The flow of the port, of tasks that all have columns.
Flowing(r, S) == TaskState(r) = "In Progress" /\ Listed(S)

LEMMA FlowsHere ==
  ASSUME NEW t, NEW S, NEW day, NEW monday, NEW i, NEW r, NEW ref, Told(t, S, day, monday, i, r, ref),
         Flowing(r, S), CompletionPercent(i) \in Int
  PROVE  /\ EvaluationGate(t, day) = "evaluate"
         /\ \E type \in SchedTasks : \E k \in S : k.type = type /\ IsDone(k)
         /\ \E type \in SchedTasks : \E k \in S : k.type = type /\ ~IsDone(k)
<1>0. Tasks(S) /\ IsFiniteSet(S) /\ i = Item(t, S, day) /\ r.completion = CompletionPercent(i)
  BY ToldIs DEF Tasks
<1>1. CompletionPercent(i) > 0 /\ CompletionPercent(i) < 100
  <2>1. r.completion > 0 /\ ~(r.completion >= 100) /\ r.completion \in Int
    BY <1>0 DEF TaskState, Flowing
  <2> QED BY <1>0, <2>1
<1>2. EvaluationGate(t, day) = "evaluate"
  <2> SUFFICES ASSUME EvaluationGate(t, day) # "evaluate" PROVE FALSE
    OBVIOUS
  <2>1. i.completed = <<0, 0>>
    BY <1>0, Gated
  <2>2. CompletionPercent(i) = 0
    BY <2>1 DEF CompletionPercent
  <2> QED BY <1>1, <2>2
<1>3. i.completed = CompletionRatio(S)
  BY <1>0, <1>2, Evaluated
<1>4. /\ \E k \in S : k.required /\ IsDone(k)
      /\ \E k \in S : k.required /\ ~IsDone(k)
  BY <1>0, <1>1, <1>3, Underway
<1>5. \A k \in S : k.required => k.type \in SchedTasks
  BY DEF Flowing, Listed
<1> QED BY <1>2, <1>4, <1>5

\* A unit in the flow here is in it there, if its required tasks have columns.
LEMMA FlowThere ==
  ASSUME NEW t, NEW S, NEW day, NEW monday, NEW i, NEW r, NEW ref, Told(t, S, day, monday, i, r, ref),
         Flowing(r, S), Is_Vacant(ref), CompletionPercent(i) \in Int
  PROVE  Task_State(ref) = "In Progress" /\ In_Turn_Execution(ref)
<1>0. Tasks(S) /\ \A x \in 1..5 : ref.tasks[x] = TaskColumn(S, TASK_SEQUENCE[x])
  BY ToldIs
<1>1. PICK f \in SchedTasks, k \in S : k.type = f /\ IsDone(k)
  BY FlowsHere
<1>2. PICK g \in SchedTasks, l \in S : l.type = g /\ ~IsDone(l)
  BY FlowsHere
<1>3. \A type \in SchedTasks : \E x \in 1..5 : TASK_SEQUENCE[x] = type
  <2>1. /\ TASK_SEQUENCE[1] = "INSPECT" /\ TASK_SEQUENCE[2] = "PAINT"
        /\ TASK_SEQUENCE[3] = "MAKE_READY" /\ TASK_SEQUENCE[4] = "HOUSEKEEPING"
        /\ TASK_SEQUENCE[5] = "CARPET_CLEAN"
    BY DEF TASK_SEQUENCE
  <2>2. 1 \in 1..5 /\ 2 \in 1..5 /\ 3 \in 1..5 /\ 4 \in 1..5 /\ 5 \in 1..5
    OBVIOUS
  <2> QED BY <2>1, <2>2 DEF SchedTasks
<1>4. PICK x \in 1..5 : ref.tasks[x] = TaskColumn(S, f)
  BY <1>0, <1>3
<1>5. PICK y \in 1..5 : ref.tasks[y] = TaskColumn(S, g)
  BY <1>0, <1>3
<1>6. ref.tasks[x].status # "Not Started"
  <2>1. TaskColumn(S, f).status \in {"Done", "Scheduled", "In Progress", "SKIPPED", "BLOCKED"}
    BY <1>0, <1>1, ColumnIs
  <2> QED BY <1>4, <2>1
<1>7. ref.tasks[y].status # "Done"
  <2>1. TaskColumn(S, g).status # "Done"
    BY <1>0, <1>2, ColumnIs DEF IsDone
  <2> QED BY <1>5, <2>1
<1>8. Task_State(ref) = "In Progress"
  BY <1>6, <1>7 DEF Task_State, Done
<1> QED BY <1>8 DEF In_Turn_Execution, Is_Unit_Ready

\* Both say Move-In of a unit whose move-in has come, and of no other.
LEMMA MovedInThere ==
  ASSUME NEW t, NEW S, NEW day, NEW monday, NEW i, NEW r, NEW ref, Told(t, S, day, monday, i, r, ref)
  PROVE  Attention_Badge(ref) = "Apartment Move-In" <=> r.state = "OCCUPIED"
<1>1. /\ r.state = LifecyclePhase(t, day) /\ IsOpen(t)
      /\ ref.moveIn = t.moveIn /\ ref.today = day
  BY ToldIs
<1>2. r.state = "OCCUPIED" <=> t.moveIn # NoDate /\ t.moveIn <= day
  BY <1>1, OpenPhase
<1>3. Operational_State(ref) # "Apartment Move-In"
  BY DEF Operational_State
<1>4. Attention_Badge(ref) = "Apartment Move-In" <=> Move_In_Happened(ref)
  BY <1>3 DEF Attention_Badge
<1> QED BY <1>1, <1>2, <1>4 DEF Move_In_Happened, Is_MoveIn_Present

\* The vacancy, its bucket and the phase's own buckets.
LEMMA SameAging ==
  ASSUME NEW t, NEW S, NEW day, NEW monday, NEW i, NEW r, NEW ref, Told(t, S, day, monday, i, r, ref),
         r.dv \in Int
  PROVE  /\ ref.dv = r.dv
         /\ r.dv > 0 => r.dv # NoDays /\ Aging(ref) = AgingBucket(r.dv)
         /\ ref.status = "Vacant Ready" <=> r.state = "VACANT_READY"
         /\ ref.status = "Vacant Not Ready" <=> r.state = "VACANT_NOT_READY"
<1>1. ref.dv = r.dv /\ ref.status = StateToStatus(r.state) /\ r.state \in Phases
  BY ToldIs
<1>2. r.dv > 0 => r.dv # NoDays
  BY DEF NoDays
<1> QED BY <1>1, <1>2, StatusNames DEF Aging

\* The colours of a row's status and vacancy, and of its aging cell.
LEMMA SameFills ==
  ASSUME NEW status, status # "Pre-Notice", NEW dv \in Int
  PROVE  LET fills == ApplyStatusFills(status, dv, None)
             asked == ReferenceFills(status, dv, None)
         IN  /\ fills.status = asked.status /\ fills.dv = asked.dv
             /\ dv # NoDays => AgingFill(status, dv) = fills.dv
<1> DEFINE base == StatusFillColor(status)
           there == CASE status = "On Notice" -> "notice" [] status = "Vacant Ready" -> "green"
                      [] status = "Vacant Not Ready" -> "pink" [] OTHER -> None
           mine == IF dv = NoDays THEN None
                   ELSE IF status = "Vacant Not Ready" /\ dv < 10 THEN "green" ELSE base
           late == dv # NoDays /\ dv >= 10
           aged == IF status # "Vacant Not Ready" THEN there ELSE IF late THEN "pink" ELSE "green"
           theirs == IF dv = NoDays THEN None ELSE aged
<1>1. base = there
  BY DEF StatusFillColor
<1>2. status = "Vacant Not Ready" => base = "pink"
  BY DEF StatusFillColor
<1>3. /\ ApplyStatusFills(status, dv, None).status = base
      /\ ApplyStatusFills(status, dv, None).dv = mine
  <2> DEFINE alert == IF None = "Work Stalled" THEN "gray"
                      ELSE IF None = "Needs Attention" THEN "yellow" ELSE base
  <2>1. ApplyStatusFills(status, dv, None) =
          [status |-> base, moveIn |-> base, dv |-> mine, alert |-> alert]
    BY DEF ApplyStatusFills
  <2> HIDE DEF base, mine, alert
  <2> QED BY <2>1
<1>4. /\ ReferenceFills(status, dv, None).status = there
      /\ ReferenceFills(status, dv, None).dv = theirs
  BY DEF ReferenceFills
<1>5. dv # NoDays => AgingFill(status, dv) = aged
  BY DEF AgingFill
<1>6. mine = theirs
  <2>1. CASE dv = NoDays
    BY <2>1
  <2>2. CASE dv # NoDays /\ status # "Vacant Not Ready"
    <3> HIDE DEF base, there
    <3> QED BY <1>1, <2>2
  <2>3. CASE dv # NoDays /\ status = "Vacant Not Ready"
    <3> HIDE DEF base, there
    <3>1. CASE dv < 10
      <4>1. ~(dv >= 10)
        BY <3>1
      <4>2. mine = "green" /\ theirs = "green"
        BY <2>3, <3>1, <4>1
      <4> QED BY <4>2
    <3>2. CASE ~(dv < 10)
      <4>1. dv >= 10
        BY <3>2
      <4>2. mine = base /\ theirs = "pink"
        BY <2>3, <3>2, <4>1
      <4> QED BY <1>2, <2>3, <4>2
    <3> QED BY <3>1, <3>2
  <2> QED BY <2>1, <2>2, <2>3
<1> QED BY <1>1, <1>3, <1>4, <1>5, <1>6

-----------------------------------------------------------------------------
(* The tables of one unit *)

LEMMA TablesOfOne ==
  ASSUME NEW r
  PROVE  /\ OperationsTables({r}).OpsMoveIn # {} <=>
              Is_MoveIn_Present(r) /\ ~Is_Unit_Ready_For_Moving(r)
         /\ OperationsTables({r}).OpsSLABreach # {} <=> SLA_Breach(r)
         /\ OperationsTables({r}).OpsInspBreach # {} <=> Inspection_SLA_Breach(r)
         /\ OperationsTables({r}).OpsPlanBreach # {} <=> Plan_Breach(r)
         /\ TaskViews({r}).TaskFlow # {} <=> Task_State(r) = "In Progress" /\ In_Turn_Execution(r)
         /\ \A n \in 1..5 : ScheduleTables({r})[n] # {} <=>
              r.tasks[n].date # NoDate /\ r.tasks[n].status \in {"In Progress", "Scheduled"}
         /\ WalkBoard({r}) # {} <=> VacantStatus(r)
         /\ WDAuditTable({r}) # {} <=> VacantStatus(r)
         /\ WeeklySections({r}).upcomingMoveIn # {} <=>
              Is_MoveIn_Present(r) /\ Days_To_MoveIn(r) \in 0..14
         /\ DOMAIN VisualDashboard({r}).badges = {Attention_Badge(r)}
         /\ PhaseComparison({r}).Vacant = Cardinality({x \in {r} : Is_Vacant(x)})
         /\ DailyOpsReport({r}).vacant = Cardinality({x \in {r} : VacantStatus(x)})
<1>1. /\ OperationsTables({r}).OpsMoveIn = {x \in {r} : Is_MoveIn_Present(x) /\ ~Is_Unit_Ready_For_Moving(x)}
      /\ OperationsTables({r}).OpsSLABreach = {x \in {r} : SLA_Breach(x)}
      /\ OperationsTables({r}).OpsInspBreach = {x \in {r} : Inspection_SLA_Breach(x)}
      /\ OperationsTables({r}).OpsPlanBreach = {x \in {r} : Plan_Breach(x)}
  BY DEF OperationsTables
<1>2. TaskViews({r}).TaskFlow = {x \in {r} : Task_State(x) = "In Progress" /\ In_Turn_Execution(x)}
  BY DEF TaskViews
<1>3. ASSUME NEW n \in 1..5
      PROVE  ScheduleTables({r})[n] = {x \in {r} : /\ x.tasks[n].date # NoDate
                                                  /\ x.tasks[n].status \in {"In Progress", "Scheduled"}}
  BY DEF ScheduleTables
<1>4. /\ WalkBoard({r}) = {x \in {r} : VacantStatus(x)}
      /\ WDAuditTable({r}) = {x \in {r} : VacantStatus(x)}
  BY DEF WalkBoard, WDAuditTable
<1>5. WeeklySections({r}).upcomingMoveIn =
        {x \in {r} : Is_MoveIn_Present(x) /\ Days_To_MoveIn(x) \in 0..14}
  BY DEF WeeklySections
<1>6. DOMAIN VisualDashboard({r}).badges = {Attention_Badge(x) : x \in {r}}
  <2> DEFINE badges == [b \in {Attention_Badge(x) : x \in {r}} |->
                          {x \in {r} : Attention_Badge(x) = b}]
  <2>1. VisualDashboard({r}).badges = badges
    BY DEF VisualDashboard
  <2>2. DOMAIN badges = {Attention_Badge(x) : x \in {r}}
    OBVIOUS
  <2> HIDE DEF badges
  <2> QED BY <2>1, <2>2
<1>7. PhaseComparison({r}).Vacant = Cardinality({x \in {r} : Is_Vacant(x)})
  BY DEF PhaseComparison
<1>8. DailyOpsReport({r}).vacant = Cardinality({x \in {r} : VacantStatus(x)})
  BY DEF DailyOpsReport, WalkBoard
<1>9. {Attention_Badge(x) : x \in {r}} = {Attention_Badge(r)}
  OBVIOUS
<1> QED BY <1>1, <1>2, <1>3, <1>4, <1>5, <1>6, <1>7, <1>8, <1>9

\* The sheets of the port, of one row.
LEMMA SheetsOfOne ==
  ASSUME NEW r
  PROVE  /\ OperationsSheet({r}).OpsMoveIn # {} <=> r.item.turnover.moveIn # NoDate /\ ~r.is_unit_ready
         /\ OperationsSheet({r}).OpsSLABreach # {} <=> r.sla_breach
         /\ OperationsSheet({r}).OpsInspBreach # {} <=> r.inspection_breach
         /\ OperationsSheet({r}).OpsPlanBreach # {} <=> r.plan_breach
         /\ TasksSheet({r}).TaskFlow # {} <=> TaskState(r) = "In Progress" /\ InTurnExecution(r)
         /\ \A type \in SchedTasks : ScheduleSheet({r})[type] # {} <=>
              \E k \in r.item.tasks : k.type = type /\ k.scheduled # NoDate
                                        /\ k.status \in {"IN_PROGRESS", "SCHEDULED"}
         /\ WalkingPathBoard({r}) # {} <=> IsVacantRow(r)
         /\ WDAudit({r}) # {} <=> IsVacantRow(r)
         /\ WeeklySummary({r.item}).upcomingMoveIns # {} <=>
              WithinWeek(r.item.turnover.moveIn, r.item.today)
         /\ PhasePerformance({r}).Vacant = Cardinality({x \in {r} : IsVacantRow(x)})
         /\ DailyOps({r}).vacant = Cardinality({x \in {r} : IsVacantRow(x)})
<1>1. /\ OperationsSheet({r}).OpsMoveIn = {x \in {r} : x.item.turnover.moveIn # NoDate /\ ~x.is_unit_ready}
      /\ OperationsSheet({r}).OpsSLABreach = {x \in {r} : x.sla_breach}
      /\ OperationsSheet({r}).OpsInspBreach = {x \in {r} : x.inspection_breach}
      /\ OperationsSheet({r}).OpsPlanBreach = {x \in {r} : x.plan_breach}
  BY DEF OperationsSheet
<1>2. TasksSheet({r}).TaskFlow = {x \in {r} : TaskState(x) = "In Progress" /\ InTurnExecution(x)}
  BY DEF TasksSheet
<1>3. ASSUME NEW type \in SchedTasks
      PROVE  ScheduleSheet({r})[type] # {} <=>
               \E k \in r.item.tasks : k.type = type /\ k.scheduled # NoDate
                                         /\ k.status \in {"IN_PROGRESS", "SCHEDULED"}
  BY DEF ScheduleSheet
<1>4. WalkingPathBoard({r}) # {} <=> IsVacantRow(r)
  BY DEF WalkingPathBoard
<1>5. WDAudit({r}) # {} <=> IsVacantRow(r)
  BY DEF WDAudit
<1>6. WeeklySummary({r.item}).upcomingMoveIns =
        {j \in {r.item} : WithinWeek(j.turnover.moveIn, j.today)}
  BY Weekly
<1>7. PhasePerformance({r}).Vacant = Cardinality({x \in {r} : IsVacantRow(x)})
  BY DEF PhasePerformance
<1>8. DailyOps({r}).vacant = Cardinality({x \in {r} : IsVacantRow(x)})
  BY Sheets
<1>9. OperationsSheet({r}).OpsMoveIn # {} <=> r.item.turnover.moveIn # NoDate /\ ~r.is_unit_ready
  BY <1>1, Zenon
<1>10. OperationsSheet({r}).OpsSLABreach # {} <=> r.sla_breach
  BY <1>1, Zenon
<1>11. OperationsSheet({r}).OpsInspBreach # {} <=> r.inspection_breach
  BY <1>1, Zenon
<1>12. OperationsSheet({r}).OpsPlanBreach # {} <=> r.plan_breach
  BY <1>1, Zenon
<1>13. TasksSheet({r}).TaskFlow # {} <=> TaskState(r) = "In Progress" /\ InTurnExecution(r)
  BY <1>2
<1>14. WeeklySummary({r.item}).upcomingMoveIns # {} <=>
         WithinWeek(r.item.turnover.moveIn, r.item.today)
  BY <1>6
<1> QED BY <1>3, <1>4, <1>5, <1>7, <1>8, <1>9, <1>10, <1>11, <1>12, <1>13, <1>14, Zenon

\* A unit and its spreadsheet row that a list has both or neither of, in a bucket.
Alike(r, ref, X, Y) == X \subseteq {r} /\ Y \subseteq {ref} /\ (r \in X <=> ref \in Y)

SameVacancy(r, ref) == r.dv # NoDays /\ Aging(ref) = AgingBucket(r.dv)

LEMMA SameBucket ==
  ASSUME NEW r, NEW ref, SameVacancy(r, ref), NEW X, NEW Y, Alike(r, ref, X, Y), NEW B, NEW b \in B
  PROVE  BucketGrid(X, B)[b] # {} <=> Buckets(Y, B)[b] # {}
<1>1. BucketGrid(X, B)[b] = {x \in X : x.dv # NoDays /\ AgingBucket(x.dv) = b}
  BY DEF BucketGrid
<1>2. Buckets(Y, B)[b] = {y \in Y : Aging(y) = b}
  BY DEF Buckets
<1>3. BucketGrid(X, B)[b] # {} <=> r \in X /\ AgingBucket(r.dv) = b
  BY <1>1 DEF SameVacancy, Alike
<1>4. Buckets(Y, B)[b] # {} <=> ref \in Y /\ AgingBucket(r.dv) = b
  BY <1>2 DEF SameVacancy, Alike
<1> QED BY <1>3, <1>4 DEF Alike

\* The aging tables of one unit.
LEMMA AgingOfOne ==
  ASSUME NEW r, NEW ref, SameVacancy(r, ref),
         ref.status = "Vacant Ready" <=> r.state = "VACANT_READY",
         ref.status = "Vacant Not Ready" <=> r.state = "VACANT_NOT_READY"
  PROVE  /\ \A table \in {"All", "Ready", "NotReady"}, b \in AllBuckets :
              AgingSheet({r})[table][b] # {} <=> AgingTables({ref})[table][b] # {}
         /\ \A b \in {10, 20} : ActiveAgingSheet({r})[b] # {} <=> ActiveAgingTables({ref})[b] # {}
<1> DEFINE ready == {x \in {r} : x.state = "VACANT_READY"}
           notReady == {x \in {r} : x.state = "VACANT_NOT_READY"}
           itsReady == {x \in {ref} : x.status = "Vacant Ready"}
           itsNotReady == {x \in {ref} : x.status = "Vacant Not Ready"}
           all == {r}  itsAll == {ref}
<1>0. Alike(r, ref, all, itsAll)
  BY DEF Alike
<1>1. Alike(r, ref, ready, itsReady)
  BY DEF Alike
<1>2. Alike(r, ref, notReady, itsNotReady)
  BY DEF Alike
<1>3. /\ AgingSheet({r})["All"] = BucketGrid(all, AllBuckets)
      /\ AgingSheet({r})["Ready"] = BucketGrid(ready, AllBuckets)
      /\ AgingSheet({r})["NotReady"] = BucketGrid(notReady, AllBuckets)
      /\ ActiveAgingSheet({r}) = BucketGrid(notReady, {10, 20})
  BY DEF AgingSheet, ActiveAgingSheet
<1>4. /\ AgingTables({ref})["All"] = Buckets(itsAll, AllBuckets)
      /\ AgingTables({ref})["Ready"] = Buckets(itsReady, AllBuckets)
      /\ AgingTables({ref})["NotReady"] = Buckets(itsNotReady, AllBuckets)
      /\ ActiveAgingTables({ref}) = Buckets(itsNotReady, {10, 20})
  BY DEF AgingTables, ActiveAgingTables
<1> HIDE DEF ready, notReady, itsReady, itsNotReady, all, itsAll
<1>5. ASSUME NEW B, NEW b \in B
      PROVE  /\ BucketGrid(all, B)[b] # {} <=> Buckets(itsAll, B)[b] # {}
             /\ BucketGrid(ready, B)[b] # {} <=> Buckets(itsReady, B)[b] # {}
             /\ BucketGrid(notReady, B)[b] # {} <=> Buckets(itsNotReady, B)[b] # {}
  <2>1. BucketGrid(all, B)[b] # {} <=> Buckets(itsAll, B)[b] # {}
    BY <1>0, SameBucket
  <2>2. BucketGrid(ready, B)[b] # {} <=> Buckets(itsReady, B)[b] # {}
    BY <1>1, SameBucket
  <2>3. BucketGrid(notReady, B)[b] # {} <=> Buckets(itsNotReady, B)[b] # {}
    BY <1>2, SameBucket
  <2> QED BY <2>1, <2>2, <2>3
<1>6. ASSUME NEW b \in AllBuckets
      PROVE  /\ AgingSheet({r})["All"][b] # {} <=> AgingTables({ref})["All"][b] # {}
             /\ AgingSheet({r})["Ready"][b] # {} <=> AgingTables({ref})["Ready"][b] # {}
             /\ AgingSheet({r})["NotReady"][b] # {} <=> AgingTables({ref})["NotReady"][b] # {}
  BY <1>3, <1>4, <1>5
<1>7. \A b \in {10, 20} : ActiveAgingSheet({r})[b] # {} <=> ActiveAgingTables({ref})[b] # {}
  BY <1>3, <1>4, <1>5
<1> QED BY <1>6, <1>7
-----------------------------------------------------------------------------
(* The port and its reference *)

\* What the property says of a row and its reference on a weekday; of its lists; and
\* of its counts, its aging and its colours.
KeptOn(t, day, r, ref, done) ==
  /\ OperationsTables({ref}).OpsSLABreach # {} /\ ~(EvaluationGate(t, day) # "evaluate") =>
       OperationsSheet({r}).OpsSLABreach # {}
  /\ Priority_Action(ref) = "ESCALATE" /\ ~(EvaluationGate(t, day) # "evaluate") =>
       PriorityAction(r) = "ESCALATE"
  /\ ScheduledMoveIn(t) = NoDate =>
       /\ OperationsSheet({r}).OpsInspBreach # {} => OperationsTables({ref}).OpsInspBreach # {}
       /\ r.is_task_stalled => Is_Task_Stalled(ref) \/ {1, 2} \subseteq done
  /\ \A m, n \in 1..5 : m # n /\ AssignUpcomingDates(ref)[m] # NoDate =>
       AssignUpcomingDates(ref)[m] # AssignUpcomingDates(ref)[n]

ListsKept(S, r, ref) ==
  /\ OperationsSheet({r}).OpsMoveIn # {} => OperationsTables({ref}).OpsMoveIn # {}
  /\ OperationsSheet({r}).OpsPlanBreach # {} => OperationsTables({ref}).OpsPlanBreach # {}
  /\ \A n \in 1..5 : (ScheduleSheet({r})[TASK_SEQUENCE[n]] # {}) = (ScheduleTables({ref})[n] # {})
  /\ (WalkingPathBoard({r}) # {}) = (WalkBoard({ref}) # {})
  /\ (WDAudit({r}) # {}) = (WDAuditTable({ref}) # {})
  /\ TasksSheet({r}).TaskFlow # {} /\ Is_Vacant(ref) =>
       \/ TaskViews({ref}).TaskFlow # {}
       \/ \E k \in S : k.required /\ k.type \notin SchedTasks

FiguresKept(t, r, ref) ==
  /\ WeeklySummary({r.item}).upcomingMoveIns # {} => WeeklySections({ref}).upcomingMoveIn # {}
  /\ ScheduledMoveIn(t) = t.moveIn =>
       PhasePerformance({r}).Vacant >= PhaseComparison({ref}).Vacant
  /\ DailyOps({r}).vacant = DailyOpsReport({ref}).vacant
  /\ "Apartment Move-In" \in DOMAIN VisualDashboard({ref}).badges <=> r.state = "OCCUPIED"
  /\ r.dv > 0 =>
       /\ \A table \in {"All", "Ready", "NotReady"}, b \in AllBuckets :
            (AgingSheet({r})[table][b] # {}) = (AgingTables({ref})[table][b] # {})
       /\ \A b \in {10, 20} : (ActiveAgingSheet({r})[b] # {}) = (ActiveAgingTables({ref})[b] # {})
  /\ ref.status # "Pre-Notice" =>
       /\ ApplyStatusFills(ref.status, r.dv, None).status = ReferenceFills(ref.status, ref.dv, None).status
       /\ ApplyStatusFills(ref.status, r.dv, None).dv = ReferenceFills(ref.status, ref.dv, None).dv
       /\ r.dv # NoDays => AgingFill(ref.status, r.dv) = ApplyStatusFills(ref.status, r.dv, None).dv

LEMMA KeepsOn ==
  ASSUME NEW t, NEW S, NEW day, NEW monday, NEW i, NEW r, NEW ref, Told(t, S, day, monday, i, r, ref)
  PROVE  KeptOn(t, day, r, ref, Done(ref))
<1>1. ASSUME EvaluationGate(t, day) = "evaluate", SLA_Breach(ref) PROVE r.sla_breach
  BY <1>1, LateHere
<1>2. OperationsTables({ref}).OpsSLABreach # {} <=> SLA_Breach(ref)
  BY TablesOfOne
<1>3. OperationsSheet({r}).OpsSLABreach # {} <=> r.sla_breach
  BY SheetsOfOne
<1>4. Priority_Action(ref) = "ESCALATE" => SLA_Breach(ref)
  BY DEF Priority_Action
<1>5. r.sla_breach => PriorityAction(r) = "ESCALATE"
  BY DEF PriorityAction
<1>6. ASSUME ScheduledMoveIn(t) = NoDate, OperationsSheet({r}).OpsInspBreach # {}
      PROVE  OperationsTables({ref}).OpsInspBreach # {}
  <2>1. r.inspection_breach
    BY <1>6, SheetsOfOne
  <2>2. Inspection_SLA_Breach(ref)
    BY <1>6, <2>1, InspectionThere
  <2> QED BY <2>2, TablesOfOne
<1>7. ASSUME ScheduledMoveIn(t) = NoDate, r.is_task_stalled
      PROVE  Is_Task_Stalled(ref) \/ {1, 2} \subseteq Done(ref)
  BY <1>7, StalledThere
<1>8. \A m, n \in 1..5 : m # n /\ AssignUpcomingDates(ref)[m] # NoDate =>
        AssignUpcomingDates(ref)[m] # AssignUpcomingDates(ref)[n]
  <2>1. ref.monday \in Int /\ ref.today \in Int
    BY ToldIs
  <2>2. \A n \in 1..5 : ref.tasks[n].date \in Int
    BY SameLists
  <2> QED BY <2>1, <2>2, DaysApart
<1> QED BY <1>1, <1>2, <1>3, <1>4, <1>5, <1>6, <1>7, <1>8, Zenon DEF KeptOn

LEMMA CountsOfOne ==
  ASSUME NEW r
  PROVE  /\ DailyOps({r}).vacant = IF IsVacantRow(r) THEN 1 ELSE 0
         /\ PhasePerformance({r}).Vacant = IF IsVacantRow(r) THEN 1 ELSE 0
         /\ DailyOpsReport({r}).vacant = IF VacantStatus(r) THEN 1 ELSE 0
         /\ PhaseComparison({r}).Vacant = IF Is_Vacant(r) THEN 1 ELSE 0
<1>1. /\ DailyOps({r}).vacant = Cardinality({x \in {r} : IsVacantRow(x)})
      /\ PhasePerformance({r}).Vacant = Cardinality({x \in {r} : IsVacantRow(x)})
  BY SheetsOfOne
<1>2. /\ DailyOpsReport({r}).vacant = Cardinality({x \in {r} : VacantStatus(x)})
      /\ PhaseComparison({r}).Vacant = Cardinality({x \in {r} : Is_Vacant(x)})
  BY TablesOfOne
<1>3. Cardinality({}) = 0 /\ Cardinality({r}) = 1
  BY FS_EmptySet, FS_Singleton
<1>4. {x \in {r} : IsVacantRow(x)} = IF IsVacantRow(r) THEN {r} ELSE {}
  OBVIOUS
<1>5. {x \in {r} : VacantStatus(x)} = IF VacantStatus(r) THEN {r} ELSE {}
  OBVIOUS
<1>6. {x \in {r} : Is_Vacant(x)} = IF Is_Vacant(r) THEN {r} ELSE {}
  OBVIOUS
<1> QED BY <1>1, <1>2, <1>3, <1>4, <1>5, <1>6

LEMMA KeepsLists ==
  ASSUME NEW t, NEW S, NEW day, NEW monday, NEW i, NEW r, NEW ref, Told(t, S, day, monday, i, r, ref),
         CompletionPercent(i) \in Int
  PROVE  ListsKept(S, r, ref)
<1>1. OperationsSheet({r}).OpsMoveIn # {} => OperationsTables({ref}).OpsMoveIn # {}
  <2>1. OperationsSheet({r}).OpsMoveIn # {} <=> r.item.turnover.moveIn # NoDate /\ ~r.is_unit_ready
    BY SheetsOfOne
  <2>2. OperationsTables({ref}).OpsMoveIn # {} <=> Is_MoveIn_Present(ref) /\ ~Is_Unit_Ready_For_Moving(ref)
    BY TablesOfOne
  <2>3. r.item.turnover.moveIn # NoDate /\ ~r.is_unit_ready =>
          Is_MoveIn_Present(ref) /\ ~Is_Unit_Ready_For_Moving(ref)
    BY BehindThere
  <2> QED BY <2>1, <2>2, <2>3, Zenon
<1>2. OperationsSheet({r}).OpsPlanBreach # {} => OperationsTables({ref}).OpsPlanBreach # {}
  <2>1. OperationsSheet({r}).OpsPlanBreach # {} <=> r.plan_breach
    BY SheetsOfOne
  <2>2. OperationsTables({ref}).OpsPlanBreach # {} <=> Plan_Breach(ref)
    BY TablesOfOne
  <2>3. r.plan_breach => Plan_Breach(ref)
    BY BehindThere
  <2> QED BY <2>1, <2>2, <2>3, Zenon
<1>3. ASSUME NEW n \in 1..5
      PROVE  ScheduleSheet({r})[TASK_SEQUENCE[n]] # {} <=> ScheduleTables({ref})[n] # {}
  <2> DEFINE type == TASK_SEQUENCE[n]
             due == \E k \in S : /\ k.type = type /\ k.scheduled # NoDate
                                 /\ k.status \in {"IN_PROGRESS", "SCHEDULED"}
  <2>1. type \in SchedTasks
    BY DEF TASK_SEQUENCE, SchedTasks
  <2>2. r.item.tasks = S
    BY ToldIs
  <2>3. ScheduleTables({ref})[n] # {} <=>
          ref.tasks[n].date # NoDate /\ ref.tasks[n].status \in {"In Progress", "Scheduled"}
    BY TablesOfOne
  <2>4. due <=> ref.tasks[n].date # NoDate /\ ref.tasks[n].status \in {"In Progress", "Scheduled"}
    BY SameLists
  <2> HIDE DEF type
  <2>5. ScheduleSheet({r})[type] # {} <=> due
    BY <2>1, <2>2, SheetsOfOne
  <2> HIDE DEF due
  <2>6. ScheduleSheet({r})[type] # {} <=> ScheduleTables({ref})[n] # {}
    BY <2>3, <2>4, <2>5
  <2> QED BY <2>6 DEF type
<1>4. /\ WalkingPathBoard({r}) # {} <=> WalkBoard({ref}) # {}
      /\ WDAudit({r}) # {} <=> WDAuditTable({ref}) # {}
  <2>1. WalkingPathBoard({r}) # {} <=> IsVacantRow(r)
    BY SheetsOfOne
  <2>2. WDAudit({r}) # {} <=> IsVacantRow(r)
    BY SheetsOfOne
  <2>3. WalkBoard({ref}) # {} <=> VacantStatus(ref)
    BY TablesOfOne
  <2>4. WDAuditTable({ref}) # {} <=> VacantStatus(ref)
    BY TablesOfOne
  <2>5. IsVacantRow(r) <=> VacantStatus(ref)
    BY SameLists
  <2> QED BY <2>1, <2>2, <2>3, <2>4, <2>5
<1>5. ASSUME TasksSheet({r}).TaskFlow # {}, Is_Vacant(ref),
             ~\E k \in S : k.required /\ k.type \notin SchedTasks
      PROVE  TaskViews({ref}).TaskFlow # {}
  <2>1. TaskState(r) = "In Progress"
    BY <1>5, SheetsOfOne
  <2>2. Listed(S)
    BY <1>5 DEF Listed
  <2>3. Flowing(r, S)
    BY <2>1, <2>2 DEF Flowing
  <2>4. Task_State(ref) = "In Progress" /\ In_Turn_Execution(ref)
    BY <1>5, <2>3, FlowThere
  <2> QED BY <2>4, TablesOfOne
<1> QED BY <1>1, <1>2, <1>3, <1>4, <1>5 DEF ListsKept

LEMMA KeepsFigures ==
  ASSUME NEW t, NEW S, NEW day, NEW monday, NEW i, NEW r, NEW ref, Told(t, S, day, monday, i, r, ref),
         r.dv \in Int
  PROVE  FiguresKept(t, r, ref)
<1>1. ASSUME WeeklySummary({r.item}).upcomingMoveIns # {}
      PROVE  WeeklySections({ref}).upcomingMoveIn # {}
  <2>1. WithinWeek(r.item.turnover.moveIn, r.item.today)
    BY <1>1, SheetsOfOne
  <2>2. /\ r.item.turnover = t /\ r.item.today = day /\ t.moveIn \in Int /\ day \in Int
        /\ ref.moveIn = t.moveIn /\ ref.today = day
    BY ToldIs
  <2>3. t.moveIn # NoDate /\ day <= t.moveIn /\ t.moveIn <= day + 7
    BY <2>1, <2>2 DEF WithinWeek
  <2>4. t.moveIn - day \in 0..14
    BY <2>2, <2>3
  <2>5. Is_MoveIn_Present(ref) /\ Days_To_MoveIn(ref) \in 0..14
    BY <2>2, <2>3, <2>4 DEF Is_MoveIn_Present, Days_To_MoveIn
  <2> QED BY <2>5, TablesOfOne
<1>2. /\ ScheduledMoveIn(t) = t.moveIn =>
           PhasePerformance({r}).Vacant >= PhaseComparison({ref}).Vacant
      /\ DailyOps({r}).vacant = DailyOpsReport({ref}).vacant
  <2>1. Is_Vacant(ref) /\ ScheduledMoveIn(t) = t.moveIn => IsVacantRow(r)
    BY VacantThere
  <2>2. IsVacantRow(r) <=> VacantStatus(ref)
    BY SameLists
  <2>3. /\ DailyOps({r}).vacant = IF IsVacantRow(r) THEN 1 ELSE 0
        /\ PhasePerformance({r}).Vacant = IF IsVacantRow(r) THEN 1 ELSE 0
    BY CountsOfOne
  <2>4. /\ DailyOpsReport({ref}).vacant = IF VacantStatus(ref) THEN 1 ELSE 0
        /\ PhaseComparison({ref}).Vacant = IF Is_Vacant(ref) THEN 1 ELSE 0
    BY CountsOfOne
  <2> QED BY <2>1, <2>2, <2>3, <2>4
<1>3. "Apartment Move-In" \in DOMAIN VisualDashboard({ref}).badges <=> r.state = "OCCUPIED"
  <2>1. DOMAIN VisualDashboard({ref}).badges = {Attention_Badge(ref)}
    BY TablesOfOne
  <2>2. Attention_Badge(ref) = "Apartment Move-In" <=> r.state = "OCCUPIED"
    BY MovedInThere
  <2> QED BY <2>1, <2>2
<1>4. ASSUME r.dv > 0
      PROVE  /\ \A table \in {"All", "Ready", "NotReady"}, b \in AllBuckets :
                  AgingSheet({r})[table][b] # {} <=> AgingTables({ref})[table][b] # {}
             /\ \A b \in {10, 20} : ActiveAgingSheet({r})[b] # {} <=> ActiveAgingTables({ref})[b] # {}
  <2>1. SameVacancy(r, ref)
    <3>1. ref.dv = r.dv
      BY ToldIs
    <3>2. r.dv # NoDays
      BY <1>4 DEF NoDays
    <3> QED BY <1>4, <3>1, <3>2 DEF SameVacancy, Aging
  <2>2. ref.status = "Vacant Ready" <=> r.state = "VACANT_READY"
    BY SameAging
  <2>3. ref.status = "Vacant Not Ready" <=> r.state = "VACANT_NOT_READY"
    BY SameAging
  <2> QED BY <2>1, <2>2, <2>3, AgingOfOne
<1>5. ASSUME ref.status # "Pre-Notice"
      PROVE  /\ ApplyStatusFills(ref.status, r.dv, None).status =
                  ReferenceFills(ref.status, ref.dv, None).status
             /\ ApplyStatusFills(ref.status, r.dv, None).dv = ReferenceFills(ref.status, ref.dv, None).dv
             /\ r.dv # NoDays =>
                  AgingFill(ref.status, r.dv) = ApplyStatusFills(ref.status, r.dv, None).dv
  <2>1. ref.dv = r.dv
    BY ToldIs
  <2> QED BY <1>5, <2>1, SameFills
<1> QED BY <1>1, <1>2, <1>3, <1>4, <1>5 DEF FiguresKept

\* The tasks of the turnover are tasks as Tasks asks.
LEMMA TasksAre ==
  ASSUME TypeOK
  PROVE  Tasks(tasks)
<1> DEFINE f == [k \in TaskKinds |->
                   [type |-> k.type, required |-> k.required, blocking |-> k.blocking,
                    due |-> k.due, scheduled |-> k.scheduled, status |-> progress[k]]]
<1>1. tasks = {f[k] : k \in TaskKinds}
  BY DEF tasks
<1>2. ASSUME NEW k \in TaskKinds
      PROVE  f[k].type = k.type /\ f[k].scheduled = k.scheduled /\ f[k].status = progress[k]
  OBVIOUS
<1> HIDE DEF f
<1>3. IsFiniteSet(tasks)
  BY TasksFinite
<1>4. \A k \in TaskKinds : progress[k] \in Execution
  <2>1. progress \in [TaskKinds -> TaskStatuses \cup {"SCHEDULED"}]
    BY DEF TypeOK
  <2>2. TaskStatuses \cup {"SCHEDULED"} \subseteq Execution
    BY TasksOK DEF Execution
  <2> QED BY <2>1, <2>2
<1>5. \A k, l \in tasks : k.type = l.type => k = l
  <2> SUFFICES ASSUME NEW k \in tasks, NEW l \in tasks, k.type = l.type PROVE k = l
    OBVIOUS
  <2>1. PICK a \in TaskKinds : k = f[a]
    BY <1>1
  <2>2. PICK b \in TaskKinds : l = f[b]
    BY <1>1
  <2>3. a.type = b.type
    BY <1>2, <2>1, <2>2
  <2> QED BY <2>1, <2>2, <2>3, TasksOK
<1>6. \A k \in tasks : k.status \in Execution /\ (k.scheduled \in Nat \/ k.scheduled = NoDate)
  <2> SUFFICES ASSUME NEW k \in tasks
      PROVE  k.status \in Execution /\ (k.scheduled \in Nat \/ k.scheduled = NoDate)
    OBVIOUS
  <2>1. PICK a \in TaskKinds : k = f[a]
    BY <1>1
  <2> QED BY <1>2, <1>4, <2>1, TasksOK
<1> QED BY <1>1, <1>3, <1>5, <1>6 DEF Tasks

\* What the exports' row, the row of the spreadsheet and the board tell of the turnover.
LEMMA AllTold ==
  ASSUME TypeOK, NEW r \in ExportRows(board), NEW monday \in Int
  PROVE  /\ Told(row, tasks, today, monday, r.item, r, ReferenceRow(r.item, monday))
         /\ CompletionPercent(r.item) \in Int /\ r.dv \in Int
<1>1. r.item \in board /\ r = ExportRow(r.item) /\ r.dv = VacancyDays(r.item.turnover, r.item.today)
  BY RowsAre
<1>2. OpenRow(row) /\ today \in Nat /\ r.item = Item(row, tasks, today)
  BY <1>1, BoardIs
<1>3. Reported(r.item)
  BY <1>1, BoardReported
<1>4. Told(row, tasks, today, monday, r.item, r, ReferenceRow(r.item, monday))
  BY <1>1, <1>2, TasksAre DEF Told
<1>5. CompletionPercent(r.item) \in Int /\ r.dv \in Int
  BY <1>1, <1>3 DEF Reported
<1> QED BY <1>4, <1>5

\* The columns are the same on every weekday.
LEMMA SameDone ==
  ASSUME NEW i, NEW m, NEW n
  PROVE  Done(ReferenceRow(i, m)) = Done(ReferenceRow(i, n))
<1>1. \A x \in 1..5 : ReferenceRow(i, m).tasks[x] = ReferenceRow(i, n).tasks[x]
  BY RefIs
<1> QED BY <1>1 DEF Done

LEMMA Conjuncts ==
  ASSUME \A r \in ExportRows(board) :
           /\ \A monday \in 0..6 :
                KeptOn(row, today, r, ReferenceRow(r.item, monday), Done(ReferenceRow(r.item, 0)))
           /\ ListsKept(tasks, r, ReferenceRow(r.item, 0))
           /\ FiguresKept(row, r, ReferenceRow(r.item, 0))
  PROVE  PortFollowsReference
BY Zenon DEF PortFollowsReference, KeptOn, ListsKept, FiguresKept

\* The port keeps what its reference showed (see PortFollowsReference).
THEOREM PortKept == Spec => []PortFollowsReference
<1>1. TypeOK => PortFollowsReference
  <2> SUFFICES ASSUME TypeOK, NEW r \in ExportRows(board)
      PROVE  /\ \A monday \in 0..6 :
                  KeptOn(row, today, r, ReferenceRow(r.item, monday), Done(ReferenceRow(r.item, 0)))
             /\ ListsKept(tasks, r, ReferenceRow(r.item, 0))
             /\ FiguresKept(row, r, ReferenceRow(r.item, 0))
    BY Conjuncts
  <2>1. ASSUME NEW monday \in 0..6
        PROVE  KeptOn(row, today, r, ReferenceRow(r.item, monday), Done(ReferenceRow(r.item, 0)))
    <3>1. Told(row, tasks, today, monday, r.item, r, ReferenceRow(r.item, monday))
      BY AllTold
    <3>2. KeptOn(row, today, r, ReferenceRow(r.item, monday), Done(ReferenceRow(r.item, monday)))
      BY <3>1, KeepsOn
    <3>3. Done(ReferenceRow(r.item, monday)) = Done(ReferenceRow(r.item, 0))
      BY SameDone
    <3> QED BY <3>2, <3>3
  <2>2. /\ Told(row, tasks, today, 0, r.item, r, ReferenceRow(r.item, 0))
        /\ CompletionPercent(r.item) \in Int /\ r.dv \in Int
    BY AllTold
  <2> QED BY <2>1, <2>2, KeepsLists, KeepsFigures
<1>2. Spec => []TypeOK
  BY TypeCorrect
<1> QED BY <1>1, <1>2, PTL
=============================================================================
