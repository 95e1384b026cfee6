-------------------------- MODULE TaskServiceProofs --------------------------
(***************************************************************************)
(* Theorems about TaskService, for any callers, task types and days.       *)
(***************************************************************************)
EXTENDS TaskService, TLAPS

Stamps == {"vendor_completed_at", "completed_date"}
Flags  == {"required", "blocking", "skip_allowed", "blocked_reason"}
Fields == {"execution_status"} \cup Stamps \cup Flags

\* What a call may carry: known fields, of their types, and no stamp that is None.
FieldsOK(fields) ==
  /\ fields = [f \in DOMAIN fields |-> fields[f]]
  /\ DOMAIN fields \subseteq Fields
  /\ "execution_status" \in DOMAIN fields => fields.execution_status \in Statuses
  /\ \A f \in Stamps : f \in DOMAIN fields => fields[f] \in Days
  /\ \A f \in Flags : f \in DOMAIN fields => fields[f] \in BOOLEAN

CallOK(k) ==
  /\ k = [step |-> k.step, type |-> k.type, fields |-> k.fields]
  /\ k.step \in {"idle", "read", "write"} /\ k.type \in Types /\ FieldsOK(k.fields)

\* TypeOK, and what makes it inductive: the fields of a call by themselves.
Typed ==
  /\ task \in [Types -> Tasks] /\ today \in Days /\ alone \subseteq Callers
  /\ call = [c \in Callers |-> call[c]] /\ \A c \in Callers : CallOK(call[c])

LEMMA Merge ==
  ASSUME NEW t \in Tasks, NEW fields, FieldsOK(fields)
  PROVE  /\ Over(fields, t) \in Tasks
         /\ \A f \in Fields :
              Over(fields, t)[f] = IF f \in DOMAIN fields THEN fields[f] ELSE t[f]
<1> DEFINE r == Over(fields, t)
<1>1. DOMAIN t = Fields
  BY DEF Tasks, Stamps, Flags, Fields
<1>2. r = [f \in Fields |->
             IF f \in DOMAIN fields THEN fields[f] ELSE t[f]]
  BY <1>1 DEF FieldsOK, Over
<1>3. /\ r.execution_status \in Statuses
      /\ r.vendor_completed_at \in {0} \cup Days /\ r.completed_date \in {0} \cup Days
      /\ r.required \in BOOLEAN /\ r.blocking \in BOOLEAN
      /\ r.skip_allowed \in BOOLEAN /\ r.blocked_reason \in BOOLEAN
  BY <1>2 DEF FieldsOK, Tasks, Stamps, Flags, Fields
<1>4. r = [execution_status |-> r.execution_status, vendor_completed_at |-> r.vendor_completed_at,
           completed_date |-> r.completed_date, required |-> r.required, blocking |-> r.blocking,
           skip_allowed |-> r.skip_allowed, blocked_reason |-> r.blocked_reason]
  BY <1>2 DEF Stamps, Flags, Fields
<1>5. r \in Tasks
  BY <1>3, <1>4 DEF Tasks
<1> QED BY <1>2, <1>5

LEMMA TypedIsTypeOK == Typed => TypeOK
BY Merge DEF Typed, TypeOK, CallOK

-----------------------------------------------------------------------------
(* Types *)

LEMMA Constants == Types # {} /\ 1 \in Days /\ Days \subseteq Nat /\ 0 \notin Days
BY TaskConstants DEF Days

LEMMA NoCallOK == CallOK(NoCall)
<1>1. NoCall.type \in Types
  BY Constants DEF NoCall
<1> QED BY <1>1 DEF CallOK, NoCall, NoFields, FieldsOK

LEMMA RequestsOK ==
  /\ \A fields \in Requests : FieldsOK(fields) /\ \A f \in Stamps : f \notin DOMAIN fields
  /\ \A day \in Days :
       FieldsOK([execution_status |-> "COMPLETE", vendor_completed_at |-> day])
<1>1. ASSUME NEW fields \in Requests PROVE FieldsOK(fields) /\ \A f \in Stamps : f \notin DOMAIN fields
  <2>1. CASE \E s \in Statuses : fields = [execution_status |-> s]
    BY <2>1 DEF FieldsOK, Stamps, Flags, Fields
  <2>2. CASE fields = [execution_status |-> "BLOCKED", blocked_reason |-> TRUE]
    BY <2>2 DEF FieldsOK, Stamps, Flags, Fields, Statuses
  <2>3. CASE \E b \in BOOLEAN : fields = [required |-> b]
    BY <2>3 DEF FieldsOK, Stamps, Flags, Fields
  <2>4. CASE \E b \in BOOLEAN : fields = [blocking |-> b]
    BY <2>4 DEF FieldsOK, Stamps, Flags, Fields
  <2> QED BY <2>1, <2>2, <2>3, <2>4 DEF Requests
<1>2. ASSUME NEW day \in Days
      PROVE  FieldsOK([execution_status |-> "COMPLETE", vendor_completed_at |-> day])
  BY DEF FieldsOK, Stamps, Flags, Fields, Statuses
<1> QED BY <1>1, <1>2

\* What update_task adds are stamps of the day.
LEMMA StampedFields ==
  ASSUME NEW t \in Tasks, NEW fields, FieldsOK(fields), NEW day \in Days
  PROVE  LET r == Stamped(t, fields, day)
             completes == "execution_status" \in DOMAIN fields /\ fields.execution_status = "COMPLETE"
         IN  /\ FieldsOK(r)
             /\ \A f \in {"execution_status"} \cup Flags :
                  /\ f \in DOMAIN r <=> f \in DOMAIN fields
                  /\ f \in DOMAIN fields => r[f] = fields[f]
             /\ \A f \in Stamps :
                  f \in DOMAIN r <=> f \in DOMAIN fields \/ (completes /\ t[f] = 0)
<1> DEFINE completes == "execution_status" \in DOMAIN fields /\ fields.execution_status = "COMPLETE"
           missing == {f \in Stamps : completes /\ f \notin DOMAIN fields /\ t[f] = 0}
           r == Stamped(t, fields, day)
<1>1. r = [f \in DOMAIN fields \cup missing |-> IF f \in DOMAIN fields THEN fields[f] ELSE day]
  BY DEF Stamped, Over, Stamps
<1>2. /\ DOMAIN r = DOMAIN fields \cup missing
      /\ \A f \in DOMAIN r : r[f] = IF f \in DOMAIN fields THEN fields[f] ELSE day
  BY <1>1
<1>3. \A f \in {"execution_status"} \cup Flags : f \notin Stamps
  BY DEF Stamps, Flags, Fields
<1>4. FieldsOK(r)
  <2>1. r = [f \in DOMAIN r |-> r[f]]
    BY <1>1
  <2>2. DOMAIN r \subseteq Fields
    BY <1>2 DEF FieldsOK, Fields
  <2>3. "execution_status" \in DOMAIN r => r.execution_status \in Statuses
    <3>1. "execution_status" \notin Stamps
      BY <1>3
    <3> QED BY <1>2, <3>1 DEF FieldsOK
  <2>4. \A f \in Stamps : f \in DOMAIN r => r[f] \in Days
    BY <1>2 DEF FieldsOK
  <2>5. \A f \in Flags : f \in DOMAIN r => r[f] \in BOOLEAN
    BY <1>2, <1>3 DEF FieldsOK
  <2> HIDE DEF r
  <2> QED BY <2>1, <2>2, <2>3, <2>4, <2>5 DEF FieldsOK
<1>5. ASSUME NEW f \in {"execution_status"} \cup Flags
      PROVE  (f \in DOMAIN r <=> f \in DOMAIN fields) /\ (f \in DOMAIN fields => r[f] = fields[f])
  <2>1. f \notin missing
    BY <1>3
  <2> QED BY <1>2, <2>1
<1>6. ASSUME NEW f \in Stamps
      PROVE  f \in DOMAIN r <=> f \in DOMAIN fields \/ (completes /\ t[f] = 0)
  BY <1>2
<1> HIDE DEF r
<1> QED BY <1>4, <1>5, <1>6 DEF r

LEMMA InitTyped == Init => Typed
BY NoCallOK, Constants DEF Init, Typed

LEMMA StepTyped == Typed /\ [Next]_vars => Typed'
<1> SUFFICES ASSUME Typed, [Next]_vars PROVE Typed'
  OBVIOUS
<1> USE DEF Typed
<1>1. CASE Midnight
  BY <1>1, TaskConstants DEF Midnight, Days
<1>2. ASSUME NEW c \in Callers, Update(c) PROVE Typed'
  <2>1. PICK ty \in Types, fields \in Requests :
          call' = [call EXCEPT ![c] = [step |-> "read", type |-> ty, fields |-> fields]]
    BY <1>2 DEF Update
  <2>2. CallOK(call'[c])
    BY <2>1, RequestsOK DEF CallOK
  <2> QED BY <1>2, <2>1, <2>2 DEF Update
<1>3. ASSUME NEW c \in Callers, Complete(c) PROVE Typed'
  <2>1. PICK ty \in Types :
          call' = [call EXCEPT ![c] =
            [step |-> "read", type |-> ty,
             fields |-> [execution_status |-> "COMPLETE", vendor_completed_at |-> today]]]
    BY <1>3 DEF Complete
  <2>2. CallOK(call'[c])
    BY <2>1, RequestsOK DEF CallOK
  <2> QED BY <1>3, <2>1, <2>2 DEF Complete
<1>4. ASSUME NEW c \in Callers, Read(c) PROVE Typed'
  <2>1. CASE call' = [call EXCEPT ![c] = NoCall]
    BY <1>4, <2>1, NoCallOK DEF Read
  <2>2. CASE call' = [call EXCEPT ![c].step = "write",
                        ![c].fields = Stamped(task[call[c].type], @, today)]
    <3>1. call'[c] = [step |-> "write", type |-> call[c].type,
                      fields |-> Stamped(task[call[c].type], call[c].fields, today)]
      <4>1. c \in DOMAIN call /\ DOMAIN call[c] = {"step", "type", "fields"}
        BY DEF CallOK
      <4> QED BY <2>2, <4>1 DEF CallOK
    <3>2. CallOK(call'[c])
      BY <3>1, StampedFields DEF CallOK
    <3> QED BY <1>4, <2>2, <3>2 DEF Read
  <2> QED BY <1>4, <2>1, <2>2 DEF Read, Finish
<1>5. ASSUME NEW c \in Callers, Write(c) PROVE Typed'
  <2>1. Over(call[c].fields, task[call[c].type]) \in Tasks
    BY Merge DEF CallOK
  <2>2. task' \in [Types -> Tasks]
    BY <1>5, <2>1 DEF Write, CallOK
  <2> QED BY <1>5, <2>2, NoCallOK DEF Write, Finish
<1>6. ASSUME NEW c \in Callers, Fail(c) PROVE Typed'
  BY <1>6, NoCallOK DEF Fail, Finish
<1>7. CASE UNCHANGED vars
  BY <1>7 DEF vars
<1> QED BY <1>1, <1>2, <1>3, <1>4, <1>5, <1>6, <1>7 DEF Next

\* TypeOK: whatever calls race, the rows and what is about to be written are tasks.
THEOREM TypeCorrect == Spec => []TypeOK
<1>1. Init => Typed
  BY InitTyped
<1>2. Typed /\ [Next]_vars => Typed'
  BY StepTyped
<1>3. Typed => TypeOK
  BY TypedIsTypeOK
<1> QED BY <1>1, <1>2, <1>3, PTL DEF Spec

-----------------------------------------------------------------------------
(* Stamps *)

\* A write that completes a task carries each stamp that its row lacks -- now, not
\* only when it was read: no write clears a stamp.
WritesStamps ==
  \A c \in Callers :
    LET fields == call[c].fields
    IN  /\ call[c].step = "write"
        /\ "execution_status" \in DOMAIN fields /\ fields.execution_status = "COMPLETE"
        => \A f \in Stamps : f \in DOMAIN fields \/ task[call[c].type][f] # 0

StampInv == WritesStamps /\ CompletedIsStamped

\* What a write leaves of the row it writes and of the others.
LEMMA Written ==
  ASSUME Typed, NEW c \in Callers, Write(c), NEW ty \in Types, task'[ty] # task[ty]
  PROVE  /\ ty = call[c].type
         /\ CheckAllows(task'[ty])
         /\ \A f \in Fields :
              task'[ty][f] = IF f \in DOMAIN call[c].fields THEN call[c].fields[f] ELSE task[ty][f]
<1> DEFINE r == Over(call[c].fields, task[call[c].type])
<1>1. task' = IF CheckAllows(r) THEN [task EXCEPT ![call[c].type] = r] ELSE task
  BY DEF Write
<1>2. /\ task \in [Types -> Tasks] /\ call[c].type \in Types /\ FieldsOK(call[c].fields)
      /\ task[call[c].type] \in Tasks
  BY DEF Typed, CallOK
<1>3. \A f \in Fields :
        r[f] = IF f \in DOMAIN call[c].fields THEN call[c].fields[f] ELSE task[call[c].type][f]
  BY <1>2, Merge
<1> HIDE DEF r
<1> QED BY <1>1, <1>2, <1>3

LEMMA StampsStay ==
  ASSUME Typed, NEW c \in Callers, Write(c)
  PROVE  \A ty \in Types, f \in Stamps : task[ty][f] # 0 => task'[ty][f] # 0
<1>1. \A f \in Stamps : f \in DOMAIN call[c].fields => call[c].fields[f] # 0
  BY Constants DEF Typed, CallOK, FieldsOK
<1>2. ASSUME NEW ty \in Types, NEW f \in Stamps, task[ty][f] # 0 PROVE task'[ty][f] # 0
  <2>1. task'[ty] = task[ty] \/ task'[ty][f] = IF f \in DOMAIN call[c].fields THEN call[c].fields[f] ELSE task[ty][f]
    <3>1. f \in Fields
      BY DEF Fields
    <3> QED BY <3>1, Written
  <2> QED BY <1>1, <1>2, <2>1
<1> QED BY <1>2

LEMMA InitStamps == Init => StampInv
BY DEF Init, NoCall, StampInv, WritesStamps, CompletedIsStamped

LEMMA StepStamps == Typed /\ StampInv /\ [Next]_vars => StampInv'
<1> SUFFICES ASSUME Typed, StampInv, [Next]_vars PROVE StampInv'
  OBVIOUS
<1>1. CASE Midnight \/ UNCHANGED vars
  BY <1>1 DEF Midnight, vars, StampInv, WritesStamps, CompletedIsStamped
<1>2. ASSUME NEW c \in Callers, Update(c) \/ Complete(c) \/ Fail(c) PROVE StampInv'
  <2>1. task' = task /\ \A d \in Callers : call'[d].step = "write" => call'[d] = call[d]
    BY <1>2 DEF Update, Complete, Fail, Finish, NoCall, Typed
  <2> QED BY <2>1 DEF StampInv, WritesStamps, CompletedIsStamped
<1>3. ASSUME NEW c \in Callers, Read(c) PROVE StampInv'
  <2> DEFINE t == task[call[c].type]
  <2>1. task' = task /\ \A d \in Callers \ {c} : call'[d] = call[d]
    BY <1>3 DEF Read, Finish, Typed
  <2>2. CASE call' = [call EXCEPT ![c] = NoCall]
    BY <2>1, <2>2 DEF StampInv, WritesStamps, CompletedIsStamped, NoCall, Typed
  <2>3. CASE call' = [call EXCEPT ![c].step = "write", ![c].fields = Stamped(t, @, today)]
    <3>1. c \in DOMAIN call /\ DOMAIN call[c] = {"step", "type", "fields"}
      BY DEF Typed, CallOK
    <3>2. call'[c].type = call[c].type /\ call'[c].fields = Stamped(t, call[c].fields, today)
      BY <2>3, <3>1
    <3>3. t \in Tasks /\ FieldsOK(call[c].fields) /\ today \in Days
      BY DEF Typed, CallOK
    <3>4. WritesStamps'
      BY <2>1, <3>2, <3>3, StampedFields DEF StampInv, WritesStamps
    <3> QED BY <2>1, <3>4 DEF StampInv, CompletedIsStamped
  <2> QED BY <1>3, <2>2, <2>3 DEF Read, Finish
<1>4. ASSUME NEW c \in Callers, Write(c) PROVE StampInv'
  <2>1. call' = [call EXCEPT ![c] = NoCall]
    BY <1>4 DEF Write, Finish
  <2>2. WritesStamps'
    BY <1>4, <2>1, StampsStay DEF StampInv, WritesStamps, NoCall, Typed, CallOK
  <2>3. CompletedIsStamped'
    <3> SUFFICES ASSUME NEW ty \in Types, task'[ty].execution_status = "COMPLETE"
                 PROVE  \A f \in Stamps : task'[ty][f] # 0
      BY DEF CompletedIsStamped, Stamps
    <3> DEFINE fields == call[c].fields
    <3>1. \A f \in Stamps : f \in DOMAIN fields => fields[f] # 0
      BY Constants DEF Typed, CallOK, FieldsOK
    <3>2. CASE task[ty].execution_status = "COMPLETE"
      BY <1>4, <3>2, StampsStay DEF StampInv, CompletedIsStamped, Stamps
    <3>3. CASE task[ty].execution_status # "COMPLETE"
      <4>0. /\ ty = call[c].type
            /\ \A f \in Fields :
                 task'[ty][f] = IF f \in DOMAIN fields THEN fields[f] ELSE task[ty][f]
        BY <1>4, <3>3, Written
      <4>1. "execution_status" \in DOMAIN fields /\ fields.execution_status = "COMPLETE"
        BY <3>3, <4>0 DEF Fields
      <4>2. call[c].step = "write"
        BY <1>4 DEF Write
      <4>3. \A f \in Stamps : f \in DOMAIN fields \/ task[ty][f] # 0
        BY <4>0, <4>1, <4>2 DEF StampInv, WritesStamps
      <4>4. Stamps \subseteq Fields
        BY DEF Fields
      <4> QED BY <3>1, <4>0, <4>3, <4>4
    <3> QED BY <3>2, <3>3
  <2> QED BY <2>2, <2>3 DEF StampInv
<1> QED BY <1>1, <1>2, <1>3, <1>4 DEF Next

\* CompletedIsStamped: whatever calls race, a COMPLETE task has both its stamps.
THEOREM CompletionsStamped == Spec => []CompletedIsStamped
<1>1. Init => Typed /\ StampInv
  BY InitTyped, InitStamps
<1>2. Typed /\ StampInv /\ [Next]_vars => (Typed /\ StampInv)'
  BY StepTyped, StepStamps
<1>3. StampInv => CompletedIsStamped
  BY DEF StampInv
<1> QED BY <1>1, <1>2, <1>3, PTL DEF Spec

-----------------------------------------------------------------------------
(* A call that no other comes between *)

\* Its callers' checks still hold: the stamps it carries are for a task that is not
\* COMPLETE, and the status it writes is one the row may move to.
CarriesFor(k, t) ==
  /\ k.step # "idle" =>
       \A f \in Stamps : f \in DOMAIN k.fields => t.execution_status # "COMPLETE"
  /\ k.step = "write" /\ "execution_status" \in DOMAIN k.fields =>
       \/ k.fields.execution_status = t.execution_status
       \/ <<t.execution_status, k.fields.execution_status>> \in ALLOWED_TRANSITIONS

AloneInv == \A c \in alone : Quiet(c) /\ CarriesFor(call[c], task[call[c].type])

LEMMA InitAlone == Init => AloneInv
BY DEF Init, AloneInv

LEMMA StepAlone == Typed /\ StampInv /\ AloneInv /\ [Next]_vars => AloneInv'
<1> SUFFICES ASSUME Typed, StampInv, AloneInv, [Next]_vars PROVE AloneInv'
  OBVIOUS
<1>1. CASE Midnight \/ UNCHANGED vars
  BY <1>1 DEF Midnight, vars, AloneInv, CarriesFor, Quiet
<1>2. ASSUME NEW c \in Callers, Update(c) PROVE AloneInv'
  <2>1. PICK ty \in Types, fields \in Requests :
          call' = [call EXCEPT ![c] = [step |-> "read", type |-> ty, fields |-> fields]]
    BY <1>2 DEF Update
  <2>2. \A f \in Stamps : f \notin DOMAIN fields
    BY RequestsOK
  <2>3. CarriesFor(call'[c], task'[call'[c].type])
    BY <2>1, <2>2 DEF CarriesFor, Typed
  <2>4. alone' = {} \/ (alone' = {c} /\ Quiet(c)')
    BY <1>2, <2>1 DEF Update, Quiet, Typed
  <2> QED BY <2>3, <2>4 DEF AloneInv
<1>3. ASSUME NEW c \in Callers, Complete(c) PROVE AloneInv'
  <2>1. PICK ty \in Types :
          /\ task[ty].execution_status # "COMPLETE"
          /\ call' = [call EXCEPT ![c] =
               [step |-> "read", type |-> ty,
                fields |-> [execution_status |-> "COMPLETE", vendor_completed_at |-> today]]]
    BY <1>3 DEF Complete
  <2>2. call'[c].type = ty /\ call'[c].step = "read" /\ task' = task
    BY <1>3, <2>1 DEF Complete, Typed
  <2>3. CarriesFor(call'[c], task'[call'[c].type])
    BY <2>1, <2>2 DEF CarriesFor
  <2>4. alone' = {} \/ (alone' = {c} /\ Quiet(c)')
    BY <1>3, <2>1 DEF Complete, Quiet, Typed
  <2> QED BY <2>3, <2>4 DEF AloneInv
<1>4. ASSUME NEW c \in Callers, call[c].step # "idle", alone' = alone,
             NEW k, call' = [call EXCEPT ![c] = k],
             task' = task \/ k.step = "idle",
             c \in alone => CarriesFor(k, task'[k.type])
      PROVE  AloneInv'
  <2> SUFFICES ASSUME NEW d \in alone PROVE Quiet(d)' /\ CarriesFor(call'[d], task'[call'[d].type])
    BY <1>4 DEF AloneInv
  <2>1. d \in Callers /\ Quiet(d)
    BY DEF Typed, AloneInv
  <2>2. d = c
    BY <1>4, <2>1 DEF Quiet
  <2>3. call'[c] = k /\ \A e \in Callers \ {c} : call'[e] = call[e]
    BY <1>4 DEF Typed
  <2> QED BY <1>4, <2>1, <2>2, <2>3 DEF Quiet
<1>5. NoCall.step = "idle" /\ \A t : CarriesFor(NoCall, t)
  BY DEF NoCall, CarriesFor
<1>6. ASSUME NEW c \in Callers, Read(c) PROVE AloneInv'
  <2> DEFINE t == task[call[c].type]
             fields == call[c].fields
  <2>1. call[c].step = "read" /\ task' = task /\ alone' = alone
    BY <1>6 DEF Read
  <2>2. CASE call' = [call EXCEPT ![c] = NoCall]
    BY <1>4, <1>5, <2>1, <2>2
  <2>3. CASE /\ Accepted(t, fields)
             /\ call' = [call EXCEPT ![c].step = "write", ![c].fields = Stamped(t, @, today)]
    <3> DEFINE k == [step |-> "write", type |-> call[c].type, fields |-> Stamped(t, fields, today)]
    <3>1. call' = [call EXCEPT ![c] = k]
      <4>1. c \in DOMAIN call /\ DOMAIN call[c] = {"step", "type", "fields"}
        BY DEF Typed, CallOK
      <4>2. call'[c] = k
        BY <2>3, <4>1 DEF CallOK
      <4>3. call' = [call EXCEPT ![c] = call'[c]]
        BY <2>3, <4>1
      <4> HIDE DEF k
      <4> QED BY <4>2, <4>3
    <3>2. t \in Tasks /\ FieldsOK(fields) /\ today \in Days
      BY DEF Typed, CallOK
    <3>3. ASSUME c \in alone PROVE CarriesFor(k, t)
      <4>1. CarriesFor(call[c], t)
        BY <3>3 DEF AloneInv
      <4>2. \A f \in Stamps : f \in DOMAIN fields => t.execution_status # "COMPLETE"
        BY <2>1, <4>1 DEF CarriesFor
      <4>3. t.execution_status = "COMPLETE" => \A f \in Stamps : t[f] # 0
        BY DEF StampInv, CompletedIsStamped, Stamps, Typed, CallOK
      <4>4. \A f \in Stamps : f \in DOMAIN k.fields => f \in DOMAIN fields \/ t[f] = 0
        BY <3>2, StampedFields
      <4>5. "execution_status" \in DOMAIN k.fields =>
              /\ "execution_status" \in DOMAIN fields
              /\ k.fields.execution_status = fields.execution_status
        BY <3>2, StampedFields
      <4>6. "execution_status" \in DOMAIN fields =>
              \/ fields.execution_status = t.execution_status
              \/ <<t.execution_status, fields.execution_status>> \in ALLOWED_TRANSITIONS
        BY <2>3 DEF Accepted, Valid
      <4> HIDE DEF t, fields
      <4> QED BY <4>2, <4>3, <4>4, <4>5, <4>6 DEF CarriesFor
    <3>4. k.type = call[c].type
      OBVIOUS
    <3> HIDE DEF k
    <3> QED BY <1>4, <2>1, <3>1, <3>3, <3>4
  <2> QED BY <1>6, <2>2, <2>3 DEF Read, Finish
<1>7. ASSUME NEW c \in Callers, Write(c) \/ Fail(c) PROVE AloneInv'
  <2>1. call[c].step # "idle" /\ alone' = alone /\ call' = [call EXCEPT ![c] = NoCall]
    BY <1>7 DEF Write, Fail, Finish
  <2> QED BY <1>4, <1>5, <2>1
<1> QED BY <1>1, <1>2, <1>3, <1>6, <1>7 DEF Next

Inv == Typed /\ StampInv /\ AloneInv

LEMMA InvHolds == Spec => []Inv
<1>1. Init => Inv
  BY InitTyped, InitStamps, InitAlone DEF Inv
<1>2. Inv /\ [Next]_vars => Inv'
  BY StepTyped, StepStamps, StepAlone DEF Inv
<1> QED BY <1>1, <1>2, PTL DEF Spec

\* CompletedOnce: a call that no other comes between leaves the stamps of a
\* completed task as they are.
THEOREM CompletionsStay == Spec => CompletedOnce
<1>1. ASSUME Inv, NEW c \in alone, Write(c), NEW ty \in Types,
             task[ty].execution_status = "COMPLETE", NEW f \in Stamps
      PROVE  task'[ty][f] = task[ty][f]
  <2>1. c \in Callers /\ call[c].step = "write" /\ f \in Fields
    BY <1>1 DEF Inv, Typed, Write, Fields
  <2>2. f \in DOMAIN call[c].fields => task[call[c].type].execution_status # "COMPLETE"
    BY <1>1, <2>1 DEF Inv, AloneInv, CarriesFor
  <2>3. CASE task'[ty] # task[ty]
    <3>1. /\ ty = call[c].type
          /\ task'[ty][f] = IF f \in DOMAIN call[c].fields THEN call[c].fields[f] ELSE task[ty][f]
      BY <1>1, <2>1, <2>3, Written DEF Inv
    <3> QED BY <1>1, <2>2, <3>1
  <2> QED BY <2>3
<1>2. Inv => \A c \in alone : Write(c) =>
        \A ty \in Types : task[ty].execution_status = "COMPLETE" =>
          \A f \in {"vendor_completed_at", "completed_date"} : task'[ty][f] = task[ty][f]
  BY <1>1 DEF Stamps
<1> QED BY <1>2, InvHolds, PTL DEF CompletedOnce

\* ReadyStays: such a call takes a turnover out of READY only by making a task
\* required or blocking -- COMPLETE and SKIPPED have no way out.
THEOREM ReadinessStays == Spec => ReadyStays
<1>1. ASSUME Inv, NEW c \in alone, Write(c), NEW ty \in Types, IsDone(task[ty])
      PROVE  IsDone(task'[ty])
  <2>1. c \in Callers /\ call[c].step = "write" /\ "execution_status" \in Fields
    BY <1>1 DEF Inv, Typed, Write, Fields
  <2>2. CASE task'[ty] # task[ty]
    <3> DEFINE fields == call[c].fields
    <3>1. /\ ty = call[c].type
          /\ task'[ty]["execution_status"] =
               IF "execution_status" \in DOMAIN fields THEN fields["execution_status"]
               ELSE task[ty]["execution_status"]
      BY <1>1, <2>1, <2>2, Written DEF Inv
    <3>2. "execution_status" \in DOMAIN fields =>
            \/ fields.execution_status = task[ty].execution_status
            \/ <<task[ty].execution_status, fields.execution_status>> \in ALLOWED_TRANSITIONS
      BY <1>1, <2>1, <3>1 DEF Inv, AloneInv, CarriesFor
    <3>3. task'[ty].execution_status = task[ty].execution_status
      BY <1>1, <3>1, <3>2 DEF ALLOWED_TRANSITIONS, IsDone
    <3> QED BY <1>1, <3>3 DEF IsDone
  <2> QED BY <1>1, <2>2
<1>2. ASSUME Inv, NEW c \in alone, Write(c),
             ReadinessState(task) = "READY", ReadinessState(task') # "READY"
      PROVE  \E ty \in Blocking(task') : ty \notin Blocking(task)
  <2>1. DOMAIN task = Types /\ DOMAIN task' = Types /\ Types # {}
    <3>1. Typed
      BY <1>2 DEF Inv
    <3>2. task' = task \/ \E r : task' = [task EXCEPT ![call[c].type] = r]
      BY <1>2 DEF Write
    <3> QED BY <3>1, <3>2, Constants DEF Typed
  <2>2. \A ty \in Blocking(task) : IsDone(task[ty])
    BY <1>2 DEF ReadinessState
  <2>3. PICK ty \in Blocking(task') : ~IsDone(task'[ty])
    BY <1>2, <2>1 DEF ReadinessState
  <2>4. ty \in Types
    BY <2>1 DEF Blocking
  <2> QED BY <1>1, <1>2, <2>2, <2>3, <2>4
<1>3. Inv => \A c \in alone : Write(c) =>
        (ReadinessState(task) = "READY" /\ ReadinessState(task') # "READY" =>
           \E ty \in Blocking(task') : ty \notin Blocking(task))
  BY <1>2
<1> QED BY <1>3, InvHolds, PTL DEF ReadyStays
=============================================================================
