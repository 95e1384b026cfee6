--------------------------- MODULE FrontendProofs ---------------------------
(***************************************************************************)
(* Theorems about Frontend, for any dates, assignees, number of PATCHes    *)
(* under way at once and number of edits.                                  *)
(***************************************************************************)
EXTENDS Frontend, TLAPS

-----------------------------------------------------------------------------
(***************************************************************************)
(* Types                                                                   *)
(***************************************************************************)

\* What a PATCH may carry: fields of the row, each with a value the pages have.
\* A status is one that update_task knows, or is sent under a label's name.
Fields(fields) ==
  /\ fields = [f \in DOMAIN fields |-> fields[f]]
  /\ DOMAIN fields \subseteq DateFields \cup {"assignee", "execution_status"}
  /\ \A f \in DOMAIN fields \cap DateFields : fields[f] \in Dates
  /\ "assignee" \in DOMAIN fields => fields.assignee \in People

\* The edits of the Schedule that are not saved.
Pending(changes) ==
  /\ DOMAIN changes \subseteq {"assignee", "label"}
  /\ "assignee" \in DOMAIN changes => changes.assignee \in People

\* What the timer holds back: at most one field.
Held(edit) == edit = <<>> \/ \E f \in DateFields, d \in Dates : edit = Only(f, d)

\* What the Detail page's inputs hold.
Typed(inputs) ==
  /\ DOMAIN inputs \subseteq DateFields \cup {"assignee"}
  /\ \A f \in DOMAIN inputs \cap DateFields : inputs[f] \in Dates
  /\ "assignee" \in DOMAIN inputs => inputs.assignee \in People

LEMMA OneField == \A f, x : DOMAIN Only(f, x) = {f} /\ Only(f, x)[f] = x /\ Only(f, x) # <<>>
BY DEF Only

LEMMA NoField == DOMAIN <<>> = {} /\ Held(<<>>) /\ Typed(<<>>)
BY DEF Held, Typed

LEMMA HeldFields ==
  ASSUME NEW edit, Held(edit)
  PROVE  DOMAIN edit \subseteq DateFields /\ \A f \in DOMAIN edit : edit[f] \in Dates
<1>1. CASE edit = <<>>
  BY <1>1, NoField
<1>2. ASSUME NEW f \in DateFields, NEW d \in Dates, edit = Only(f, d)
      PROVE  DOMAIN edit = {f} /\ edit[f] = d
  BY <1>2, OneField
<1> QED BY <1>1, <1>2 DEF Held

\* A fetch of a query is under way to the server or back, or there is none.
Fetching(f) == f = Idle \/ f = Asked \/ (f = Read(f.row) /\ f.row \in Rows)

Datum(c) == c = [has |-> c.has, stale |-> c.stale, row |-> c.row] /\ c.row \in Rows

\* A mutation: none, or one that the API will take, has answered or has refused.
Mutation(s) ==
  s = Free \/ /\ s = [step |-> s.step, from |-> s.from, fields |-> s.fields]
              /\ s.step \in {"sent", "saved", "failed"}
              /\ s.from \in Pages /\ Fields(s.fields)

TypeInv ==
  /\ server \in Rows
  /\ cache = [k \in Keys |-> cache[k]] /\ \A k \in Keys : Datum(cache[k])
  /\ fetch = [k \in Keys |-> fetch[k]] /\ \A k \in Keys : Fetching(fetch[k])
  /\ sent = [m \in Slots |-> sent[m]] /\ \A m \in Slots : Mutation(sent[m])
  /\ page \in Pages /\ edits \in 0..MaxEdits
  /\ Pending(pending) /\ Held(timer) /\ Typed(form)
  /\ (timer # <<>> \/ DOMAIN form # {}) => page = "detail"

LEMMA KeyOfPage == \A p \in Pages : KeyOf(p) \in Keys
BY DEF Pages, Keys, KeyOf

LEMMA FetchSteps ==
  /\ Idle.step = "idle" /\ Asked.step = "asked" /\ Idle # Asked
  /\ \A row : Read(row).step = "read" /\ Read(row).row = row /\ Read(row) # Idle
  /\ \A row \in Rows : Fetching(Read(row))
  /\ Fetching(Idle) /\ Fetching(Asked)
BY DEF Idle, Asked, Read, Fetching

\* The row that update_task or patch_turnover leaves when it takes the fields.
LEMMA TakenRow ==
  ASSUME NEW row \in Rows, NEW fields, Fields(fields), Takes(row, fields)
  PROVE  Over(fields, row) \in Rows
<1> DEFINE now == Over(fields, row)
           all == {"move_out_date", "report_ready_date", "assignee", "execution_status"}
<1>1. /\ now = [f \in DOMAIN fields \cup DOMAIN row |-> IF f \in DOMAIN fields THEN fields[f] ELSE row[f]]
      /\ DOMAIN row = all
  BY DEF Over, Rows
<1>2. now = [f \in all |-> IF f \in DOMAIN fields THEN fields[f] ELSE row[f]]
  BY <1>1 DEF Fields, DateFields
<1>3. ASSUME "execution_status" \in DOMAIN fields PROVE fields.execution_status \in Statuses
  <2> DEFINE task == Over(row, [skip_allowed |-> FALSE, blocked_reason |-> FALSE])
  <2>1. task.execution_status = row.execution_status
    BY DEF Over, Rows
  <2>2. CASE fields.execution_status = task.execution_status
    BY <2>1, <2>2 DEF Rows
  <2>3. CASE <<task.execution_status, fields.execution_status>> \in ALLOWED_TRANSITIONS
    BY <2>3 DEF ALLOWED_TRANSITIONS, Statuses
  <2> HIDE DEF task
  <2> QED BY <1>3, <2>2, <2>3 DEF Takes, Accepted, Valid, task
<1> HIDE DEF now
<1>4. /\ now.move_out_date \in Dates /\ now.report_ready_date \in Dates
      /\ now.assignee \in People /\ now.execution_status \in Statuses
  BY <1>2, <1>3 DEF Fields, Rows, DateFields
<1>5. now = [move_out_date |-> now.move_out_date, report_ready_date |-> now.report_ready_date,
             assignee |-> now.assignee, execution_status |-> now.execution_status]
  BY <1>2
<1> QED BY <1>4, <1>5 DEF Rows, now

\* What each of the pages sends.
LEMMA FieldsSent ==
  /\ \A f \in DateFields, d \in Dates : Fields(Only(f, d))
  /\ \A d \in Dates : Fields([move_out_date |-> d])
  /\ \A x : Fields([execution_status |-> x])
  /\ \A who \in People : Fields([assignee |-> who])
  /\ \A row \in Rows : \A changes : Pending(changes) => Fields(SaveFields(row, changes))
<1>1. /\ \A d \in Dates : Fields([move_out_date |-> d])
      /\ \A x : Fields([execution_status |-> x])
      /\ \A who \in People : Fields([assignee |-> who])
  BY DEF Fields, DateFields
<1>0. \A f \in DateFields, d \in Dates : Fields(Only(f, d))
  BY DEF Fields, DateFields, Only
<1>2. ASSUME NEW row \in Rows, NEW changes, Pending(changes) PROVE Fields(SaveFields(row, changes))
  <2>1. Over(changes, row).assignee \in People
    BY <1>2 DEF Over, Rows, Pending
  <2> DEFINE who == Over(changes, row).assignee
             status == EXEC_REV[IF "label" \in DOMAIN changes THEN changes.label
                                ELSE ScheduleLabel(row.execution_status)]
  <2>2. SaveFields(row, changes) = [assignee |-> who, execution_status |-> status]
    BY DEF SaveFields
  <2> HIDE DEF who, status
  <2> QED BY <2>1, <2>2 DEF Fields, who, DateFields
<1> QED BY <1>0, <1>1, <1>2

\* What the user puts into an input, and what the assignee's shows.
LEMMA FormOver ==
  ASSUME NEW inputs, Typed(inputs)
  PROVE  /\ \A f \in DateFields, d \in Dates : Typed(Over(Only(f, d), inputs))
         /\ \A who \in People : Typed(Over([assignee |-> who], inputs))
<1>1. ASSUME NEW f \in DateFields, NEW d \in Dates PROVE Typed(Over(Only(f, d), inputs))
  <2> PICK new : new = Over(Only(f, d), inputs)
    OBVIOUS
  <2>1. DOMAIN new = {f} \cup DOMAIN inputs /\ \A g \in DOMAIN new : new[g] = IF g = f THEN d ELSE inputs[g]
    BY DEF Over, Only
  <2>2. Typed(new)
    BY <2>1 DEF Typed, DateFields
  <2> QED BY <2>2
<1>2. ASSUME NEW who \in People PROVE Typed(Over([assignee |-> who], inputs))
  <2> DEFINE new == Over([assignee |-> who], inputs)
  <2>1. /\ DOMAIN new = {"assignee"} \cup DOMAIN inputs
        /\ \A g \in DOMAIN new : new[g] = IF g = "assignee" THEN who ELSE inputs[g]
    BY DEF Over
  <2> HIDE DEF new
  <2>2. Typed(new)
    BY <2>1 DEF Typed, DateFields
  <2> QED BY <2>2 DEF new
<1> QED BY <1>1, <1>2

LEMMA ShownAssignee ==
  ASSUME TypeInv
  PROVE  Shown.assignee \in People
<1>1. Data \in Rows
  BY KeyOfPage DEF TypeInv, Datum, Data
<1>2. Shown.assignee = IF "assignee" \in DOMAIN form THEN form.assignee ELSE Data.assignee
  BY <1>1 DEF Shown, Over, Rows
<1> QED BY <1>1, <1>2 DEF TypeInv, Typed, Rows

LEMMA InitTypes == Init => TypeInv
<1> SUFFICES ASSUME Init PROVE TypeInv
  OBVIOUS
<1>1. (CHOOSE r \in Rows : TRUE) \in Rows /\ server \in Rows
  BY FrontendConstants DEF Init
<1>2. Datum(NoData)
  BY <1>1 DEF Datum, NoData
<1>3. page \in Pages /\ edits \in 0..MaxEdits /\ Pending(pending)
      /\ timer = <<>> /\ form = <<>>
  BY FrontendConstants DEF Init, Pages, Pending
<1>4. \A k \in Keys : Fetching(fetch[k])
  BY FetchSteps DEF Init
<1>5. \A m \in Slots : Mutation(sent[m])
  BY DEF Init, Mutation
<1> QED BY <1>1, <1>2, <1>3, <1>4, <1>5, NoField DEF Init, TypeInv

\* A PATCH is sent in a slot that is free.
LEMMA MutateTypes ==
  ASSUME TypeInv, NEW from \in Pages, NEW fields, Fields(fields), Mutate(from, fields)
  PROVE  /\ sent' = [m \in Slots |-> sent'[m]] /\ \A m \in Slots : Mutation(sent'[m])
         /\ \E m \in Slots : sent[m] = Free /\ sent'[m] # Free
         /\ \A m \in Slots : sent'[m] # Free => sent[m] # Free \/ sent'[m].from = from
<1>1. PICK m \in Slots :
        sent[m] = Free /\ sent' = [sent EXCEPT ![m] = [step |-> "sent", from |-> from, fields |-> fields]]
  BY DEF Mutate
<1> DEFINE new == [step |-> "sent", from |-> from, fields |-> fields]
<1>2. Mutation(new) /\ new # Free /\ new.from = from
  BY DEF Mutation, Free
<1> HIDE DEF new
<1>3. sent' = [sent EXCEPT ![m] = new]
  BY <1>1 DEF new
<1>4. \A n \in Slots : sent'[n] = IF n = m THEN new ELSE sent[n]
  BY <1>3 DEF TypeInv
<1>5. sent' = [n \in Slots |-> sent'[n]]
  BY <1>3 DEF TypeInv
<1> QED BY <1>1, <1>2, <1>4, <1>5 DEF TypeInv

\* A mutation is handled, lost or over.
LEMMA SentExcept ==
  ASSUME TypeInv, NEW m \in Slots, sent[m] # Free, NEW step \in {"sent", "saved", "failed"},
         sent' = [sent EXCEPT ![m].step = step]
  PROVE  /\ sent' = [n \in Slots |-> sent'[n]] /\ \A n \in Slots : Mutation(sent'[n])
         /\ \A n \in Slots : (sent'[n] = Free <=> sent[n] = Free) /\ (sent[n] # Free => sent'[n].from = sent[n].from)
<1>1. sent[m] = [step |-> sent[m].step, from |-> sent[m].from, fields |-> sent[m].fields]
      /\ sent[m].from \in Pages /\ Fields(sent[m].fields)
  BY DEF TypeInv, Mutation
<1> DEFINE new == [step |-> step, from |-> sent[m].from, fields |-> sent[m].fields]
<1>2. [sent[m] EXCEPT !.step = step] = new
  BY <1>1
<1>3. sent' = [sent EXCEPT ![m] = new]
  BY <1>2 DEF TypeInv
<1>4. Mutation(new) /\ new # Free /\ new.from = sent[m].from
  BY <1>1 DEF Mutation, Free
<1> HIDE DEF new
<1>5. \A n \in Slots : sent'[n] = IF n = m THEN new ELSE sent[n]
  BY <1>3 DEF TypeInv
<1>6. sent' = [n \in Slots |-> sent'[n]]
  BY <1>3 DEF TypeInv
<1> QED BY <1>4, <1>5, <1>6 DEF TypeInv

LEMMA SentOver ==
  ASSUME TypeInv, NEW m \in Slots, sent' = [sent EXCEPT ![m] = Free]
  PROVE  /\ sent' = [n \in Slots |-> sent'[n]] /\ \A n \in Slots : Mutation(sent'[n])
         /\ \A n \in Slots : sent'[n] = IF n = m THEN Free ELSE sent[n]
BY DEF TypeInv, Mutation

LEMMA Staled ==
  ASSUME NEW c, c = [has |-> c.has, stale |-> c.stale, row |-> c.row]
  PROVE  [c EXCEPT !.stale = TRUE] = [has |-> c.has, stale |-> TRUE, row |-> c.row]
<1> DEFINE h == c.has
           r == c.row
           yes == TRUE
<1>1. DOMAIN c = {"has", "stale", "row"} /\ c.has = h /\ c.row = r
  OBVIOUS
<1> HIDE DEF h, r, yes
<1>2. [c EXCEPT !.stale = yes] = [has |-> h, stale |-> yes, row |-> r]
  BY <1>1
<1> QED BY <1>2 DEF h, r, yes

\* invalidateQueries leaves the data, and asks for the query of the page again.
LEMMA Invalidates ==
  ASSUME TypeInv, NEW keys, Invalidate(keys)
  PROVE  /\ cache' = [k \in Keys |-> cache'[k]] /\ fetch' = [k \in Keys |-> fetch'[k]]
         /\ \A k \in Keys : /\ Datum(cache'[k]) /\ cache'[k].row = cache[k].row
                             /\ cache'[k].has = cache[k].has /\ Fetching(fetch'[k])
         /\ KeyOf(page) \in keys /\ cache[KeyOf(page)].has => fetch'[KeyOf(page)] = Asked
<1>1. ASSUME NEW k \in Keys
      PROVE  Datum(cache'[k]) /\ cache'[k].row = cache[k].row /\ cache'[k].has = cache[k].has
  <2> DEFINE c == cache[k]
  <2>1. c = [has |-> c.has, stale |-> c.stale, row |-> c.row] /\ c.row \in Rows
    BY DEF TypeInv, Datum
  <2> HIDE DEF c
  <2>2. [c EXCEPT !.stale = TRUE] = [has |-> c.has, stale |-> TRUE, row |-> c.row]
    BY <2>1, Staled
  <2>3. cache'[k] = IF k \in keys THEN [c EXCEPT !.stale = TRUE] ELSE c
    BY DEF Invalidate, c
  <2>4. CASE k \in keys
    BY <2>1, <2>2, <2>3, <2>4 DEF Datum, c
  <2>5. CASE k \notin keys
    BY <2>1, <2>3, <2>5 DEF Datum, c
  <2> QED BY <2>4, <2>5
<1>2. ASSUME NEW k \in Keys
      PROVE  fetch'[k] = IF k \in keys /\ k = KeyOf(page) THEN Refetched(k) ELSE fetch[k]
  BY DEF Invalidate
<1>3. ASSUME NEW k \in Keys PROVE Fetching(fetch'[k])
  BY <1>2, FetchSteps DEF Refetched, TypeInv
<1>4. ASSUME KeyOf(page) \in keys, cache[KeyOf(page)].has PROVE fetch'[KeyOf(page)] = Asked
  BY <1>2, <1>4, KeyOfPage DEF Refetched, TypeInv
<1>5. cache' = [k \in Keys |-> cache'[k]] /\ fetch' = [k \in Keys |-> fetch'[k]]
  BY DEF Invalidate
<1> QED BY <1>1, <1>3, <1>4, <1>5

LEMMA StepTypes == TypeInv /\ [Next]_vars => TypeInv'
<1> SUFFICES ASSUME TypeInv, [Next]_vars PROVE TypeInv'
  OBVIOUS
<1>0. KeyOf(page) \in Keys /\ "board" \in Keys /\ "turnover" \in Keys
      /\ "board" \in Pages /\ "detail" \in Pages /\ "schedule" \in Pages
  BY KeyOfPage DEF TypeInv, Keys, Pages
\* The steps of the queries.
<1>1. ASSUME NEW k \in Keys, Serve(k) \/ Receive(k) \/ FetchFails(k) \/ Age(k) PROVE TypeInv'
  <2>1. UNCHANGED <<server, sent, page, timer, form, pending, edits>>
    BY <1>1 DEF Serve, Receive, FetchFails, Age, screen, history
  <2>2. Fetching(fetch[k]) /\ Datum(cache[k])
    BY DEF TypeInv
  <2>3. CASE Serve(k)
    <3>1. UNCHANGED cache /\ fetch' = [fetch EXCEPT ![k] = Read(server)]
      BY <2>3 DEF Serve
    <3>2. Fetching(Read(server))
      BY FetchSteps DEF TypeInv
    <3> QED BY <2>1, <3>1, <3>2 DEF TypeInv
  <2>4. CASE Receive(k)
    <3> DEFINE new == [has |-> TRUE, stale |-> FALSE, row |-> fetch[k].row]
    <3>1. cache' = [cache EXCEPT ![k] = new] /\ fetch' = [fetch EXCEPT ![k] = Idle]
      BY <2>4 DEF Receive
    <3>2. fetch[k].row \in Rows
      BY <2>2, <2>4, FetchSteps DEF Receive, Fetching
    <3>3. Datum(new) /\ Fetching(Idle)
      BY <3>2, FetchSteps DEF Datum
    <3> HIDE DEF new
    <3> QED BY <2>1, <3>1, <3>3 DEF TypeInv
  <2>5. CASE FetchFails(k)
    <3>1. UNCHANGED cache /\ fetch' = [fetch EXCEPT ![k] = Idle]
      BY <2>5 DEF FetchFails
    <3> QED BY <2>1, <3>1, FetchSteps DEF TypeInv
  <2>6. CASE Age(k)
    <3> DEFINE c == cache[k]
               new == [c EXCEPT !.stale = TRUE]
    <3>1. UNCHANGED fetch /\ cache' = [cache EXCEPT ![k] = new]
      BY <2>6 DEF Age
    <3>2. Datum(new)
      <4>1. c = [has |-> c.has, stale |-> c.stale, row |-> c.row] /\ c.row \in Rows
        BY <2>2 DEF Datum
      <4> HIDE DEF c
      <4>2. new = [has |-> c.has, stale |-> TRUE, row |-> c.row]
        BY <4>1, Staled
      <4> HIDE DEF new
      <4> QED BY <4>1, <4>2 DEF Datum
    <3> HIDE DEF new
    <3> QED BY <2>1, <3>1, <3>2 DEF TypeInv
  <2> QED BY <1>1, <2>3, <2>4, <2>5, <2>6
\* The steps of the mutations.
<1>2. ASSUME NEW m \in Slots, Handle(m) PROVE TypeInv'
  <2> DEFINE ok == Takes(server, sent[m].fields)
  <2>1. /\ sent[m].step = "sent" /\ sent' = [sent EXCEPT ![m].step = IF ok THEN "saved" ELSE "failed"]
        /\ server' = IF ok THEN Over(sent[m].fields, server) ELSE server
        /\ UNCHANGED <<cache, fetch, page, timer, form, pending, edits>>
    BY <1>2 DEF Handle, screen
  <2>2. sent[m] # Free
    BY <2>1 DEF Free
  <2>3. Fields(sent[m].fields)
    BY <2>2 DEF TypeInv, Mutation
  <2>4. server' \in Rows
    BY <2>1, <2>3, TakenRow DEF TypeInv
  <2> DEFINE step == IF ok THEN "saved" ELSE "failed"
  <2>5. step \in {"sent", "saved", "failed"}
    OBVIOUS
  <2>6. sent' = [sent EXCEPT ![m].step = step]
    BY <2>1
  <2> HIDE DEF step, ok
  <2>7. sent' = [n \in Slots |-> sent'[n]] /\ \A n \in Slots : Mutation(sent'[n])
    BY <2>2, <2>5, <2>6, SentExcept
  <2> QED BY <2>1, <2>4, <2>7 DEF TypeInv
<1>3. ASSUME NEW m \in Slots, Lose(m) PROVE TypeInv'
  <2>1. /\ sent[m].step \in {"sent", "saved"} /\ sent' = [sent EXCEPT ![m].step = "failed"]
        /\ UNCHANGED <<server, cache, fetch, page, timer, form, pending, edits>>
    BY <1>3 DEF Lose, screen
  <2>2. sent[m] # Free
    BY <2>1 DEF Free
  <2>3. sent' = [n \in Slots |-> sent'[n]] /\ \A n \in Slots : Mutation(sent'[n])
    BY <2>1, <2>2, SentExcept
  <2> QED BY <2>1, <2>3 DEF TypeInv
<1>4. ASSUME NEW m \in Slots, Succeed(m) PROVE TypeInv'
  <2>1. /\ sent' = [sent EXCEPT ![m] = Free] /\ Invalidate(Invalidated(sent[m].from))
        /\ pending' = IF sent[m].from = "schedule" THEN <<>> ELSE pending
        /\ UNCHANGED <<server, page, timer, form, edits>>
    BY <1>4 DEF Succeed
  <2>2. /\ cache' = [k \in Keys |-> cache'[k]] /\ fetch' = [k \in Keys |-> fetch'[k]]
        /\ \A k \in Keys : Datum(cache'[k]) /\ Fetching(fetch'[k])
    BY <2>1, Invalidates
  <2>3. sent' = [n \in Slots |-> sent'[n]] /\ \A n \in Slots : Mutation(sent'[n])
    BY <2>1, SentOver
  <2>4. Pending(pending')
    BY <2>1 DEF TypeInv, Pending
  <2> QED BY <2>1, <2>2, <2>3, <2>4 DEF TypeInv
<1>5. ASSUME NEW m \in Slots, Error(m) PROVE TypeInv'
  <2>1. /\ sent' = [sent EXCEPT ![m] = Free]
        /\ UNCHANGED <<server, cache, fetch, page, timer, form, pending, edits>>
    BY <1>5 DEF Error, screen
  <2>2. sent' = [n \in Slots |-> sent'[n]] /\ \A n \in Slots : Mutation(sent'[n])
    BY <2>1, SentOver
  <2> QED BY <2>1, <2>2 DEF TypeInv
\* The user.
<1>6. ASSUME NEW p \in Pages, Navigate(p) PROVE TypeInv'
  <2>1. /\ page' = p /\ timer' = <<>> /\ form' = <<>> /\ pending' = <<>>
        /\ fetch' = [fetch EXCEPT ![KeyOf(p)] = Asked] \/ fetch' = fetch
        /\ UNCHANGED <<server, cache, sent, edits>>
    BY <1>6 DEF Navigate
  <2>2. KeyOf(p) \in Keys
    BY KeyOfPage
  <2>3. Pending(pending')
    BY <2>1 DEF Pending
  <2>4. fetch' = [k \in Keys |-> fetch'[k]] /\ \A k \in Keys : Fetching(fetch'[k])
    BY <2>1, <2>2, FetchSteps DEF TypeInv
  <2> QED BY <2>1, <2>3, <2>4, NoField DEF TypeInv
<1>7. ASSUME Edit PROVE edits' \in 0..MaxEdits
  BY <1>7, FrontendConstants DEF Edit, TypeInv
<1>8. ASSUME NEW from \in Pages, NEW fields, Fields(fields), Mutate(from, fields),
             UNCHANGED <<server, fetch, page, pending>>,
             UNCHANGED cache \/ \E d \in Dates : cache' = [cache EXCEPT !["board"].row.move_out_date = d],
             timer' \in {timer, <<>>}, edits' \in 0..MaxEdits,
             Typed(form'), DOMAIN form' # {} => page = "detail"
      PROVE  TypeInv'
  <2>1. sent' = [n \in Slots |-> sent'[n]] /\ \A n \in Slots : Mutation(sent'[n])
    BY <1>8, MutateTypes
  <2>2. cache' = [k \in Keys |-> cache'[k]] /\ \A k \in Keys : Datum(cache'[k])
    <3>1. ASSUME NEW d \in Dates, cache' = [cache EXCEPT !["board"].row.move_out_date = d]
          PROVE  cache' = [k \in Keys |-> cache'[k]] /\ \A k \in Keys : Datum(cache'[k])
      <4> DEFINE c == cache["board"]
                 row == c.row
                 newRow == [row EXCEPT !.move_out_date = d]
                 new == [c EXCEPT !.row = newRow]
      <4>1. c = [has |-> c.has, stale |-> c.stale, row |-> row] /\ row \in Rows
        BY <1>0 DEF TypeInv, Datum
      <4>2. newRow \in Rows
        BY <4>1 DEF Rows
      <4>3. Datum(new)
        <5> HIDE DEF newRow, row, c
        <5>1. DOMAIN c = {"has", "stale", "row"}
          BY <4>1
        <5> QED BY <4>1, <4>2, <5>1 DEF Datum
      <4>4. cache' = [cache EXCEPT !["board"] = new]
        BY <3>1
      <4> HIDE DEF new
      <4> QED BY <1>0, <4>3, <4>4 DEF TypeInv
    <3> QED BY <1>8, <3>1 DEF TypeInv
  <2> QED BY <1>8, <2>1, <2>2, NoField DEF TypeInv
<1>17. Typed(form) /\ (DOMAIN form # {} => page = "detail")
  BY DEF TypeInv
<1>9. CASE EditCell
  <2>1. PICK d \in Dates : /\ cache' = [cache EXCEPT !["board"].row.move_out_date = d]
                           /\ Mutate("board", [move_out_date |-> d])
    BY <1>9 DEF EditCell
  <2>2. Edit /\ UNCHANGED <<server, fetch, page, timer, form, pending>>
    BY <1>9 DEF EditCell, screen
  <2> QED BY <1>0, <1>7, <1>8, <1>17, <2>1, <2>2, FieldsSent
<1>10. CASE EditTaskCell
  <2>1. PICK l \in EXEC_LABELS : Mutate("board", [execution_status |-> EXEC_REV[l]])
    BY <1>10 DEF EditTaskCell
  <2>2. Edit /\ UNCHANGED <<server, cache, fetch, page, timer, form, pending>>
    BY <1>10 DEF EditTaskCell, screen
  <2> QED BY <1>0, <1>7, <1>8, <1>17, <2>1, <2>2, FieldsSent
<1>11. CASE TypeDate
  <2>1. PICK f \in DateFields, d \in Dates : timer' = Only(f, d) /\ form' = Over(Only(f, d), form)
    BY <1>11 DEF TypeDate
  <2>2. page = "detail" /\ Edit /\ UNCHANGED <<server, cache, fetch, sent, page, pending>>
    BY <1>11 DEF TypeDate
  <2>3. Typed(form') /\ Held(timer')
    BY <2>1, FormOver DEF TypeInv, Held
  <2> QED BY <1>7, <2>2, <2>3 DEF TypeInv
<1>12. CASE Fire
  <2>1. /\ timer # <<>> /\ timer' = <<>> /\ Mutate("detail", timer)
        /\ UNCHANGED <<server, cache, fetch, page, form, pending, edits>>
    BY <1>12 DEF Fire
  <2>2. Fields(timer) /\ edits' \in 0..MaxEdits
    BY <2>1, FieldsSent DEF TypeInv, Held
  <2>3. Typed(form') /\ (DOMAIN form' # {} => page = "detail")
    BY <2>1 DEF TypeInv
  <2> QED BY <1>0, <1>8, <2>1, <2>2, <2>3
<1>13. CASE SelectExecution
  <2>1. \E fields : Fields(fields) /\ Mutate("detail", fields)
    BY <1>13, FieldsSent DEF SelectExecution
  <2>2. Edit /\ UNCHANGED <<server, cache, fetch, page, timer, form, pending>>
    BY <1>13 DEF SelectExecution, screen
  <2> QED BY <1>0, <1>7, <1>8, <1>17, <2>1, <2>2
<1>18. CASE BlurAssignee
  <2>1. page = "detail" /\ Edit /\ UNCHANGED <<server, cache, fetch, page, timer, pending>>
    BY <1>18 DEF BlurAssignee
  <2>2. CASE Mutate("detail", [assignee |-> Shown.assignee]) /\ UNCHANGED form
    <3>1. Fields([assignee |-> Shown.assignee])
      BY FieldsSent, ShownAssignee
    <3> QED BY <1>0, <1>7, <1>8, <1>17, <2>1, <2>2, <3>1
  <2>3. ASSUME NEW who \in People, Mutate("detail", [assignee |-> who]),
               form' = Over([assignee |-> who], form)
        PROVE  TypeInv'
    <3>1. Fields([assignee |-> who]) /\ Typed(form')
      BY <2>3, FieldsSent, FormOver DEF TypeInv
    <3> QED BY <1>0, <1>7, <1>8, <2>1, <2>3, <3>1
  <2> QED BY <1>18, <2>2, <2>3 DEF BlurAssignee
<1>14. CASE UpdateRow
  <2>1. /\ Edit /\ UNCHANGED <<server, cache, fetch, sent, page, timer, form>>
        /\ \/ \E who \in People : pending' = Over([assignee |-> who], pending)
           \/ \E l \in EXEC_LABELS : pending' = Over([label |-> l], pending)
    BY <1>14 DEF UpdateRow
  <2>2. Pending(pending')
    <3>1. ASSUME NEW who \in People, pending' = Over([assignee |-> who], pending) PROVE Pending(pending')
      BY <3>1 DEF Over, Pending, TypeInv
    <3>2. ASSUME NEW l, pending' = Over([label |-> l], pending) PROVE Pending(pending')
      BY <3>2 DEF Over, Pending, TypeInv
    <3> QED BY <2>1, <3>1, <3>2
  <2> QED BY <1>7, <2>1, <2>2 DEF TypeInv
<1>15. CASE BatchSave
  <2> DEFINE fields == SaveFields(cache["board"].row, pending)
  <2>1. /\ Mutate("schedule", fields)
        /\ UNCHANGED <<server, cache, fetch, page, timer, form, pending, edits>>
    BY <1>15 DEF BatchSave, screen
  <2>2. Fields(fields) /\ edits' \in 0..MaxEdits
    BY <1>0, <2>1, FieldsSent DEF TypeInv, Datum
  <2> HIDE DEF fields
  <2> QED BY <1>0, <1>8, <1>17, <2>1, <2>2
<1>16. CASE Settle \/ UNCHANGED vars
  <2>1. UNCHANGED <<server, cache, fetch, sent, page, timer, form, pending, edits>>
    BY <1>16 DEF Settle, vars, screen
  <2> QED BY <2>1 DEF TypeInv
<1> QED BY <1>1, <1>2, <1>3, <1>4, <1>5, <1>6, <1>9, <1>10, <1>11, <1>12, <1>13, <1>14, <1>15, <1>16,
        <1>18 DEF Next

-----------------------------------------------------------------------------
(***************************************************************************)
(* The page follows the server                                             *)
(***************************************************************************)

AllFree == \A m \in Slots : sent[m] = Free

\* What is on its way to the page, once its mutations are over, is the server's
\* state, or a fetch that has yet to read it: a save that succeeds drops the fetch
\* that may have been read before it, and one that does not ends the history.
Follows ==
  LET k == KeyOf(page)
  IN  /\ cache[k].has
      /\ \A m \in Slots : sent[m] # Free => sent[m].from = page
      /\ AllFree => \/ fetch[k] = Asked
                    \/ fetch[k] = Read(server)
                    \/ fetch[k] = Idle /\ cache[k].row = server

FollowInv == steady => Follows

LEMMA StepFollows == TypeInv /\ FollowInv /\ [Next]_vars => FollowInv'
<1> SUFFICES ASSUME TypeInv, FollowInv, [Next]_vars, steady' PROVE Follows'
  BY DEF FollowInv
<1> DEFINE k == KeyOf(page)
<1>0. k \in Keys
  BY KeyOfPage DEF TypeInv
<1>1. CASE Settle
  <2>1. /\ Settled /\ cache[k].has /\ cache[k].row = server
        /\ UNCHANGED <<server, cache, fetch, sent, page>>
    BY <1>1 DEF Settle, Data, screen
  <2> QED BY <2>1 DEF Follows, Settled, AllFree
<1>2. CASE UNCHANGED vars
  BY <1>2 DEF FollowInv, Follows, AllFree, vars
<1>3. ASSUME NEW j \in Keys, FetchFails(j) PROVE FALSE
  BY <1>3 DEF FetchFails
<1>4. ASSUME NEW m \in Slots, Error(m) PROVE FALSE
  BY <1>4 DEF Error
<1>5. ASSUME NEW p \in Pages, Navigate(p) PROVE FALSE
  BY <1>5 DEF Navigate
<1>6. ASSUME UNCHANGED steady PROVE Follows
  BY <1>6 DEF FollowInv
<1> HIDE DEF k
<1>7. ASSUME NEW j \in Keys, Serve(j) \/ Receive(j) \/ Age(j) PROVE Follows'
  <2>1. UNCHANGED <<server, sent, page, steady>>
    BY <1>7 DEF Serve, Receive, Age, screen, history
  <2>2. Follows
    BY <1>6, <2>1
  <2>3. CASE Serve(j)
    <3>1. UNCHANGED cache /\ fetch[j] = Asked /\ fetch' = [fetch EXCEPT ![j] = Read(server)]
      BY <2>3 DEF Serve
    <3>2. fetch'[k] = IF k = j THEN Read(server) ELSE fetch[k]
      BY <1>0, <3>1 DEF TypeInv
    <3> QED BY <2>1, <2>2, <3>1, <3>2 DEF Follows, AllFree, k
  <2>4. CASE Receive(j)
    <3> DEFINE new == [has |-> TRUE, stale |-> FALSE, row |-> fetch[j].row]
    <3>1. /\ fetch[j].step = "read" /\ fetch' = [fetch EXCEPT ![j] = Idle]
          /\ cache' = [cache EXCEPT ![j] = new]
      BY <2>4 DEF Receive
    <3>2. new.has /\ new.row = fetch[j].row
      OBVIOUS
    <3> HIDE DEF new
    <3>3. CASE k = j
      <4>1. fetch'[k] = Idle /\ cache'[k] = new
        BY <1>0, <3>1, <3>3 DEF TypeInv
      <4>2. AllFree => fetch[k].row = server
        BY <2>2, <3>1, <3>3, FetchSteps DEF Follows, k
      <4> QED BY <2>1, <2>2, <3>2, <3>3, <4>1, <4>2 DEF Follows, AllFree, k
    <3>4. CASE k # j
      <4>1. fetch'[k] = fetch[k] /\ cache'[k] = cache[k]
        BY <1>0, <3>1, <3>4 DEF TypeInv
      <4> QED BY <2>1, <2>2, <4>1 DEF Follows, AllFree, k
    <3> QED BY <3>3, <3>4
  <2>5. CASE Age(j)
    <3>1. UNCHANGED fetch /\ cache' = [cache EXCEPT ![j].stale = TRUE]
      BY <2>5 DEF Age
    <3>2. cache'[k].has = cache[k].has /\ cache'[k].row = cache[k].row
      <4> DEFINE c == cache[j]
      <4>1. c = [has |-> c.has, stale |-> c.stale, row |-> c.row]
        BY DEF TypeInv, Datum
      <4> DEFINE new == [c EXCEPT !.stale = TRUE]
      <4>2. new = [has |-> c.has, stale |-> TRUE, row |-> c.row]
        <5> HIDE DEF c
        <5> QED BY <4>1, Staled
      <4>3. cache' = [cache EXCEPT ![j] = new]
        BY <3>1
      <4>4. new.has = c.has /\ new.row = c.row
        BY <4>2
      <4> HIDE DEF new
      <4> QED BY <1>0, <4>3, <4>4 DEF TypeInv
    <3> QED BY <2>1, <2>2, <3>1, <3>2 DEF Follows, AllFree, k
  <2> QED BY <1>7, <2>3, <2>4, <2>5
<1>8. ASSUME NEW m \in Slots, Handle(m) \/ Lose(m) PROVE Follows'
  <2>1. UNCHANGED <<cache, fetch, page, steady>>
    BY <1>8 DEF Handle, Lose, screen, history
  <2>2. Follows
    BY <1>6, <2>1
  <2>3. sent[m] # Free /\ \E step \in {"sent", "saved", "failed"} : sent' = [sent EXCEPT ![m].step = step]
    <3>1. CASE Handle(m)
      <4> DEFINE step == IF Takes(server, sent[m].fields) THEN "saved" ELSE "failed"
      <4>1. sent[m].step = "sent" /\ sent' = [sent EXCEPT ![m].step = step]
        BY <3>1 DEF Handle
      <4>2. step \in {"sent", "saved", "failed"}
        OBVIOUS
      <4> HIDE DEF step
      <4>3. sent[m] # Free
        BY <4>1 DEF Free
      <4> QED BY <4>1, <4>2, <4>3, Zenon
    <3>2. CASE Lose(m)
      BY <3>2 DEF Lose, Free
    <3> QED BY <1>8, <3>1, <3>2
  <2>4. PICK step \in {"sent", "saved", "failed"} : sent' = [sent EXCEPT ![m].step = step]
    BY <2>3
  <2>5. \A n \in Slots : /\ sent'[n] = Free <=> sent[n] = Free
                         /\ sent[n] # Free => sent'[n].from = sent[n].from
    BY <2>3, <2>4, SentExcept
  <2> QED BY <2>1, <2>2, <2>3, <2>5 DEF Follows, AllFree
<1>9. ASSUME NEW m \in Slots, Succeed(m) PROVE Follows'
  <2>1. /\ sent' = [sent EXCEPT ![m] = Free] /\ Invalidate(Invalidated(sent[m].from))
        /\ sent[m].step = "saved" /\ UNCHANGED <<server, page, steady>>
    BY <1>9 DEF Succeed, history
  <2>2. Follows
    BY <1>6, <2>1
  <2>3. sent[m] # Free
    BY <2>1 DEF Free
  <2>4. k \in Invalidated(sent[m].from)
    <3>1. sent[m].from = page /\ page \in Pages
      BY <2>2, <2>3 DEF Follows, TypeInv
    <3> QED BY <1>0, <3>1 DEF Invalidated, k, KeyOf, Pages
  <2>5. cache[k].has
    BY <2>2 DEF Follows, k
  <2>6. fetch'[k] = Asked /\ cache'[k].has
    BY <1>0, <2>1, <2>4, <2>5, Invalidates DEF k
  <2>7. \A n \in Slots : sent'[n] = IF n = m THEN Free ELSE sent[n]
    BY <2>1, SentOver
  <2> QED BY <2>1, <2>2, <2>6, <2>7 DEF Follows, k
<1>10. ASSUME NEW fields, Fields(fields), Mutate(page, fields), UNCHANGED <<page, steady>>,
              cache'[k].has = cache[k].has
       PROVE  Follows'
  <2>1. Follows
    BY <1>6, <1>10
  <2>2. page \in Pages
    BY DEF TypeInv
  <2>3. /\ \E m \in Slots : sent'[m] # Free
        /\ \A m \in Slots : sent'[m] # Free => sent[m] # Free \/ sent'[m].from = page
        /\ \A m \in Slots : sent[m] # Free => sent'[m] = sent[m]
    <3>1. \A m \in Slots : sent[m] # Free => sent'[m] = sent[m]
      BY <1>10 DEF Mutate, TypeInv
    <3> QED BY <1>10, <2>2, <3>1, MutateTypes
  <2> QED BY <1>10, <2>1, <2>3 DEF Follows, AllFree, k
<1>11. CASE EditCell
  <2>1. PICK d \in Dates : /\ cache' = [cache EXCEPT !["board"].row.move_out_date = d]
                           /\ Mutate("board", [move_out_date |-> d])
    BY <1>11 DEF EditCell
  <2>2. page = "board" /\ UNCHANGED <<page, steady>>
    BY <1>11 DEF EditCell, screen, history
  <2>3. cache'[k].has = cache[k].has
    <3> DEFINE c == cache["board"]
               row == [c.row EXCEPT !.move_out_date = d]
               new == [c EXCEPT !.row = row]
    <3>1. c = [has |-> c.has, stale |-> c.stale, row |-> c.row]
      BY DEF TypeInv, Datum, Keys
    <3>2. new.has = c.has
      <4> HIDE DEF row, c
      <4> QED BY <3>1
    <3>3. cache' = [cache EXCEPT !["board"] = new]
      BY <2>1
    <3> HIDE DEF new
    <3> QED BY <1>0, <3>2, <3>3 DEF TypeInv
  <2> QED BY <1>10, <2>1, <2>2, <2>3, FieldsSent
<1>12. CASE EditTaskCell
  <2>1. PICK l \in EXEC_LABELS : Mutate("board", [execution_status |-> EXEC_REV[l]])
    BY <1>12 DEF EditTaskCell
  <2>2. page = "board" /\ UNCHANGED <<cache, page, steady>>
    BY <1>12 DEF EditTaskCell, screen, history
  <2> QED BY <1>10, <2>1, <2>2, FieldsSent
<1>13. CASE TypeDate \/ UpdateRow
  <2>1. UNCHANGED <<server, cache, fetch, sent, page, steady>>
    BY <1>13 DEF TypeDate, UpdateRow, history
  <2> QED BY <1>6, <2>1 DEF Follows, AllFree
<1>14. CASE Fire
  <2>1. timer # <<>> /\ Mutate("detail", timer) /\ UNCHANGED <<cache, page, steady>>
    BY <1>14 DEF Fire, history
  <2>2. page = "detail" /\ Fields(timer)
    BY <2>1, FieldsSent DEF TypeInv, Held
  <2> QED BY <1>10, <2>1, <2>2
<1>15. CASE SelectExecution \/ BlurAssignee
  <2>1. \E fields : Fields(fields) /\ Mutate("detail", fields)
    BY <1>15, FieldsSent, ShownAssignee DEF SelectExecution, BlurAssignee
  <2>2. page = "detail" /\ UNCHANGED <<cache, page, steady>>
    BY <1>15 DEF SelectExecution, BlurAssignee, screen, history
  <2> QED BY <1>10, <2>1, <2>2
<1>16. CASE BatchSave
  <2> DEFINE fields == SaveFields(cache["board"].row, pending)
  <2>1. page = "schedule" /\ Mutate("schedule", fields) /\ UNCHANGED <<cache, page, steady>>
    BY <1>16 DEF BatchSave, screen, history
  <2>2. Fields(fields)
    BY FieldsSent DEF TypeInv, Datum, Keys
  <2> HIDE DEF fields
  <2> QED BY <1>10, <2>1, <2>2
<1> QED BY <1>1, <1>2, <1>3, <1>4, <1>5, <1>7, <1>8, <1>9, <1>11, <1>12, <1>13, <1>14, <1>15, <1>16
        DEF Next

\* TypeOK: whatever the pages send, with answers in any order, no PATCH leaves the
\* task with a status that update_task does not know (validate_status_transition).
THEOREM FrontendTypes == Spec => []TypeOK
<1>1. TypeInv => TypeOK
  BY HeldFields DEF TypeInv, TypeOK, Datum, Mutation
<1> QED BY <1>1, InitTypes, StepTypes, PTL DEF Spec

-----------------------------------------------------------------------------
(* The inputs of the Detail page *)

\* A PATCH that has yet to be handled, or has failed, carries what the input has.
Sends(s, f, x) == s.step \in {"sent", "failed"} /\ f \in DOMAIN s.fields /\ s.fields[f] = x

\* Every PATCH of the field still to be handled carries what the input has, and
\* either one is under way, or the timer holds it, or the server has it.
Right(f) ==
  /\ \A m \in Slots : sent[m].step = "sent" /\ f \in DOMAIN sent[m].fields => sent[m].fields[f] = form[f]
  /\ \/ f \in DOMAIN timer
     \/ server[f] = form[f]
     \/ \E m \in Slots : Sends(sent[m], f, form[f])

InputInv ==
  /\ \A f \in DOMAIN timer : f \in DOMAIN form /\ timer[f] = form[f]
  /\ steady => \A f \in DOMAIN form \ raced : Right(f)

LEMMA FreeSendsNothing == Free.step = "free" /\ \A f, x : ~Sends(Free, f, x)
BY DEF Free, Sends

\* An answer, or the lack of one, leaves the fields of the PATCH and the others alone.
LEMMA AnswerLeaves ==
  ASSUME TypeInv, NEW m \in Slots, sent[m] # Free, NEW step, sent' = [sent EXCEPT ![m].step = step]
  PROVE  /\ \A n \in Slots : n # m => sent'[n] = sent[n]
         /\ sent'[m].step = step /\ sent'[m].from = sent[m].from /\ sent'[m].fields = sent[m].fields
<1>1. sent[m] = [step |-> sent[m].step, from |-> sent[m].from, fields |-> sent[m].fields]
  BY DEF TypeInv, Mutation
<1> DEFINE new == [step |-> step, from |-> sent[m].from, fields |-> sent[m].fields]
<1>2. sent' = [sent EXCEPT ![m] = new]
  <2>1. [sent[m] EXCEPT !.step = step] = new
    BY <1>1
  <2> QED BY <2>1 DEF TypeInv
<1>3. new.step = step /\ new.from = sent[m].from /\ new.fields = sent[m].fields
  OBVIOUS
<1> HIDE DEF new
<1>4. \A n \in Slots : sent'[n] = IF n = m THEN new ELSE sent[n]
  BY <1>2 DEF TypeInv
<1> QED BY <1>3, <1>4

\* A new PATCH takes a slot that was free.
LEMMA MutateAdds ==
  ASSUME TypeInv, NEW from, NEW fields, Mutate(from, fields)
  PROVE  \E m \in Slots :
           /\ sent[m] = Free /\ \A n \in Slots \ {m} : sent'[n] = sent[n]
           /\ sent'[m].step = "sent" /\ sent'[m].from = from /\ sent'[m].fields = fields
<1> DEFINE new == [step |-> "sent", from |-> from, fields |-> fields]
<1>1. PICK m \in Slots : sent[m] = Free /\ sent' = [sent EXCEPT ![m] = new]
  BY DEF Mutate
<1>2. new.step = "sent" /\ new.from = from /\ new.fields = fields
  OBVIOUS
<1> HIDE DEF new
<1>3. \A n \in Slots : sent'[n] = IF n = m THEN new ELSE sent[n]
  BY <1>1 DEF TypeInv
<1> QED BY <1>1, <1>2, <1>3

\* What is right stays so, but for a change of the input.
LEMMA RightStays ==
  ASSUME TypeInv, NEW f, Right(f), form'[f] = form[f],
         UNCHANGED <<server, sent>>, f \in DOMAIN timer => f \in DOMAIN timer'
  PROVE  Right(f)'
BY DEF Right, Sends

LEMMA RightMutates ==
  ASSUME TypeInv, NEW f, Right(f), form'[f] = form[f], NEW from, NEW fields, Mutate(from, fields),
         UNCHANGED server,
         f \in DOMAIN fields => fields[f] = form[f],
         f \in DOMAIN timer => f \in DOMAIN timer' \/ f \in DOMAIN fields
  PROVE  Right(f)'
<1>1. PICK m \in Slots :
        /\ sent[m] = Free /\ \A n \in Slots \ {m} : sent'[n] = sent[n]
        /\ sent'[m].step = "sent" /\ sent'[m].from = from /\ sent'[m].fields = fields
  BY MutateAdds
<1>2. \A n \in Slots : sent'[n].step = "sent" /\ f \in DOMAIN sent'[n].fields => sent'[n].fields[f] = form'[f]
  BY <1>1 DEF Right
<1>3. ASSUME NEW n \in Slots, Sends(sent[n], f, form[f]) PROVE Sends(sent'[n], f, form'[f])
  BY <1>1, <1>3, FreeSendsNothing
<1>4. f \in DOMAIN fields => Sends(sent'[m], f, form'[f])
  BY <1>1 DEF Sends
<1> QED BY <1>2, <1>3, <1>4 DEF Right

LEMMA HandleKeepsRight ==
  ASSUME TypeInv, NEW m \in Slots, Handle(m), NEW f \in DOMAIN form, Right(f)
  PROVE  Right(f)'
<1> DEFINE fields == sent[m].fields
           ok == Takes(server, fields)
           step == IF ok THEN "saved" ELSE "failed"
<1>1. /\ sent[m].step = "sent" /\ sent' = [sent EXCEPT ![m].step = step]
      /\ server' = IF ok THEN Over(fields, server) ELSE server
      /\ UNCHANGED <<timer, form>>
  BY DEF Handle, screen
<1>2. sent[m] # Free
  BY <1>1 DEF Free
<1>3. /\ \A n \in Slots : n # m => sent'[n] = sent[n]
      /\ sent'[m].step = step /\ sent'[m].fields = fields
  <2> HIDE DEF step
  <2> QED BY <1>1, <1>2, AnswerLeaves
<1>4. f \in DOMAIN server
  BY DEF TypeInv, Typed, Rows, DateFields
<1>5. Over(fields, server)[f] = IF f \in DOMAIN fields THEN fields[f] ELSE server[f]
  BY <1>4 DEF Over
<1>6. f \in DOMAIN fields => fields[f] = form[f]
  BY <1>1 DEF Right
<1> HIDE DEF fields, ok
<1>7. \A n \in Slots : sent'[n].step = "sent" /\ f \in DOMAIN sent'[n].fields => sent'[n].fields[f] = form'[f]
  BY <1>1, <1>3 DEF Right
<1>8. CASE f \in DOMAIN fields
  <2>1. ok => server'[f] = form'[f]
    BY <1>1, <1>5, <1>6, <1>8
  <2>2. ~ok => Sends(sent'[m], f, form'[f])
    BY <1>1, <1>3, <1>6, <1>8 DEF Sends
  <2> QED BY <1>7, <2>1, <2>2 DEF Right
<1>9. CASE f \notin DOMAIN fields
  <2>1. server'[f] = server[f]
    BY <1>1, <1>5, <1>9
  <2>2. ASSUME NEW n \in Slots, Sends(sent[n], f, form[f]) PROVE Sends(sent'[n], f, form'[f])
    BY <1>1, <1>3, <1>9, <2>2 DEF Sends, fields
  <2> QED BY <1>1, <1>7, <2>1, <2>2 DEF Right
<1> QED BY <1>8, <1>9

LEMMA TypeDateKeepsRight ==
  ASSUME TypeInv, InputInv, TypeDate
  PROVE  InputInv'
<1>1. PICK f \in DateFields, d \in Dates :
        /\ timer' = Only(f, d) /\ form' = Over(Only(f, d), form)
        /\ Race((DOMAIN timer \ {f}) \cup Overtaken(f))
  BY DEF TypeDate
<1>2. UNCHANGED <<server, sent, steady>>
  BY DEF TypeDate
<1>3. /\ DOMAIN form' = {f} \cup DOMAIN form /\ form'[f] = d /\ DOMAIN timer' = {f} /\ timer'[f] = d
      /\ \A g \in DOMAIN form' : g # f => form'[g] = form[g]
  <2>1. DOMAIN form' = {f} \cup DOMAIN form /\ \A g \in DOMAIN form' : form'[g] = IF g = f THEN d ELSE form[g]
    BY <1>1 DEF Over, Only
  <2>2. DOMAIN timer' = {f} /\ timer'[f] = d
    BY <1>1, OneField, Zenon
  <2> QED BY <2>1, <2>2
<1>4. ASSUME steady, NEW g \in DOMAIN form' \ raced' PROVE Right(g)'
  <2>1. g \notin raced /\ g \notin DOMAIN timer \ {f} /\ g \notin Overtaken(f)
    BY <1>1, <1>4 DEF Race
  <2>2. CASE g = f
    <3>1. \A m \in Slots : sent[m] # Free => f \notin DOMAIN sent[m].fields
      BY <2>1, <2>2 DEF Overtaken
    <3>2. \A m \in Slots : sent'[m].step = "sent" => f \notin DOMAIN sent'[m].fields
      BY <1>2, <3>1, FreeSendsNothing
    <3> QED BY <1>3, <2>2, <3>2 DEF Right
  <2>3. CASE g # f
    <3>1. Right(g) /\ g \notin DOMAIN timer /\ form'[g] = form[g]
      BY <1>3, <1>4, <2>1, <2>3 DEF InputInv
    <3> QED BY <1>2, <3>1, RightStays
  <2> QED BY <2>2, <2>3
<1> QED BY <1>2, <1>3, <1>4 DEF InputInv

LEMMA StepInputs == TypeInv /\ InputInv /\ [Next]_vars => InputInv'
<1> SUFFICES ASSUME TypeInv, InputInv, [Next]_vars PROVE InputInv'
  OBVIOUS
<1>1. ASSUME UNCHANGED <<timer, form>>, ~steady' \/ \A f \in DOMAIN form \ raced' : Right(f)'
      PROVE  InputInv'
  BY <1>1 DEF InputInv
<1>2. ASSUME UNCHANGED <<server, sent, timer, form, steady, raced>> PROVE InputInv'
  BY <1>2, RightStays DEF InputInv
<1>3. ASSUME NEW k \in Keys, Serve(k) \/ Receive(k) \/ FetchFails(k) \/ Age(k) PROVE InputInv'
  <2>1. UNCHANGED <<server, sent, timer, form>> /\ (UNCHANGED <<steady, raced>> \/ ~steady')
    BY <1>3 DEF Serve, Receive, FetchFails, Age, screen, history
  <2> QED BY <1>1, <1>2, <2>1
<1>4. ASSUME NEW m \in Slots, Handle(m) PROVE InputInv'
  <2>1. UNCHANGED <<timer, form, steady, raced>>
    BY <1>4 DEF Handle, screen
  <2> QED BY <1>1, <1>4, <2>1, HandleKeepsRight DEF InputInv
<1>5. ASSUME NEW m \in Slots, Lose(m) PROVE InputInv'
  <2>1. /\ sent[m].step \in {"sent", "saved"} /\ sent' = [sent EXCEPT ![m].step = "failed"]
        /\ UNCHANGED <<server, timer, form, steady, raced>>
    BY <1>5 DEF Lose, screen, history
  <2>2. sent[m] # Free
    BY <2>1 DEF Free
  <2>3. /\ \A n \in Slots : n # m => sent'[n] = sent[n]
        /\ sent'[m].step = "failed" /\ sent'[m].fields = sent[m].fields
    BY <2>1, <2>2, AnswerLeaves
  <2>4. \A f, x : \A n \in Slots : Sends(sent[n], f, x) => Sends(sent'[n], f, x)
    BY <2>3 DEF Sends
  <2>5. \A f : Right(f) => Right(f)'
    BY <2>1, <2>3, <2>4 DEF Right
  <2> QED BY <1>1, <2>1, <2>5 DEF InputInv
<1>6. ASSUME NEW m \in Slots, Succeed(m) PROVE InputInv'
  <2>1. /\ sent[m].step = "saved" /\ sent' = [sent EXCEPT ![m] = Free]
        /\ UNCHANGED <<server, timer, form, steady, raced>>
    BY <1>6 DEF Succeed, history
  <2>2. \A n \in Slots : sent'[n] = IF n = m THEN Free ELSE sent[n]
    BY <2>1, SentOver
  <2>3. \A f, x : \A n \in Slots : Sends(sent[n], f, x) => Sends(sent'[n], f, x)
    BY <2>1, <2>2 DEF Sends
  <2>4. \A f : Right(f) => Right(f)'
    BY <2>1, <2>2, <2>3, FreeSendsNothing DEF Right
  <2> QED BY <1>1, <2>1, <2>4 DEF InputInv
<1>7. ASSUME NEW m \in Slots, Error(m) PROVE InputInv'
  <2>1. UNCHANGED <<timer, form>> /\ ~steady'
    BY <1>7 DEF Error, screen
  <2> QED BY <1>1, <2>1
<1>8. ASSUME NEW p \in Pages, Navigate(p) PROVE InputInv'
  <2>1. timer' = <<>> /\ form' = <<>> /\ ~steady'
    BY <1>8 DEF Navigate
  <2> QED BY <2>1, NoField DEF InputInv
\* On the other pages there are no inputs.
<1>9. ASSUME EditCell \/ EditTaskCell \/ BatchSave PROVE InputInv'
  <2>1. page # "detail" /\ UNCHANGED <<timer, form>>
    BY <1>9 DEF EditCell, EditTaskCell, BatchSave, screen
  <2>2. DOMAIN form = {}
    BY <2>1 DEF TypeInv
  <2> QED BY <1>1, <2>1, <2>2
<1>10. ASSUME SelectExecution PROVE InputInv'
  <2>1. PICK l \in EXEC_LABELS : Mutate("detail", [execution_status |-> EXEC_REV[l]])
    BY <1>10 DEF SelectExecution
  <2>2. UNCHANGED <<server, timer, form, steady, raced>>
    BY <1>10 DEF SelectExecution, screen, history
  <2>3. \A f \in DOMAIN form : f # "execution_status"
    BY DEF TypeInv, Typed, DateFields
  <2>4. \A f \in DOMAIN form : Right(f) => Right(f)'
    BY <2>1, <2>2, <2>3, RightMutates
  <2> QED BY <1>1, <2>2, <2>4 DEF InputInv
<1>11. ASSUME BlurAssignee PROVE InputInv'
  <2>1. UNCHANGED <<server, timer, steady>>
    BY <1>11 DEF BlurAssignee
  <2>2. CASE Mutate("detail", [assignee |-> Shown.assignee]) /\ UNCHANGED <<form, raced>>
    <3>1. "assignee" \in DOMAIN form => Shown.assignee = form.assignee
      BY DEF Shown, Over
    <3>2. \A f \in DOMAIN form : Right(f) => Right(f)'
      BY <2>1, <2>2, <3>1, RightMutates
    <3> QED BY <1>1, <2>1, <2>2, <3>2 DEF InputInv
  <2>3. ASSUME NEW who \in People, Mutate("detail", [assignee |-> who]),
               form' = Over([assignee |-> who], form), Race(Overtaken("assignee"))
        PROVE  InputInv'
    <3>1. /\ DOMAIN form' = {"assignee"} \cup DOMAIN form /\ form'["assignee"] = who
          /\ \A f \in DOMAIN form' : f # "assignee" => form'[f] = form[f]
      BY <2>3 DEF Over
    <3>2. "assignee" \notin DOMAIN timer
      BY HeldFields DEF TypeInv, DateFields
    <3>3. ASSUME steady, NEW f \in DOMAIN form' \ raced' PROVE Right(f)'
      <4>1. f \notin raced /\ f \notin Overtaken("assignee")
        BY <2>3, <3>3 DEF Race
      <4>2. CASE f = "assignee"
        <5>1. \A m \in Slots : sent[m] # Free => f \notin DOMAIN sent[m].fields
          BY <4>1, <4>2 DEF Overtaken
        <5> DEFINE fields == [assignee |-> who]
        <5>0. DOMAIN fields = {f} /\ fields[f] = who
          BY <4>2
        <5>2. PICK m \in Slots :
                /\ sent[m] = Free /\ \A n \in Slots \ {m} : sent'[n] = sent[n]
                /\ sent'[m].step = "sent" /\ sent'[m].fields = fields
          BY <2>3, MutateAdds
        <5> HIDE DEF fields
        <5>3. Sends(sent'[m], f, form'[f])
          BY <3>1, <4>2, <5>0, <5>2 DEF Sends
        <5>4. \A n \in Slots : sent'[n].step = "sent" /\ f \in DOMAIN sent'[n].fields => sent'[n].fields[f] = form'[f]
          BY <3>1, <4>2, <5>0, <5>1, <5>2, FreeSendsNothing
        <5> QED BY <5>3, <5>4 DEF Right
      <4>3. CASE f # "assignee"
        <5>1. Right(f) /\ form'[f] = form[f]
          BY <3>1, <3>3, <4>1, <4>3 DEF InputInv
        <5> QED BY <2>1, <2>3, <4>3, <5>1, RightMutates
      <4> QED BY <4>2, <4>3
    <3> QED BY <2>1, <3>1, <3>2, <3>3 DEF InputInv
  <2> QED BY <1>11, <2>2, <2>3 DEF BlurAssignee
\* The timer hands its edit over to a PATCH.
<1>12. ASSUME Fire PROVE InputInv'
  <2>1. timer' = <<>> /\ Mutate("detail", timer) /\ UNCHANGED <<server, form, steady, raced>>
    BY <1>12 DEF Fire, history
  <2>2. \A f : Right(f) => Right(f)'
    BY <2>1, RightMutates DEF InputInv
  <2> QED BY <2>1, <2>2, NoField DEF InputInv
<1>13. ASSUME Settle PROVE InputInv'
  <2>1. AllFree /\ Shown = server /\ UNCHANGED <<server, sent, timer, form>>
    BY <1>13 DEF Settle, Settled, AllFree, screen
  <2>2. \A f \in DOMAIN form : Shown[f] = form[f]
    BY DEF Shown, Over
  <2>3. \A f \in DOMAIN form : Right(f)'
    BY <2>1, <2>2, FreeSendsNothing DEF Right, AllFree
  <2> QED BY <1>1, <2>1, <2>3
<1>14. ASSUME UpdateRow \/ UNCHANGED vars PROVE InputInv'
  BY <1>2, <1>14 DEF UpdateRow, vars, history
<1> QED BY <1>3, <1>4, <1>5, <1>6, <1>7, <1>8, <1>9, <1>10, <1>11, <1>12, <1>13, <1>14,
           TypeDateKeepsRight DEF Next

\* PageFollows: for any number of PATCHes, fetches and edits at once, the query of a
\* page that has shown the server's state has it again when all have been answered,
\* unless a request failed (invalidateQueries in each page's onSuccess), and so have
\* the Detail page's inputs but those that were changed over a save of the same field
\* or put out of the timer by another.
THEOREM PageShowsServer == Spec => []PageFollows
<1>1. Init => FollowInv /\ InputInv
  BY NoField DEF Init, FollowInv, InputInv
<1>2. TypeInv /\ FollowInv /\ InputInv => PageFollows
  <2> SUFFICES ASSUME TypeInv, FollowInv, InputInv, steady, Settled
               PROVE  Data = server /\ \A f \in DOMAIN form \ (raced \cup DOMAIN timer) : Shown[f] = server[f]
    BY DEF PageFollows
  <2>1. Data = server
    BY FetchSteps DEF FollowInv, Follows, Settled, Data, AllFree
  <2>2. ASSUME NEW f \in DOMAIN form \ (raced \cup DOMAIN timer) PROVE Shown[f] = server[f]
    <3>1. Right(f) /\ Shown[f] = form[f]
      BY <2>2 DEF InputInv, Shown, Over
    <3>2. \A m \in Slots : ~Sends(sent[m], f, form[f])
      BY FreeSendsNothing DEF Settled
    <3> QED BY <2>2, <3>1, <3>2 DEF Right
  <2> QED BY <2>1, <2>2
<1> QED BY <1>1, <1>2, InitTypes, StepTypes, StepFollows, StepInputs, PTL DEF Spec

-----------------------------------------------------------------------------
(***************************************************************************)
(* The typed dates are kept                                                *)
(***************************************************************************)

\* A PATCH of the typed date that the server has not answered with success.
Carries(s, f, x) ==
  /\ s.step \in {"sent", "failed"} /\ s.from = "detail"
  /\ s.fields = Only(f, x)

LEMMA FreeCarriesNothing == \A f, x : ~Carries(Free, f, x)
BY DEF Carries, Free

LEMMA KeptIs ==
  /\ EditKept <=> \A f \in DOMAIN typed :
                    timer = Only(f, typed[f]) \/ \E m \in Slots : Carries(sent[m], f, typed[f])
  /\ EditKept' <=> \A f \in DOMAIN typed' :
                     timer' = Only(f, typed'[f]) \/ \E m \in Slots : Carries(sent'[m], f, typed'[f])
BY DEF EditKept, Carries

\* A new PATCH takes a slot that carried nothing, and carries its own fields.
LEMMA MutateCarries ==
  ASSUME TypeInv, NEW from, NEW fields, Mutate(from, fields)
  PROVE  /\ \A m \in Slots : \A f, x : Carries(sent[m], f, x) => Carries(sent'[m], f, x)
         /\ \A f, x : from = "detail" /\ fields = Only(f, x) => \E m \in Slots : Carries(sent'[m], f, x)
<1>1. PICK m \in Slots :
        /\ sent[m] = Free /\ \A n \in Slots \ {m} : sent'[n] = sent[n]
        /\ sent'[m].step = "sent" /\ sent'[m].from = from /\ sent'[m].fields = fields
  BY MutateAdds
<1>2. ASSUME NEW f, NEW x, from = "detail", fields = Only(f, x) PROVE Carries(sent'[m], f, x)
  BY <1>1, <1>2 DEF Carries
<1>3. ASSUME NEW n \in Slots, NEW f, NEW x, Carries(sent[n], f, x) PROVE Carries(sent'[n], f, x)
  BY <1>1, <1>3, FreeCarriesNothing
<1> QED BY <1>2, <1>3

LEMMA StepKeepsEdit == TypeInv /\ EditKept /\ [Next]_vars => EditKept'
<1> SUFFICES ASSUME TypeInv, EditKept, [Next]_vars, NEW f \in DOMAIN typed'
             PROVE  timer' = Only(f, typed'[f]) \/ \E m \in Slots : Carries(sent'[m], f, typed'[f])
  BY KeptIs
<1> DEFINE Kept == timer' = Only(f, typed'[f]) \/ \E m \in Slots : Carries(sent'[m], f, typed'[f])
<1> PICK x : x = typed'[f]
  OBVIOUS
<1>1. ASSUME f \in DOMAIN typed, typed[f] = x
      PROVE  timer = Only(f, x) \/ \E m \in Slots : Carries(sent[m], f, x)
  BY <1>1, KeptIs
<1>2. ASSUME UNCHANGED <<sent, timer, typed>> PROVE Kept
  BY <1>1, <1>2
\* Another PATCH.
<1>3. ASSUME NEW from, NEW fields, Mutate(from, fields), UNCHANGED <<timer, typed>> PROVE Kept
  BY <1>1, <1>3, MutateCarries
<1>4. ASSUME NEW k \in Keys, Serve(k) \/ Receive(k) \/ FetchFails(k) \/ Age(k)
      PROVE  UNCHANGED <<sent, timer, typed>>
  BY <1>4 DEF Serve, Receive, FetchFails, Age, screen, history
\* A PATCH that is not over, or did not carry the date.
<1>5. ASSUME NEW m \in Slots, UNCHANGED timer, f \in DOMAIN typed, typed[f] = x,
             \A n \in Slots : n # m => sent'[n] = sent[n],
             ~Carries(sent[m], f, x) \/ Carries(sent'[m], f, x)
      PROVE  Kept
  BY <1>1, <1>5
<1>6. ASSUME NEW m \in Slots, typed' = Without(typed, Carried(m))
      PROVE  f \in DOMAIN typed /\ typed[f] = x /\ ~Carries(sent[m], f, x)
  <2>1. f \in DOMAIN typed \ Carried(m) /\ typed'[f] = typed[f]
    BY <1>6 DEF Without
  <2> QED BY <2>1 DEF Carried, Carries
<1>7. ASSUME NEW m \in Slots, Handle(m) PROVE Kept
  <2> DEFINE step == IF Takes(server, sent[m].fields) THEN "saved" ELSE "failed"
  <2>1. /\ sent[m].step = "sent" /\ sent' = [sent EXCEPT ![m].step = step] /\ UNCHANGED timer
        /\ typed' = Without(typed, Carried(m))
    BY <1>7 DEF Handle, screen
  <2>2. sent[m] # Free
    BY <2>1 DEF Free
  <2> HIDE DEF step
  <2>3. \A n \in Slots : n # m => sent'[n] = sent[n]
    BY <2>1, <2>2, AnswerLeaves
  <2> QED BY <1>5, <1>6, <2>1, <2>3
<1>8. ASSUME NEW m \in Slots, Lose(m) PROVE Kept
  <2>1. /\ sent[m].step \in {"sent", "saved"} /\ sent' = [sent EXCEPT ![m].step = "failed"]
        /\ UNCHANGED <<timer, typed>>
    BY <1>8 DEF Lose, screen, history
  <2>2. sent[m] # Free
    BY <2>1 DEF Free
  <2>3. /\ \A n \in Slots : n # m => sent'[n] = sent[n]
        /\ sent'[m].step = "failed" /\ sent'[m].from = sent[m].from /\ sent'[m].fields = sent[m].fields
    BY <2>1, <2>2, AnswerLeaves
  <2>4. Carries(sent[m], f, x) => Carries(sent'[m], f, x)
    BY <2>3 DEF Carries
  <2> QED BY <1>5, <2>1, <2>3, <2>4
\* What has been saved no longer carried it.
<1>9. ASSUME NEW m \in Slots, Succeed(m) PROVE Kept
  <2>1. sent[m].step = "saved" /\ sent' = [sent EXCEPT ![m] = Free] /\ UNCHANGED <<timer, typed>>
    BY <1>9 DEF Succeed, history
  <2>2. ~Carries(sent[m], f, x)
    BY <2>1 DEF Carries
  <2>3. \A n \in Slots : n # m => sent'[n] = sent[n]
    BY <2>1 DEF TypeInv
  <2> QED BY <1>5, <2>1, <2>2, <2>3
\* A failed one gives up the date that it carried, and no other.
<1>10. ASSUME NEW m \in Slots, Error(m) PROVE Kept
  <2>1. sent' = [sent EXCEPT ![m] = Free] /\ UNCHANGED timer /\ typed' = Without(typed, Carried(m))
    BY <1>10 DEF Error, screen
  <2>2. \A n \in Slots : n # m => sent'[n] = sent[n]
    BY <2>1 DEF TypeInv
  <2> QED BY <1>5, <1>6, <2>1, <2>2
<1>11. ASSUME NEW p \in Pages, Navigate(p) PROVE FALSE
  BY <1>11, NoField DEF Navigate
\* The date takes the timer; what the timer held is given up.
<1>12. ASSUME TypeDate PROVE Kept
  <2>1. PICK g \in DateFields, d \in Dates :
          timer' = Only(g, d) /\ typed' = Over(Only(g, d), Without(typed, DOMAIN timer)) /\ UNCHANGED sent
    BY <1>12 DEF TypeDate
  <2>2. CASE f = g
    <3> PICK rest : rest = Without(typed, DOMAIN timer)
      OBVIOUS
    <3>1. typed'[g] = d
      <4>1. \A h \in DOMAIN typed' : typed'[h] = IF h = g THEN d ELSE rest[h]
        BY <2>1 DEF Over, Only
      <4> QED BY <2>2, <4>1
    <3> QED BY <2>1, <2>2, <3>1
  <2>3. CASE f # g
    <3>1. f \in DOMAIN typed /\ f \notin DOMAIN timer /\ typed[f] = x
      <4>1. f \in DOMAIN Without(typed, DOMAIN timer) /\ typed'[f] = Without(typed, DOMAIN timer)[f]
        <5> PICK rest : rest = Without(typed, DOMAIN timer)
          OBVIOUS
        <5>1. DOMAIN typed' = {g} \cup DOMAIN rest /\ \A h \in DOMAIN typed' : typed'[h] = IF h = g THEN d ELSE rest[h]
          BY <2>1 DEF Over, Only
        <5> QED BY <2>3, <5>1
      <4> QED BY <4>1 DEF Without
    <3>2. timer # Only(f, x)
      BY <3>1, OneField
    <3> QED BY <1>1, <2>1, <3>1, <3>2
  <2> QED BY <2>2, <2>3
\* The timer hands the date over to a PATCH.
<1>13. ASSUME Fire PROVE Kept
  <2>1. Mutate("detail", timer) /\ UNCHANGED typed
    BY <1>13 DEF Fire, history
  <2>2. timer = Only(f, x) => \E m \in Slots : Carries(sent'[m], f, x)
    BY <2>1, MutateCarries
  <2>3. \A m \in Slots : Carries(sent[m], f, x) => Carries(sent'[m], f, x)
    BY <2>1, MutateCarries
  <2> QED BY <1>1, <2>1, <2>2, <2>3
<1>14. ASSUME EditCell \/ EditTaskCell \/ SelectExecution \/ BlurAssignee \/ BatchSave
       PROVE  UNCHANGED <<timer, typed>> /\ \E from, fields : Mutate(from, fields)
  BY <1>14 DEF EditCell, EditTaskCell, SelectExecution, BlurAssignee, BatchSave, screen, history
<1>15. ASSUME UpdateRow \/ Settle \/ UNCHANGED vars PROVE UNCHANGED <<sent, timer, typed>>
  BY <1>15 DEF UpdateRow, Settle, vars, screen, history
<1> QED BY <1>2, <1>3, <1>4, <1>7, <1>8, <1>9, <1>10, <1>11, <1>12, <1>13, <1>14, <1>15 DEF Next

\* A date typed on the Detail page is not forgotten on the way to the server: the
\* timer or some PATCH holds it until the server has it, its save fails, the page is
\* left or another field takes its place in the timer, whatever number of saves,
\* refetches and edits overlap.
THEOREM EditsKept == Spec => []EditKept
<1>1. Init => EditKept
  BY NoField DEF Init, EditKept
<1>2. TypeInv /\ EditKept /\ [Next]_vars => EditKept'
  BY StepKeepsEdit
<1> QED BY <1>1, <1>2, InitTypes, StepTypes, PTL DEF Spec
=============================================================================
