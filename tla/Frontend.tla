------------------------------ MODULE Frontend ------------------------------
(***************************************************************************)
(* frontend/src: one user's browser on one turnover with one task.  Three  *)
(* pages edit it: the Board grid, the Turnover Detail form and the         *)
(* Operations Schedule.  The Board and the Schedule show the query         *)
(* ["board", property], the Detail page ["turnover", id]; a query keeps    *)
(* its data when its page is left, and shows it again until the refetch    *)
(* that mounting starts, if it starts one, has answered.                   *)
(*                                                                         *)
(* Queries and mutations are those of TanStack Query 5 with the options of *)
(* main.tsx: data is fresh for 30 s or until it is invalidated, fetches    *)
(* are not retried, and invalidating the query of the mounted page         *)
(* restarts its fetch.  PATCHes and fetches are under way at the same time *)
(* and may be handled and answered in any order, or lost.  Each handler of *)
(* the API runs alone on its event loop.                                   *)
(*                                                                         *)
(* The Detail page's dates and assignee are uncontrolled inputs: what the  *)
(* user has not changed follows the query, what he has keeps the typed     *)
(* value until the page is left.  The turnover's fields share one debounce *)
(* timer.                                                                  *)
(*                                                                         *)
(* Abstracted: the turnover to two of its dates and the task to assignee   *)
(* and status; filters, forms and toasts, notes and W/D, which save and    *)
(* refetch as the fields here do.                                          *)
(***************************************************************************)
EXTENDS TaskRules, FiniteSets

CONSTANTS
  Dates,     \* move-out and ready dates
  People,    \* assignees
  Started,   \* the turnover and its task as they may be when the browser opens
  Slots,     \* bound: PATCHes under way at once
  MaxEdits   \* bound: edits the user makes

DateFields == {"move_out_date", "report_ready_date"}
Rows == [move_out_date : Dates, report_ready_date : Dates,
         assignee : People, execution_status : Statuses]

ASSUME FrontendConstants == Started \subseteq Rows /\ MaxEdits \in Nat

Pages == {"board", "schedule", "detail"}
Keys  == {"board", "turnover"}

\* The query a page shows.
KeyOf(p) == IF p = "detail" THEN "turnover" ELSE "board"

VARIABLES
  server,   \* the turnover and its task, in the database
  cache,    \* the data of each query
  fetch,    \* the fetch of each query
  sent,     \* the mutations
  page,     \* the page that is mounted
  timer,    \* the edit useDebouncedCallback holds back: at most one field
  form,     \* what the user has put into the Detail page's inputs
  pending,  \* the Schedule's edits that are not saved: a record of fields
  edits,    \* how many edits the user has made
  steady,   \* history: this page has shown the server's state with nothing
            \* under way, and nothing has failed since
  typed,    \* history: the dates last typed on the Detail page, each until the
            \* server has it, its save fails, the page is left or another field
            \* takes its place in the timer
  raced     \* history: while steady, the inputs that were changed while a save of
            \* the same field was under way, or put out of the timer by another

vars == <<server, cache, fetch, sent, page, timer, form, pending, edits, steady, typed, raced>>
history == <<steady, typed, raced>>
screen == <<page, timer, form, pending>>

\* A field alone, and what is left of some fields without others.
Only(f, x) == [g \in {f} |-> x]
Without(fields, gone) == [f \in DOMAIN fields \ gone |-> fields[f]]

-----------------------------------------------------------------------------
(***************************************************************************)
(* The vocabulary of lib/constants.ts.                                     *)
(***************************************************************************)
EXEC_LABELS == {"Not Started", "Scheduled", "In Progress", "Completed"}

EXEC_REV == [l \in EXEC_LABELS |->
  CASE l = "Not Started" -> "NOT_STARTED" [] l = "Scheduled" -> "SCHEDULED"
    [] l = "In Progress" -> "IN_PROGRESS" [] l = "Completed" -> "COMPLETED"]

\* The Schedule's label of a status: COMPLETE, SKIPPED and BLOCKED have none.
ScheduleLabel(status) ==
  IF \E l \in EXEC_LABELS : EXEC_REV[l] = status
  THEN CHOOSE l \in EXEC_LABELS : EXEC_REV[l] = status ELSE "Not Started"

\* What saveMutation sends for the row: all its fields, edited or not.
SaveFields(row, changes) ==
  [assignee |-> Over(changes, row).assignee,
   execution_status |->
     EXEC_REV[IF "label" \in DOMAIN changes THEN changes.label
              ELSE ScheduleLabel(row.execution_status)]]

-----------------------------------------------------------------------------
(***************************************************************************)
(* The API.                                                                *)
(***************************************************************************)

\* patch_turnover or patch_task takes the fields.  The task is one that may not be
\* skipped and has no reason to be blocked.
Takes(row, fields) ==
  Accepted(Over(row, [skip_allowed |-> FALSE, blocked_reason |-> FALSE]), fields)

-----------------------------------------------------------------------------
(***************************************************************************)
(* Queries (TanStack Query).                                               *)
(***************************************************************************)
NoData == [has |-> FALSE, stale |-> FALSE, row |-> CHOOSE r \in Rows : TRUE]

\* A fetch is on its way to the server, or on its way back with what it read.
Idle == [step |-> "idle"]
Asked == [step |-> "asked"]
Read(row) == [step |-> "read", row |-> row]

\* A mutant: a refetch joins the fetch under way.
RefetchedJoining(k) == IF fetch[k] = Idle THEN Asked ELSE fetch[k]

\* Query.fetch with cancelRefetch: the fetch under way is dropped for a new one,
\* unless it is the first.
Refetched(k) == IF fetch[k] = Idle \/ cache[k].has THEN Asked ELSE fetch[k]

\* invalidateQueries: what is mounted is fetched again, the rest when it mounts.
Invalidate(keys) ==
  /\ cache' = [k \in Keys |-> IF k \in keys THEN [cache[k] EXCEPT !.stale = TRUE] ELSE cache[k]]
  /\ fetch' = [k \in Keys |-> IF k \in keys /\ k = KeyOf(page) THEN Refetched(k) ELSE fetch[k]]

\* The handler of the GET runs.
Serve(k) ==
  /\ fetch[k] = Asked
  /\ fetch' = [fetch EXCEPT ![k] = Read(server)]
  /\ UNCHANGED <<server, cache, sent, screen, edits, history>>

Receive(k) ==
  /\ fetch[k].step = "read"
  /\ cache' = [cache EXCEPT ![k] = [has |-> TRUE, stale |-> FALSE, row |-> fetch[k].row]]
  /\ fetch' = [fetch EXCEPT ![k] = Idle]
  /\ UNCHANGED <<server, sent, screen, edits, history>>

\* A fetch fails: retry is false.
FetchFails(k) ==
  /\ fetch[k] # Idle
  /\ fetch' = [fetch EXCEPT ![k] = Idle]
  /\ steady' = FALSE /\ raced' = {}
  /\ UNCHANGED <<server, cache, sent, screen, edits, typed>>

\* staleTime passes.
Age(k) ==
  /\ cache[k].has /\ ~cache[k].stale
  /\ cache' = [cache EXCEPT ![k].stale = TRUE]
  /\ UNCHANGED <<server, fetch, sent, screen, edits, history>>

\* The user goes to another page.  Unmounting clears the debounce timer, the inputs
\* and the Schedule's edits; mounting fetches what is not fresh.
Navigate(p) ==
  LET k == KeyOf(p)
  IN  /\ p # page
      /\ page' = p /\ timer' = <<>> /\ form' = <<>> /\ pending' = <<>>
      /\ fetch' = IF fetch[k] = Idle /\ (~cache[k].has \/ cache[k].stale)
                    THEN [fetch EXCEPT ![k] = Asked] ELSE fetch
      /\ steady' = FALSE /\ typed' = <<>> /\ raced' = {}
      /\ UNCHANGED <<server, cache, sent, edits>>

-----------------------------------------------------------------------------
(***************************************************************************)
(* Mutations.                                                              *)
(***************************************************************************)
Free == [step |-> "free"]

Mutate(from, fields) ==
  \E m \in Slots :
    /\ sent[m] = Free
    /\ sent' = [sent EXCEPT ![m] = [step |-> "sent", from |-> from, fields |-> fields]]

Edit == edits < MaxEdits /\ edits' = edits + 1

\* The typed dates that this PATCH carries.
Carried(m) == {f \in DOMAIN typed : sent[m].fields = Only(f, typed[f])}

\* The handler of the PATCH runs: its task or turnover is updated, or it is
\* refused (400), which is an error to the page.
Handle(m) ==
  LET ok == Takes(server, sent[m].fields)
  IN  /\ sent[m].step = "sent"
      /\ server' = IF ok THEN Over(sent[m].fields, server) ELSE server
      /\ sent' = [sent EXCEPT ![m].step = IF ok THEN "saved" ELSE "failed"]
      /\ typed' = Without(typed, Carried(m))
      /\ UNCHANGED <<cache, fetch, screen, edits, steady, raced>>

\* The request or its answer is lost.
Lose(m) ==
  /\ sent[m].step \in {"sent", "saved"}
  /\ sent' = [sent EXCEPT ![m].step = "failed"]
  /\ UNCHANGED <<server, cache, fetch, screen, edits, history>>

\* What each page's onSuccess invalidates.
Invalidated(from) == IF from = "detail" THEN Keys ELSE {"board"}

\* A mutant: what is saved on the Detail page resets its form, and the timer with it.
SucceedResetting(m) ==
  /\ sent[m].step = "saved"
  /\ Invalidate(Invalidated(sent[m].from))
  /\ pending' = IF sent[m].from = "schedule" THEN <<>> ELSE pending
  /\ timer' = IF sent[m].from = "detail" THEN <<>> ELSE timer
  /\ sent' = [sent EXCEPT ![m] = Free]
  /\ UNCHANGED <<server, page, form, edits, history>>

\* onSuccess; the Schedule's also forgets its edits, those made since included.
Succeed(m) ==
  /\ sent[m].step = "saved"
  /\ Invalidate(Invalidated(sent[m].from))
  /\ pending' = IF sent[m].from = "schedule" THEN <<>> ELSE pending
  /\ sent' = [sent EXCEPT ![m] = Free]
  /\ UNCHANGED <<server, page, timer, form, edits, history>>

\* onError shows a toast and fetches nothing.
Error(m) ==
  /\ sent[m].step = "failed"
  /\ sent' = [sent EXCEPT ![m] = Free]
  /\ steady' = FALSE /\ raced' = {} /\ typed' = Without(typed, Carried(m))
  /\ UNCHANGED <<server, cache, fetch, screen, edits>>

-----------------------------------------------------------------------------
(***************************************************************************)
(* BoardPage.                                                              *)
(***************************************************************************)

\* onTurnoverCellValueChanged: the grid has written the new value into its row,
\* which is the query's own, before it calls the handler.  (The other columns likewise.)
EditCell ==
  /\ page = "board" /\ cache["board"].has
  /\ \E d \in Dates \ {cache["board"].row.move_out_date} :
       /\ cache' = [cache EXCEPT !["board"].row.move_out_date = d]
       /\ Mutate("board", [move_out_date |-> d])
  /\ Edit
  /\ UNCHANGED <<server, fetch, screen, history>>

\* onTaskCellValueChanged, on a copy of the row; and the QC cell, whose Confirmed
\* is COMPLETED and whose Pending is NOT_STARTED.
EditTaskCell ==
  /\ page = "board" /\ cache["board"].has
  /\ \E l \in EXEC_LABELS :
       /\ EXEC_REV[l] # cache["board"].row.execution_status
       /\ Mutate("board", [execution_status |-> EXEC_REV[l]])
  /\ Edit
  /\ UNCHANGED <<server, cache, fetch, screen, history>>

-----------------------------------------------------------------------------
(***************************************************************************)
(* TurnoverDetailPage.                                                     *)
(***************************************************************************)

\* The data of the page's query, which the page shows but for the inputs that the
\* user has changed (and the Schedule's rows, over which it shows their edits).
Data == cache[KeyOf(page)].row
Shown == Over(form, Data)

\* The field, if a save of it is under way.
Overtaken(f) == {f} \cap UNION {DOMAIN sent[m].fields : m \in {n \in Slots : sent[n] # Free}}

Race(fields) == raced' = IF steady THEN raced \cup fields ELSE {}

\* handleChange: one timer for all the debounced fields, in which the last edit
\* takes the place of the one before; the form is there before its data is.
TypeDate ==
  /\ page = "detail"
  /\ \E f \in DateFields, d \in Dates :
       /\ timer' = Only(f, d)
       /\ form' = Over(Only(f, d), form)
       /\ Race((DOMAIN timer \ {f}) \cup Overtaken(f))
       /\ typed' = Over(Only(f, d), Without(typed, DOMAIN timer))
  /\ Edit
  /\ UNCHANGED <<server, cache, fetch, sent, page, pending, steady>>

\* A mutant: the callback is dropped while another save runs.
FireUnlessSaving ==
  /\ timer # <<>>
  /\ timer' = <<>>
  /\ IF \E m \in Slots : sent[m] # Free THEN UNCHANGED sent
     ELSE Mutate("detail", timer)
  /\ UNCHANGED <<server, cache, fetch, page, form, pending, edits, history>>

\* 400 ms later.
Fire ==
  /\ timer # <<>>
  /\ timer' = <<>>
  /\ Mutate("detail", timer)
  /\ UNCHANGED <<server, cache, fetch, page, form, pending, edits, history>>

\* The Execution select, which shows what the query has.
SelectExecution ==
  /\ page = "detail" /\ cache["turnover"].has
  /\ \E l \in EXEC_LABELS : Mutate("detail", [execution_status |-> EXEC_REV[l]])
  /\ Edit
  /\ UNCHANGED <<server, cache, fetch, screen, history>>

\* The Assignee input, which saves on every blur, whether it was changed or not.
BlurAssignee ==
  /\ page = "detail" /\ cache["turnover"].has
  /\ \/ /\ Mutate("detail", [assignee |-> Shown.assignee])
        /\ UNCHANGED <<form, raced>>
     \/ \E who \in People :
          /\ Mutate("detail", [assignee |-> who])
          /\ form' = Over([assignee |-> who], form)
          /\ Race(Overtaken("assignee"))
  /\ Edit
  /\ UNCHANGED <<server, cache, fetch, page, timer, pending, steady, typed>>

-----------------------------------------------------------------------------
(***************************************************************************)
(* OperationsSchedulePage.                                                 *)
(***************************************************************************)

UpdateRow ==
  /\ page = "schedule" /\ cache["board"].has
  /\ \/ \E who \in People : pending' = Over([assignee |-> who], pending)
     \/ \E l \in EXEC_LABELS : pending' = Over([label |-> l], pending)
  /\ Edit
  /\ UNCHANGED <<server, cache, fetch, sent, page, timer, form, history>>

\* Batch Save: the row as the page has it, with the edits over it.
BatchSave ==
  /\ page = "schedule" /\ pending # <<>> /\ cache["board"].has
  /\ \A m \in Slots : sent[m] # Free => sent[m].from # "schedule"
  /\ Mutate("schedule", SaveFields(cache["board"].row, pending))
  /\ UNCHANGED <<server, cache, fetch, screen, edits, history>>

-----------------------------------------------------------------------------
Init ==
  /\ server \in Started
  /\ cache = [k \in Keys |-> NoData]
  /\ page = "board" /\ timer = <<>> /\ form = <<>> /\ pending = <<>>
  /\ fetch = [k \in Keys |-> IF k = KeyOf(page) THEN Asked ELSE Idle]
  /\ sent = [m \in Slots |-> Free]
  /\ edits = 0
  /\ steady = FALSE /\ typed = <<>> /\ raced = {}

\* Nothing the page waits for is under way.
Settled == fetch[KeyOf(page)] = Idle /\ \A m \in Slots : sent[m] = Free

\* History: the page shows what the server has.
Settle ==
  /\ ~steady /\ Settled
  /\ cache[KeyOf(page)].has /\ Data = server /\ Shown = server
  /\ steady' = TRUE
  /\ UNCHANGED <<server, cache, fetch, sent, screen, edits, typed, raced>>

Next ==
  \/ \E k \in Keys : Serve(k) \/ Receive(k) \/ FetchFails(k) \/ Age(k)
  \/ \E m \in Slots : Handle(m) \/ Lose(m) \/ Succeed(m) \/ Error(m)
  \/ \E p \in Pages : Navigate(p)
  \/ EditCell \/ EditTaskCell \/ TypeDate \/ Fire \/ SelectExecution \/ BlurAssignee
  \/ UpdateRow \/ BatchSave
  \/ Settle

Spec == Init /\ [][Next]_vars

\* The browser runs its timer, the server handles what reaches it, and an answer
\* comes back or the request fails.
Fairness ==
  /\ WF_vars(Fire)
  /\ \A m \in Slots : WF_vars(Handle(m)) /\ WF_vars(Succeed(m)) /\ WF_vars(Error(m))

FairSpec == Spec /\ Fairness

-----------------------------------------------------------------------------
(***************************************************************************)
(* Properties.                                                             *)
(***************************************************************************)

\* No request leaves the row with a status update_task does not know, though the
\* pages send NOT_STARTED and COMPLETED.
TypeOK ==
  /\ server \in Rows
  /\ \A k \in Keys : cache[k].row \in Rows
  /\ page \in Pages /\ edits \in 0..MaxEdits
  /\ DOMAIN timer \subseteq DateFields /\ \A f \in DOMAIN timer : timer[f] \in Dates
  /\ \A m \in Slots : sent[m] # Free => sent[m].from \in Pages

\* Once a page has shown the server's state with nothing under way, its query has
\* that again whenever the edits made on it, overlapping with each other's saves and
\* refetches as they may, have been answered, unless a request failed: a refetch
\* that began before a save never has the last word.  So does an input of the Detail
\* page that the user has changed, once its edit has left the timer, if no save of
\* the field was under way when it was changed and no edit of another field put it
\* out of the timer.  (Else the input may keep what the server does not have.)
PageFollows ==
  steady /\ Settled =>
    /\ Data = server
    /\ \A f \in DOMAIN form \ (raced \cup DOMAIN timer) : Shown[f] = server[f]

\* A date typed on the Detail page is not forgotten on the way: until the server has
\* it, its save fails, the page is left or another field is edited within the 400 ms,
\* the timer holds it or a PATCH of it alone is under way or about to be reported as
\* failed, whatever other saves and refetches go on.  (The safety half of
\* EditArrives.)
EditKept ==
  \A f \in DOMAIN typed :
    \/ timer = Only(f, typed[f])
    \/ \E m \in Slots : /\ sent[m].step \in {"sent", "failed"}
                        /\ sent[m].from = "detail"
                        /\ sent[m].fields = Only(f, typed[f])

\* Every date typed on the Detail page reaches the server, whatever is being saved at
\* the time, unless within the 400 ms the page is left or a date is typed, there or in
\* another field, or its save fails: the edits being bounded, in the end none is on
\* its way.
EditArrives == typed # <<>> ~> typed = <<>>

\* The user completes a task that is in progress by choosing Completed, and its
\* status changes.
TaskCompletes ==
  [][\A m \in Slots :
       Handle(m) /\ sent[m].fields = [execution_status |-> EXEC_REV["Completed"]]
         /\ server.execution_status = "IN_PROGRESS"
       => server'.execution_status = "COMPLETE"]_vars
=============================================================================
