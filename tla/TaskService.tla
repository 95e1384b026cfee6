----------------------------- MODULE TaskService -----------------------------
(***************************************************************************)
(* services/task_service.py and domain/readiness.py: the tasks of one      *)
(* turnover, from the templates they are made of to READY.                 *)
(*                                                                         *)
(* update_task reads the row, decides, and then updates it by task_id,     *)
(* with no lock between: two statements, which the calls of other callers  *)
(* and midnight may come between.  The API's handlers run one at a time on *)
(* the event loop (Callers with one member); a second server process on    *)
(* the same database is a second caller.                                   *)
(*                                                                         *)
(* A field set is a record with the fields that are passed, like **fields  *)
(* in the code.  Dates are day numbers and 0 is None; vendor_completed_at  *)
(* is abstracted to its day and blocked_reason to whether it says          *)
(* anything.  Audit rows, assignee and due dates steer nothing here.       *)
(***************************************************************************)
EXTENDS TaskRules

CONSTANTS
  Callers,   \* who runs service calls
  Types,     \* the task types of the phase's active templates
  LastDay    \* bound: days are 1..LastDay

ASSUME TaskConstants == LastDay \in Nat \ {0} /\ Types # {}

Days == 1..LastDay

VARIABLES
  task,    \* the row of each task type (UNIQUE (turnover_id, task_type))
  today,   \* date.today()
  call,    \* what each caller is doing
  alone    \* history: the calls during which no other call took a step

vars == <<task, today, call, alone>>

Tasks == [execution_status : Statuses, vendor_completed_at : {0} \cup Days,
          completed_date : {0} \cup Days, required : BOOLEAN, blocking : BOOLEAN,
          skip_allowed : BOOLEAN, blocked_reason : BOOLEAN]

\* What callers pass to update_task: PATCH sends a status or a flag of the task,
\* scripts also the reason of a block.
Requests ==
  {[execution_status |-> s] : s \in Statuses}
    \cup {[execution_status |-> "BLOCKED", blocked_reason |-> TRUE]}
    \cup {[required |-> b] : b \in BOOLEAN}
    \cup {[blocking |-> b] : b \in BOOLEAN}

-----------------------------------------------------------------------------
(***************************************************************************)
(* domain/readiness.py.                                                    *)
(***************************************************************************)
IsDone(t) == t.execution_status \in {"COMPLETE", "SKIPPED"}

Blocking(tasks) == {ty \in DOMAIN tasks : tasks[ty].required /\ tasks[ty].blocking}

\* Once a blocking task has started and one is not done, has_block holds, so
\* readiness_state never comes to its IN_PROGRESS.
ReadinessState(tasks) ==
  IF DOMAIN tasks = {} THEN "NO_TASKS"
  ELSE IF \A ty \in Blocking(tasks) : IsDone(tasks[ty]) THEN "READY"
  ELSE IF \E ty \in Blocking(tasks) : tasks[ty].execution_status # "SCHEDULED" THEN "BLOCKED"
  ELSE "NOT_STARTED"

-----------------------------------------------------------------------------
(***************************************************************************)
(* The calls.                                                              *)
(***************************************************************************)
NoFields == [f \in {} |-> 0]
NoCall == [step |-> "idle", type |-> CHOOSE ty \in Types : TRUE, fields |-> NoFields]

\* instantiate_templates has made one task per template, in create_turnover's
\* transaction; the template says whether it is required, blocking, skippable.
Init ==
  /\ task \in [Types -> {t \in Tasks :
       /\ t.execution_status = "SCHEDULED"
       /\ t.vendor_completed_at = 0 /\ t.completed_date = 0 /\ ~t.blocked_reason}]
  /\ today = 1
  /\ call = [c \in Callers |-> NoCall]
  /\ alone = {}

Finish(c) == call' = [call EXCEPT ![c] = NoCall]

\* No call but c's is under way, or has been since c's began.
Quiet(c) == \A d \in Callers \ {c} : call[d].step = "idle"

\* A caller calls update_task.
Update(c) ==
  /\ call[c].step = "idle"
  /\ alone' = IF Quiet(c) THEN {c} ELSE {}
  /\ \E ty \in Types, fields \in Requests :
       call' = [call EXCEPT ![c] = [step |-> "read", type |-> ty, fields |-> fields]]
  /\ UNCHANGED <<task, today>>

\* complete_task: its own read and check, and the call of update_task.
Complete(c) ==
  /\ call[c].step = "idle"
  /\ alone' = IF Quiet(c) THEN {c} ELSE {}
  /\ \E ty \in Types :
       /\ task[ty].execution_status # "COMPLETE"
       /\ call' = [call EXCEPT ![c] =
            [step |-> "read", type |-> ty,
             fields |-> [execution_status |-> "COMPLETE", vendor_completed_at |-> today]]]
  /\ UNCHANGED <<task, today>>

\* update_task reads the row, validates the transition and stamps a completion.
Read(c) ==
  LET existing == task[call[c].type]
  IN  /\ call[c].step = "read"
      /\ IF Accepted(existing, call[c].fields)
           THEN call' = [call EXCEPT ![c].step = "write",
                                     ![c].fields = Stamped(existing, @, today)]
           ELSE Finish(c)
      /\ UNCHANGED <<task, today, alone>>

\* task_repository.update: UPDATE ... WHERE task_id = ...
Write(c) ==
  LET r == Over(call[c].fields, task[call[c].type])
  IN  /\ call[c].step = "write"
      /\ task' = IF CheckAllows(r) THEN [task EXCEPT ![call[c].type] = r] ELSE task
      /\ Finish(c)
      /\ UNCHANGED <<today, alone>>

\* A statement raises before it has written anything.
Fail(c) ==
  /\ call[c].step # "idle"
  /\ Finish(c)
  /\ UNCHANGED <<task, today, alone>>

Midnight ==
  /\ today < LastDay
  /\ today' = today + 1
  /\ UNCHANGED <<task, call, alone>>

Next ==
  \/ Midnight
  \/ \E c \in Callers : Update(c) \/ Complete(c) \/ Read(c) \/ Write(c) \/ Fail(c)

Spec == Init /\ [][Next]_vars

-----------------------------------------------------------------------------
(***************************************************************************)
(* Properties.                                                             *)
(***************************************************************************)

TypeOK ==
  /\ task \in [Types -> Tasks]
  /\ today \in Days
  /\ alone \subseteq Callers
  /\ \A c \in Callers :
       /\ call[c].step \in {"idle", "read", "write"}
       /\ call[c].type \in Types
       /\ Over(call[c].fields, task[call[c].type]) \in Tasks

\* Whoever completes a task, and whatever other calls read and wrote meanwhile, a
\* COMPLETE task has both its stamps: the morning report selects on
\* completed_date and would not show it otherwise.
CompletedIsStamped ==
  \A ty \in Types :
    task[ty].execution_status = "COMPLETE" =>
      task[ty].vendor_completed_at # 0 /\ task[ty].completed_date # 0

\* A call that no other comes between never overwrites or clears the stamps of a
\* completed task ("never overwrite"), even when midnight passes between
\* complete_task's read and update_task's: a task is completed once.
CompletedOnce ==
  [][\A c \in alone : Write(c) =>
       \A ty \in Types : task[ty].execution_status = "COMPLETE" =>
         \A f \in {"vendor_completed_at", "completed_date"} : task'[ty][f] = task[ty][f]]_vars

\* No such call takes a turnover out of READY, other than by making a task
\* required or blocking that was not.
ReadyStays ==
  [][\A c \in alone : Write(c) =>
       (ReadinessState(task) = "READY" /\ ReadinessState(task') # "READY" =>
          \E ty \in Blocking(task') : ty \notin Blocking(task))]_vars
=============================================================================
