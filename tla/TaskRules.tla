------------------------------ MODULE TaskRules ------------------------------
(***************************************************************************)
(* What services/task_service.update_task accepts and adds: the finite     *)
(* state machine of execution_status and the stamps of a completion, as    *)
(* operators on a task's row and the fields that are passed (a record, as  *)
(* **fields in the code; 0 is None).                                       *)
(***************************************************************************)
EXTENDS Naturals, TLC

\* The fields that are passed, over the row.
Over(fields, row) == [f \in DOMAIN fields \cup DOMAIN row |->
                        IF f \in DOMAIN fields THEN fields[f] ELSE row[f]]

Statuses == {"SCHEDULED", "IN_PROGRESS", "COMPLETE", "SKIPPED", "BLOCKED"}

\* A mutant: the FSM with the re-opening its comment considers.
TransitionsWithReopening ==
  {<<"SCHEDULED", "IN_PROGRESS">>, <<"SCHEDULED", "SKIPPED">>,
   <<"IN_PROGRESS", "COMPLETE">>, <<"IN_PROGRESS", "BLOCKED">>, <<"IN_PROGRESS", "SKIPPED">>,
   <<"BLOCKED", "IN_PROGRESS">>, <<"COMPLETE", "IN_PROGRESS">>}

ALLOWED_TRANSITIONS ==
  {<<"SCHEDULED", "IN_PROGRESS">>, <<"SCHEDULED", "SKIPPED">>,
   <<"IN_PROGRESS", "COMPLETE">>, <<"IN_PROGRESS", "BLOCKED">>, <<"IN_PROGRESS", "SKIPPED">>,
   <<"BLOCKED", "IN_PROGRESS">>}

\* validate_status_transition, with the reason that update_task hands it.
Valid(existing, new, reason) ==
  /\ <<existing.execution_status, new>> \in ALLOWED_TRANSITIONS
  /\ new = "BLOCKED" => reason
  /\ new = "SKIPPED" => existing.skip_allowed

\* update_task goes on with these fields.
Accepted(existing, fields) ==
  LET reason == existing.blocked_reason
                  \/ ("blocked_reason" \in DOMAIN fields /\ fields.blocked_reason)
  IN  "execution_status" \in DOMAIN fields =>
        \/ fields.execution_status = existing.execution_status
        \/ Valid(existing, fields.execution_status, reason)

\* Mutants: a completion is stamped again each time, or for the vendor alone.
StampedAgain(existing, fields, day) ==
  LET completes == "execution_status" \in DOMAIN fields /\ fields.execution_status = "COMPLETE"
  IN  IF completes THEN Over(fields, [vendor_completed_at |-> day, completed_date |-> day])
      ELSE fields

StampedVendorOnly(existing, fields, day) ==
  LET completes == "execution_status" \in DOMAIN fields /\ fields.execution_status = "COMPLETE"
      missing == {f \in {"vendor_completed_at"} :
                    completes /\ f \notin DOMAIN fields /\ existing[f] = 0}
  IN  Over(fields, [f \in missing |-> day])

\* The stamps it adds to a completion: each if it is neither passed nor there.
\* (The clearing of completed_date when COMPLETE is left cannot be reached:
\* ALLOWED_TRANSITIONS has no way out of COMPLETE.)
Stamped(existing, fields, day) ==
  LET completes == "execution_status" \in DOMAIN fields /\ fields.execution_status = "COMPLETE"
      missing == {f \in {"vendor_completed_at", "completed_date"} :
                    completes /\ f \notin DOMAIN fields /\ existing[f] = 0}
  IN  Over(fields, [f \in missing |-> day])

\* task_completed_requires_vendor_completed_at.
CheckAllows(r) == r.execution_status = "COMPLETE" => r.vendor_completed_at # 0
=============================================================================
