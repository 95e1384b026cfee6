----------------------------- MODULE Operations -----------------------------
(***************************************************************************)
(* The small operations around the board, in one system: Registry, the     *)
(* property's structure and what hangs on it, and ReportQueues, what       *)
(* imports leave for the manager.  Both have import_row and the turnovers, *)
(* at different grains: Registry resolves a missing move-out by making     *)
(* its turnover, ReportQueues resolves everything else.  So a behaviour is *)
(* of one or of the other, as its scenario says.                           *)
(***************************************************************************)
EXTENDS Registry

CONSTANTS Units, NoUnit, AvailableFiles, MoveInFiles, Patched, Dates,
          LastBatch, LastTurnover, LastInstant

VARIABLES turns, importRows, batches, skips, instant, review, clerk

Q == INSTANCE ReportQueues WITH rows <- importRows, now <- instant, desk <- review

ASSUME OperationsConstants == Q!QueueConstants

queueVars == <<turns, importRows, batches, skips, instant, review, clerk>>

OperationsInit == Init /\ Q!Init

\* Conflicts come of the Available Units import, arrivals of the other two.
QueuesNext ==
  \/ /\ scenario \cap {"conflicts", "arrivals"} # {}
     /\ Q!ImportAvailable \/ Q!Desk \/ Q!OpenTurnover \/ Q!EndTurnover \/ Q!Tick
  \/ "conflicts" \in scenario /\ (Q!PatchStatus \/ Q!NightTransition)
  \/ "arrivals" \in scenario /\ (Q!ImportMoveIns \/ Q!Clerk)

OperationsNext ==
  \/ Next /\ UNCHANGED queueVars
  \/ QueuesNext /\ UNCHANGED vars

OperationsSpec == OperationsInit /\ [][OperationsNext]_<<vars, queueVars>>

-----------------------------------------------------------------------------
\* Every table and every call of both parts holds what it may hold.
OperationsTypeOK == TypeOK /\ Q!TypeOK

\* No skip is lost: a row that was skipped whole is on the list of override
\* conflicts, with the turnover it was for, until somebody resolves it
\* (get_override_conflicts).
SkippedIsListed == Q!SkippedIsListed

\* A row leaves its queue for a reason: what is resolved has given its unit's
\* turnover the date it lacked, and no row outside the queues is ever resolved
\* (resolve_invalid_row, reconcile_pending_move_ins).
ResolvedWereServed == Q!ResolvedWereServed

\* A reconciliation that nothing disturbed leaves only true orphans: every pending
\* move-in whose unit has an open turnover has been matched
\* (reconcile_pending_move_ins).
QueueHoldsOrphans == Q!QueueHoldsOrphans
=============================================================================
