---------------------------- MODULE MCFrontend ----------------------------
(* Small instances of Frontend for TLC. *)
EXTENDS Frontend

CONSTANTS d1, p1

\* A turnover whose task is in progress.
MCStarted == {[move_out_date |-> d1, report_ready_date |-> d1, assignee |-> p1,
               execution_status |-> "IN_PROGRESS"]}
=============================================================================
