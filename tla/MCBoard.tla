------------------------------ MODULE MCBoard ------------------------------
(* Small instances of Board for TLC: one unit, the day before its notice runs  *)
(* out, that day, and one past the ten days of the automatic transition.         *)
EXTENDS Board

CONSTANT u1

MCUnits      == {u1}
MCDays       == {0, 1, 12}
MCReportRows ==
  {[status |-> "on notice", available |-> 1, ready |-> FALSE],
   [status |-> "vacant ready", available |-> 1, ready |-> TRUE]}
NoticeDays   == {1, 12}
OneNotice    == {[status |-> "on notice", available |-> 12, ready |-> FALSE]}
MCPatched    == {"vacant ready", "on notice"}
MCMoveOuts   == {1, 12}
=============================================================================
