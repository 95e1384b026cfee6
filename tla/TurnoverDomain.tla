--------------------------- MODULE TurnoverDomain ---------------------------
(***************************************************************************)
(* Pure rules of domain/: what the services compute from a turnover row    *)
(* and a reference day, with no database access.  A row is a record with   *)
(* at least the fields closed, canceled (is the timestamp column set?) and *)
(* moveOut (a day number); dates are day numbers.                          *)
(***************************************************************************)
EXTENDS Integers

\* The results of sla_risk.
SlaLevels == {"OK", "WARNING", "BREACH"}

\* turnover_lifecycle.is_open: neither end timestamp is set.
IsOpen(t) == ~t.closed /\ ~t.canceled

\* manual_override.should_apply_import_value: an overridden value gives way only
\* to a report that agrees with it, which also clears the override.
ShouldApplyImportValue(current, override, incoming) == ~override \/ incoming = current

\* threshold of move_out_absence.should_cancel_turnover.
CancelAfter == 2

\* should_cancel_turnover: absent from that many imports in a row.
ShouldCancelTurnover(missing) == missing >= CancelAfter

\* int(threshold_days * WARNING_THRESHOLD_RATIO), the ratio being 0.75.
WarningDay(threshold) == (threshold * 3) \div 4

\* sla.sla_risk: elapsed vacancy days against the threshold, for an open row.
SlaRisk(t, today, threshold) ==
  LET elapsed == today - t.moveOut
  IN  IF ~IsOpen(t) \/ elapsed < 0        THEN "OK"
      ELSE IF elapsed >= threshold             THEN "BREACH"
      ELSE IF elapsed >= WarningDay(threshold) THEN "WARNING"
      ELSE "OK"
=============================================================================
