--------------------------- MODULE TurnoverService ---------------------------
(***************************************************************************)
(* services/turnover_service.py over the turnover, risk_flag and sla_event *)
(* tables.  Every service call runs as a sequence of repository calls, and *)
(* outside a transaction() block each of those is a statement that commits *)
(* by itself (db/connection.get_connection sets autocommit), so the calls  *)
(* of different callers interleave between any two statements.  Callers    *)
(* are whatever runs services against one database: the API's event loop,  *)
(* the thread of an import, the nightly job, a second server process.      *)
(*                                                                         *)
(* Abstracted: timestamps to "is it set", the columns and audit rows that  *)
(* steer nothing here, and the tasks made with a turnover.                 *)
(***************************************************************************)
EXTENDS Integers, FiniteSets, TurnoverDomain

CONSTANTS
  Callers,       \* who runs service calls
  Units,         \* the units that are active and carry a phase
  Turnovers,     \* the ids the identity column can hand out
  Ops,           \* the update operations of this instance
  LastDay,       \* bound: days are 0..LastDay
  SlaThreshold,  \* threshold_days
  EventBound     \* bound: SLA events opened per turnover

Days     == 0..LastDay
EventIds == 0..EventBound
Flags    == {"SLA_BREACH", "SLA_WARNING"}
AllOps   == {"move_out", "close", "cancel",
             "wd_notify", "wd_install", "wd_undo_notify", "wd_undo_install"}

ASSUME ConstantsOK ==
  /\ Units # {} /\ Turnovers # {}
  /\ Ops \subseteq AllOps
  /\ LastDay \in Nat /\ SlaThreshold \in Nat /\ EventBound \in Nat

VARIABLES
  inserted,   \* ids of the rows of table turnover
  row,        \* their columns
  flags,      \* types of the unresolved risk_flag rows of each turnover
  openEvent,  \* id of the unresolved sla_event of each turnover, or 0
  lastEvent,  \* id of the latest sla_event of each turnover
  today,      \* date.today()
  call,       \* what each caller is doing
  synced      \* history: the SLA level the risk tables were last brought to
              \* by a call that ran alone on the turnover, else "unknown"

vars == <<inserted, row, flags, openEvent, lastEvent, today, call, synced>>
riskVars == <<flags, openEvent, lastEvent>>

Rows == [unit : Units, moveOut : Days, notified : BOOLEAN, installed : BOOLEAN,
         closed : BOOLEAN, canceled : BOOLEAN]

NewRow(u, day) == [unit |-> u, moveOut |-> day, notified |-> FALSE,
                   installed |-> FALSE, closed |-> FALSE, canceled |-> FALSE]

AnyUnit == CHOOSE u \in Units : TRUE
AnyTurnover == CHOOSE t \in Turnovers : TRUE

\* The statement a caller is about to run.
Steps == {"idle", "insert", "lookup", "write", "evaluate",
          "find_event", "insert_event",
          "find_breach_flag", "insert_breach_flag",
          "find_warning_flag", "insert_warning_flag",
          "resolve_breach_flag", "resolve_warning_flag",
          "find_open_event", "resolve_event"}

\* The locals of a running call: the operation and its arguments, the row the
\* UPDATE returned, the level evaluated from it, the event id found.  alone is
\* history: no other call on this turnover has been active since this one began.
Calls == [step : Steps, op : AllOps, id : Turnovers, unit : Units, day : Days,
          updated : Rows, level : SlaLevels, event : EventIds, alone : BOOLEAN]

NoCall == [step |-> "idle", op |-> "close", id |-> AnyTurnover, unit |-> AnyUnit,
           day |-> 0, updated |-> NewRow(AnyUnit, 0), level |-> "OK", event |-> 0,
           alone |-> FALSE]

-----------------------------------------------------------------------------
(***************************************************************************)
(* The tables and their constraints (db/schema.sql).                       *)
(***************************************************************************)

\* A mutant: the schema without ux_turnover_one_open.
IndexDropped(t, r) == TRUE

\* ux_turnover_one_open: a unit's rows with neither end timestamp are unique.
IndexAllows(t, r) ==
  IsOpen(r) => \A s \in inserted \ {t} : IsOpen(row[s]) => row[s].unit # r.unit

\* The CHECKs on one row: an installed W/D was notified; not closed and canceled.
CheckAllows(r) ==
  /\ r.installed => r.notified
  /\ ~(r.closed /\ r.canceled)

\* A mutant: a PATCH writes back the end it read.
WrittenStale(r, op, day) ==
  CASE op = "move_out" -> [r EXCEPT !.moveOut = day, !.closed = FALSE]
    [] op = "close"    -> [r EXCEPT !.closed = TRUE]
    [] op = "cancel"   -> [r EXCEPT !.canceled = TRUE]

\* The columns each operation writes.
Written(r, op, day) ==
  CASE op = "move_out"        -> [r EXCEPT !.moveOut = day]
    [] op = "close"           -> [r EXCEPT !.closed = TRUE]
    [] op = "cancel"          -> [r EXCEPT !.canceled = TRUE]
    [] op = "wd_notify"       -> [r EXCEPT !.notified = TRUE]
    [] op = "wd_install"      -> [r EXCEPT !.installed = TRUE]
    [] op = "wd_undo_notify"  -> [r EXCEPT !.notified = FALSE]
    [] op = "wd_undo_install" -> [r EXCEPT !.installed = FALSE]

\* What PATCH hands to update_turnover with no read of its own.
Patchable == {"move_out", "wd_notify", "wd_install", "wd_undo_notify", "wd_undo_install"}

\* What close_turnover, cancel_turnover and the W/D helpers check on their own
\* read of the row before they call update_turnover; none writes the date.
Precheck(r, op) ==
  CASE op = "move_out"          -> FALSE
    [] op \in {"close", "cancel"} -> IsOpen(r)
    [] op = "wd_notify"         -> ~r.notified
    [] op = "wd_install"        -> r.notified /\ ~r.installed
    [] op = "wd_undo_notify"    -> r.notified /\ ~r.installed
    [] op = "wd_undo_install"   -> r.installed

-----------------------------------------------------------------------------
Init ==
  /\ inserted = {}
  /\ row = [t \in Turnovers |-> NewRow(AnyUnit, 0)]
  /\ flags = [t \in Turnovers |-> {}]
  /\ openEvent = [t \in Turnovers |-> 0]
  /\ lastEvent = [t \in Turnovers |-> 0]
  /\ today = 0
  /\ call = [c \in Callers |-> NoCall]
  /\ synced = [t \in Turnovers |-> "unknown"]

\* The other callers with a call on t.
Others(c, t) ==
  {d \in Callers \ {c} : call[d].step \notin {"idle", "insert"} /\ call[d].id = t}

\* Caller c moves on to another statement.
Goto(c, step) == call' = [call EXCEPT ![c].step = step]

\* Caller c's call returns or raises.
Finish(c) == call' = [call EXCEPT ![c] = NoCall]

-----------------------------------------------------------------------------
(***************************************************************************)
(* create_turnover.                                                        *)
(***************************************************************************)

\* The checks, which run before the transaction: the unit has no open turnover.
CreateCheck(c) ==
  /\ call[c].step = "idle"
  /\ \E u \in Units, day \in Days :
       /\ \A t \in inserted : IsOpen(row[t]) => row[t].unit # u
       /\ call' = [call EXCEPT ![c] = [NoCall EXCEPT !.step = "insert",
                                                     !.unit = u, !.day = day]]
  /\ UNCHANGED <<inserted, row, riskVars, today, synced>>

\* The transaction: the row, and the risk tables synced with it.  Nobody sees it
\* half done, so it is one step; it commits only if the unique index lets it.
CreateCommit(c) ==
  /\ call[c].step = "insert"
  /\ \E t \in Turnovers \ inserted :
       LET r == NewRow(call[c].unit, call[c].day)
           level == SlaRisk(r, today, SlaThreshold)
       IN  /\ IndexAllows(t, r)
           /\ level = "BREACH" => EventBound > 0
           /\ inserted' = inserted \cup {t}
           /\ row' = [row EXCEPT ![t] = r]
           /\ flags' = [flags EXCEPT ![t] = CASE level = "BREACH" -> {"SLA_BREACH"}
                                              [] level = "WARNING" -> {"SLA_WARNING"}
                                              [] OTHER -> {}]
           /\ openEvent' = [openEvent EXCEPT ![t] = IF level = "BREACH" THEN 1 ELSE 0]
           /\ lastEvent' = [lastEvent EXCEPT ![t] = IF level = "BREACH" THEN 1 ELSE 0]
           /\ synced' = [synced EXCEPT ![t] = level]
  /\ Finish(c)
  /\ UNCHANGED today

-----------------------------------------------------------------------------
(***************************************************************************)
(* update_turnover, and the helpers that call it.                          *)
(***************************************************************************)

\* PATCH, or the helper's own read and check.  The calls already active on the
\* turnover stop being alone on it.
Begin(c) ==
  /\ call[c].step = "idle"
  /\ \E t \in inserted, op \in Ops, day \in Days :
       /\ op # "move_out" => day = 0
       /\ op \in Patchable \/ Precheck(row[t], op)
       /\ call' = [d \in Callers |->
            IF d = c
              THEN [NoCall EXCEPT !.step = "lookup", !.op = op, !.id = t, !.day = day,
                                  !.alone = Others(c, t) = {}]
            ELSE IF d \in Others(c, t) THEN [call[d] EXCEPT !.alone = FALSE]
            ELSE call[d]]
  /\ UNCHANGED <<inserted, row, riskVars, today, synced>>

\* A mutant: update_turnover takes whatever it reads.
LookupUnchecked(c) ==
  /\ call[c].step = "lookup"
  /\ Goto(c, "write")
  /\ UNCHANGED <<inserted, row, riskVars, today, synced>>

\* update_turnover reads the row and refuses a turnover that has ended.
Lookup(c) ==
  /\ call[c].step = "lookup"
  /\ IF IsOpen(row[call[c].id]) THEN Goto(c, "write") ELSE Finish(c)
  /\ UNCHANGED <<inserted, row, riskVars, today, synced>>

\* turnover_repository.update: UPDATE ... WHERE turnover_id = ..., which the
\* constraints may reject (then Fail) and nothing else conditions.
Write(c) ==
  LET t == call[c].id
      r == Written(row[t], call[c].op, call[c].day)
  IN  /\ call[c].step = "write"
      /\ CheckAllows(r)
      /\ IndexAllows(t, r)
      /\ row' = [row EXCEPT ![t] = r]
      /\ call' = [call EXCEPT ![c] = [@ EXCEPT !.step = "evaluate", !.updated = r]]
      /\ synced' = [synced EXCEPT ![t] = "unknown"]
      /\ UNCHANGED <<inserted, riskVars, today>>

\* A statement raises: a CHECK on this or an abstracted column, a unique index, a
\* lost connection, an exhausted pool, the end of the process.  What the call has
\* already written stays written.
Fail(c) ==
  /\ call[c].step # "idle"
  /\ Finish(c)
  /\ UNCHANGED <<inserted, row, riskVars, today, synced>>

-----------------------------------------------------------------------------
(***************************************************************************)
(* evaluate_sla_state and sync_risk_from_sla, the tail of update_turnover. *)
(***************************************************************************)

\* A mutant: OK forgets to resolve the breach flag.
FirstSyncStepHasty(level) ==
  CASE level = "BREACH"  -> "find_event"
    [] level = "WARNING" -> "find_warning_flag"
    [] level = "OK"      -> "resolve_warning_flag"

\* Where sync_risk_from_sla starts for each level.
FirstSyncStep(level) ==
  CASE level = "BREACH"  -> "find_event"
    [] level = "WARNING" -> "find_warning_flag"
    [] level = "OK"      -> "resolve_breach_flag"

\* The level is evaluated on the row the UPDATE returned and today's date.
Evaluate(c) ==
  /\ call[c].step = "evaluate"
  /\ LET level == SlaRisk(call[c].updated, today, SlaThreshold)
     IN  call' = [call EXCEPT ![c] = [@ EXCEPT !.step = FirstSyncStep(level),
                                           !.level = level,
                                           !.updated = NewRow(AnyUnit, 0)]]
  /\ UNCHANGED <<inserted, row, riskVars, today, synced>>

\* The last statement of a call: it returns, with the tables synced to its level.
Return(c) ==
  /\ Finish(c)
  /\ synced' = [synced EXCEPT ![call[c].id] =
                  IF call[c].alone THEN call[c].level ELSE "unknown"]

\* _ensure_sla_breach_event looks for an unresolved event.
FindEvent(c) ==
  /\ call[c].step = "find_event"
  /\ Goto(c, IF openEvent[call[c].id] = 0 THEN "insert_event" ELSE "find_breach_flag")
  /\ UNCHANGED <<inserted, row, riskVars, today, synced>>

\* insert_sla_event; sla_event_one_open_breach_idx rejects a second open one.
InsertEvent(c) ==
  LET t == call[c].id
  IN  /\ call[c].step = "insert_event"
      /\ openEvent[t] = 0
      /\ lastEvent[t] < EventBound
      /\ lastEvent' = [lastEvent EXCEPT ![t] = @ + 1]
      /\ openEvent' = [openEvent EXCEPT ![t] = lastEvent[t] + 1]
      /\ Goto(c, "find_breach_flag")
      /\ UNCHANGED <<inserted, row, flags, today, synced>>

\* upsert_open: SELECT the unresolved flag; its severity is not modelled.
FindFlag(c, flag, find, insert) ==
  /\ call[c].step = find
  /\ IF flag \in flags[call[c].id]
       THEN Return(c)
       ELSE Goto(c, insert) /\ UNCHANGED synced
  /\ UNCHANGED <<inserted, row, riskVars, today>>

\* upsert_open: INSERT it; risk_flag_one_open_idx rejects a second open one.
InsertFlag(c, flag, insert) ==
  LET t == call[c].id
  IN  /\ call[c].step = insert
      /\ flag \notin flags[t]
      /\ flags' = [flags EXCEPT ![t] = @ \cup {flag}]
      /\ Return(c)
      /\ UNCHANGED <<inserted, row, openEvent, lastEvent, today>>

\* resolve_by_type, for each of the two flags in turn.
ResolveFlag(c, flag, step, next) ==
  /\ call[c].step = step
  /\ flags' = [flags EXCEPT ![call[c].id] = @ \ {flag}]
  /\ Goto(c, next)
  /\ UNCHANGED <<inserted, row, openEvent, lastEvent, today, synced>>

\* _resolve_sla_breach_event looks for an unresolved event.
FindOpenEvent(c) ==
  LET e == openEvent[call[c].id]
  IN  /\ call[c].step = "find_open_event"
      /\ IF e = 0
           THEN Return(c)
           ELSE /\ call' = [call EXCEPT ![c] = [@ EXCEPT !.step = "resolve_event", !.event = e]]
                /\ UNCHANGED synced
      /\ UNCHANGED <<inserted, row, riskVars, today>>

\* resolve_sla_event: the event found, if it is still unresolved.
ResolveEvent(c) ==
  LET t == call[c].id
  IN  /\ call[c].step = "resolve_event"
      /\ openEvent' = [openEvent EXCEPT ![t] = IF @ = call[c].event THEN 0 ELSE @]
      /\ Return(c)
      /\ UNCHANGED <<inserted, row, flags, lastEvent, today>>

SyncRisk(c) ==
  \/ Evaluate(c)
  \/ FindEvent(c)
  \/ InsertEvent(c)
  \/ FindFlag(c, "SLA_BREACH", "find_breach_flag", "insert_breach_flag")
  \/ InsertFlag(c, "SLA_BREACH", "insert_breach_flag")
  \/ FindFlag(c, "SLA_WARNING", "find_warning_flag", "insert_warning_flag")
  \/ InsertFlag(c, "SLA_WARNING", "insert_warning_flag")
  \/ ResolveFlag(c, "SLA_BREACH", "resolve_breach_flag", "resolve_warning_flag")
  \/ ResolveFlag(c, "SLA_WARNING", "resolve_warning_flag", "find_open_event")
  \/ FindOpenEvent(c)
  \/ ResolveEvent(c)

-----------------------------------------------------------------------------
\* Midnight passes, between any two statements.
Midnight ==
  /\ today < LastDay
  /\ today' = today + 1
  /\ UNCHANGED <<inserted, row, riskVars, call, synced>>

Next ==
  \/ Midnight
  \/ \E c \in Callers :
       \/ CreateCheck(c)
       \/ CreateCommit(c)
       \/ Begin(c)
       \/ Lookup(c)
       \/ Write(c)
       \/ SyncRisk(c)
       \/ Fail(c)

Spec == Init /\ [][Next]_vars

-----------------------------------------------------------------------------
(***************************************************************************)
(* Properties.                                                             *)
(***************************************************************************)

TypeOK ==
  /\ inserted \subseteq Turnovers
  /\ row \in [Turnovers -> Rows]
  /\ flags \in [Turnovers -> SUBSET Flags]
  /\ openEvent \in [Turnovers -> EventIds]
  /\ lastEvent \in [Turnovers -> EventIds]
  /\ today \in Days
  /\ call \in [Callers -> Calls]
  /\ synced \in [Turnovers -> SlaLevels \cup {"unknown"}]

\* Two creations that both saw the unit free must not both commit: a unit has at
\* most one open turnover, whatever ends and reopens around them
\* (turnover_service.py:4, decided by ux_turnover_one_open).
OneOpenTurnover ==
  \A s, t \in inserted :
    s # t /\ IsOpen(row[s]) /\ IsOpen(row[t]) => row[s].unit # row[t].unit

\* A call that ran alone on its turnover leaves the risk tables saying exactly
\* what its evaluation said, whatever earlier races and failures had left there:
\* OK clears everything, BREACH leaves the event and its flag open, WARNING its
\* flag (sync_risk_from_sla).
RiskTablesAgree ==
  \A t \in inserted :
    /\ synced[t] = "OK" => flags[t] = {} /\ openEvent[t] = 0
    /\ synced[t] = "WARNING" => "SLA_WARNING" \in flags[t]
    /\ synced[t] = "BREACH" => "SLA_BREACH" \in flags[t] /\ openEvent[t] # 0

\* The calls that update_turnover has let through to the rows of t.
InFlight(t) ==
  {c \in Callers : call[c].step \notin {"idle", "insert", "lookup"} /\ call[c].id = t}

\* A turnover that has ended is left to the calls that were let through before it
\* did: no other joins them, though PATCH and the helpers read the row statements
\* before update_turnover does, and when the last has returned nothing of the row
\* and the risk tables changes again.  What these calls leave is not promised: a
\* PATCH evaluated before a close may sync after the close has resolved everything
\* (turnover_service.py:186).
EndedIsLeft ==
  [][\A t \in inserted : ~IsOpen(row[t]) =>
       /\ InFlight(t)' \subseteq InFlight(t)
       /\ InFlight(t) = {} =>
            /\ row'[t] = row[t] /\ flags'[t] = flags[t]
            /\ openEvent'[t] = openEvent[t] /\ lastEvent'[t] = lastEvent[t]]_vars

\* The service implements what it promises (TurnoverLedger), for every
\* interleaving of its calls.
Stage(t) ==
  IF t \notin inserted THEN "absent"
  ELSE IF row[t].closed /\ row[t].canceled THEN "both"
  ELSE IF row[t].closed THEN "closed"
  ELSE IF row[t].canceled THEN "canceled"
  ELSE "open"

Ledger == INSTANCE TurnoverLedger
            WITH stage <- [t \in Turnovers |-> Stage(t)],
                 unitOf <- [t \in Turnovers |-> row[t].unit]

LedgerSpec == Ledger!Spec
=============================================================================
