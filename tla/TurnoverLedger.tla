--------------------------- MODULE TurnoverLedger ---------------------------
(***************************************************************************)
(* What services/turnover_service.py promises at its head (lines 3-6): a   *)
(* unit has at most one open turnover, and closing and canceling are       *)
(* terminal and mutually exclusive.  One variable says how far each        *)
(* turnover has come, one which unit it belongs to; nothing here knows of  *)
(* callers, statements or risk tables.                                     *)
(***************************************************************************)
CONSTANTS Turnovers, Units

VARIABLES
  stage,   \* how far each turnover has come
  unitOf   \* the unit of each turnover; meaningless while it is absent

vars == <<stage, unitOf>>

Stages == {"absent", "open", "closed", "canceled"}

Init ==
  /\ stage = [t \in Turnovers |-> "absent"]
  /\ unitOf \in [Turnovers -> Units]

\* A turnover is opened for a unit that has none open.
Open(t, u) ==
  /\ stage[t] = "absent"
  /\ \A s \in Turnovers : stage[s] = "open" => unitOf[s] # u
  /\ stage' = [stage EXCEPT ![t] = "open"]
  /\ unitOf' = [unitOf EXCEPT ![t] = u]

\* An open turnover ends, one way or the other, and stays ended.
End(t, s) ==
  /\ stage[t] = "open"
  /\ stage' = [stage EXCEPT ![t] = s]
  /\ UNCHANGED unitOf

Next ==
  \E t \in Turnovers :
    \/ \E u \in Units : Open(t, u)
    \/ \E s \in {"closed", "canceled"} : End(t, s)

Spec == Init /\ [][Next]_vars
=============================================================================
