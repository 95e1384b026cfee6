------------------------- MODULE MCTurnoverService -------------------------
(* Small instances of TurnoverService for TLC. *)
EXTENDS TurnoverService, TLC

\* Callers are interchangeable: they start alike and no action names one.
Symmetry == Permutations(Callers)

\* The operations that move dates and end turnovers.
DateOps == {"move_out", "close", "cancel"}
=============================================================================
