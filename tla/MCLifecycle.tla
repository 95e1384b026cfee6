----------------------------- MODULE MCLifecycle -----------------------------
(* A small instance of Lifecycle for TLC: days on both sides of every          *)
(* threshold of the rules (2, 3, 7, 10, 14, 24, 48), a move-in of 1900 that    *)
(* stands for none, and two tasks.                                             *)
EXTENDS Lifecycle

FirstDay     == 738886   \* 1 January 2024
Placeholder  == 693596   \* 1 January 1900
After(n)     == FirstDay + n

MCDays       == {After(n) : n \in {0, 3, 13, 26, 49}}
MCMoveOuts   == {After(0), After(13)}
MCMoveIns    == {NoDate, Placeholder, After(15)}
MCReadies    == {NoDate, After(3)}
MCAvailables == {NoDate, After(3)}
MCStatuses   == {"on notice", "vacant not ready", "vacant ready"}
MCTaskKinds  ==
  {[type |-> "INSPECT", required |-> TRUE, blocking |-> TRUE, due |-> NoDate, scheduled |-> After(3)],
   [type |-> "PAINT", required |-> TRUE, blocking |-> TRUE, due |-> After(11), scheduled |-> After(3)]}
MCTaskStatuses == {"SCHEDULED", "IN_PROGRESS", "COMPLETE"}
=============================================================================
