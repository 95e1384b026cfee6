---------------------------- MODULE MCImportRun ----------------------------
(* Small instances of ImportRun for TLC. *)
EXTENDS ImportRun, TLC

CONSTANTS u1, u2

Dated(u, d) == [unit |-> u, date |-> d]

\* Reports that list a unit, list it without a date, list another, or list both.
TwoReports == {<<Dated(u1, 1)>>, <<Dated(u1, 0), Dated(u2, 1)>>}
ThreeReports == TwoReports \cup {<<Dated(u2, 2)>>}

Symmetry == Permutations(Threads) \cup Permutations(Conns)
=============================================================================
