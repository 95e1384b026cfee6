---------------------------- MODULE MCTaskService ----------------------------
(* Small instances of TaskService for TLC. *)
EXTENDS TaskService

\* Callers are interchangeable: they start alike and no action names one.
Symmetry == Permutations(Callers)
=============================================================================
