---------------------------- MODULE MCConnection ----------------------------
(* A small instance of Connection for TLC. *)
EXTENDS Connection, TLC

Empty == {[k \in Cells |-> 0]}

\* Threads are interchangeable, and so are connections and cells.
Symmetry == Permutations(Threads) \cup Permutations(Conns) \cup Permutations(Cells)
=============================================================================
