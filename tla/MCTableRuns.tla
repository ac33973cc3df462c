------------------------------ MODULE MCTableRuns ------------------------------
(* Instances of TableRuns for TLC. *)
EXTENDS TableRuns, TLC

Symmetry == Permutations(Task) \cup Permutations(Row) \cup Permutations(Proc)
===============================================================================
