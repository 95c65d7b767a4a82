--------------------------- MODULE MCDerivedState ---------------------------
(* Model values for DerivedState: which calls the two actors make. *)
EXTENDS DerivedState, TLC

CONSTANTS p1, p2

Symmetry == Permutations(Actors)

WriteOps == [p \in Actors |-> {"change", "delete", "prune", "search"}]
\* One process writes, searches and deletes, the other opens the workspace over and over.
RepairOps == [p \in Actors |-> IF p = p1 THEN {"change", "delete", "search"} ELSE {"open"}]
=============================================================================
