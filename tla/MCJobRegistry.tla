--------------------------- MODULE MCJobRegistry ----------------------------
(***************************************************************************)
(* JobRegistry on small instances.                                         *)
(***************************************************************************)
EXTENDS JobRegistry, TLC

CONSTANTS j1, j2, j3, j4, c1, c2

Jobs2 == {j1, j2}
Jobs4 == {j1, j2, j3, j4}
Callers2 == {c1, c2}

\* Ids are random and callers anonymous: sound for the safety runs.
Symmetry == Permutations(Jobs) \cup Permutations(Callers)
=============================================================================
