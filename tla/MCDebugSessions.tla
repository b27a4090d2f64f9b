-------------------------- MODULE MCDebugSessions ---------------------------
(***************************************************************************)
(* DebugSessions on small instances.                                       *)
(***************************************************************************)
EXTENDS DebugSessions, TLC

CONSTANTS c1, c2, i1, i2

Callers2 == {c1, c2}
Ids1 == {i1}
Ids2 == {i1, i2}

\* Calls and connections are anonymous: sound for the safety runs.
Symmetry == Permutations(Callers) \cup Permutations(Ids)
=============================================================================
