--------------------------- MODULE MCScriptedRun ----------------------------
(***************************************************************************)
(* ScriptedRun on a small instance.                                        *)
(***************************************************************************)
EXTENDS ScriptedRun

CONSTANTS c1, c2, i1

Callers2 == {c1, c2}
Ids1 == {i1}
=============================================================================
