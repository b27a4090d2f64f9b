---------------------------- MODULE MCMcpServer -----------------------------
(***************************************************************************)
(* McpServer on a small instance.                                          *)
(***************************************************************************)
EXTENDS McpServer

CONSTANTS c1, c2

Clients2 == {c1, c2}
=============================================================================
