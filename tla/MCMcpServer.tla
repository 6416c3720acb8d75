---------------------------- MODULE MCMcpServer ----------------------------
(* Two background processes, one after or beside the other. *)
EXTENDS McpServer

CONSTANTS h1, h2, tool

MCHost == {h1, h2}
MCProc == MCHost \cup {tool}
=============================================================================
