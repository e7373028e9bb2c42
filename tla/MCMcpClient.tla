---------------------------- MODULE MCMcpClient -----------------------------
(* Two callers and a pipe that holds one request: a call that has given up,  *)
(* the next one of the same caller, and one beside them.                     *)
EXTENDS McpClient

CONSTANTS c1, c2
=============================================================================
