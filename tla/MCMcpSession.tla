----------------------------- MODULE MCMcpSession -----------------------------
(* Two chat turns on one MCP server. *)
EXTENDS McpSession

CONSTANTS t1, t2

MCCallers == {t1, t2}
MCFarIds  == {9}      (* ids of the server that no request of ours has *)
MCNone    == {}
=============================================================================
