---------------------------- MODULE MCMcpClient ----------------------------
(* The instance of McpClient that TLC checks. *)
EXTENDS McpClient

=============================================================================
