----------------------------- MODULE MCMcpClient -----------------------------
(* An instance of McpClient for TLC: a smoke test and a run of the CLI, both of
   the first agent's target, on a Gateway with two targets. *)
EXTENDS McpClient

CONSTANTS smoke, cli, first, second

ExpectedTools == [c \in {smoke, cli} |-> first]
==============================================================================
