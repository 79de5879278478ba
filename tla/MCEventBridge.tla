--------------------------- MODULE MCEventBridge ---------------------------
(* EventBridge for TLC: Event 1 is an A2A message, Event 2 an MCP call, both *)
(* of an execution of their own; Event 3 is an inbound MCP result.           *)
EXTENDS EventBridge, TLC

MCKind == [e \in Events |-> <<"a2a.message", "mcp.call", "mcp.result">>[e]]
MCExecutionOf == [e \in Events |-> <<"x1", "x2", "none">>[e]]
MCPrintOf == [e \in Events |-> <<"a2a", "mcp", "none">>[e]]
MCSymmetry == Permutations(Threads)
=============================================================================
