--------------------------- MODULE MCAgentRuntime ---------------------------
(* Small instances of AgentRuntime. *)
EXTENDS AgentRuntime
=============================================================================
