----------------------------- MODULE MCAgentRpc -----------------------------
(* Connections around the life of the main loop.                       *)
EXTENDS AgentRpc
=============================================================================
