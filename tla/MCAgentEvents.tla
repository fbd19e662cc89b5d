--------------------------- MODULE MCAgentEvents ---------------------------
(* AgentEvents with a ring small enough to overflow, clear and fall behind *)
(* in several orders.                                                      *)
EXTENDS AgentEvents
=============================================================================
