--------------------------- MODULE MCAgentSocket ---------------------------
(* Two processes: a server and one that starts, or two that start          *)
(* together, over a pathname that is free or stale.                        *)
EXTENDS AgentSocket
=============================================================================
