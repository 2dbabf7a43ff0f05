----------------------------- MODULE MCAgentLoop -----------------------------
(* Small instances of AgentLoop.                                              *)
EXTENDS AgentLoop
==============================================================================
