---------------------------- MODULE MCAgentTasks ----------------------------
(* AgentTasks on a small instance; the cfgs give the constants.            *)
EXTENDS AgentTasks
=============================================================================
