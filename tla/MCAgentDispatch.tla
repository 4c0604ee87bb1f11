--------------------------- MODULE MCAgentDispatch ---------------------------
(* Instances of AgentDispatch for TLC. *)
EXTENDS AgentDispatch

TwoJobs == 1..2
=============================================================================
