---------------------------- MODULE MCAgentLoop ----------------------------
(* An instance of AgentLoop for TLC: two messages, and sessions that expire   *)
(* after one unit of silence, beside triggered ones.                         *)
EXTENDS AgentLoop, TLC

MCSessions == 1..3
=============================================================================
