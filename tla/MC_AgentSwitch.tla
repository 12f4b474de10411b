---------------------------- MODULE MC_AgentSwitch ----------------------------
(* Two targets and two selections. *)
EXTENDS AgentSwitch

CONSTANTS a, b
=============================================================================
