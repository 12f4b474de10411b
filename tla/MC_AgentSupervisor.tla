--------------------------- MODULE MC_AgentSupervisor ---------------------------
(***************************************************************************)
(* Instance of the agent supervisor for TLC.  Three bridges let a crashed  *)
(* one be in its backoff while a second is started and stopped and a third *)
(* takes over.                                                             *)
(***************************************************************************)
EXTENDS AgentSupervisor
=============================================================================
