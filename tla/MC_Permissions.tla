---------------------------- MODULE MC_Permissions ----------------------------
(***************************************************************************)
(* Instances of the permission service for TLC.  One agent request has     *)
(* five deciders racing for it: two callers, its timer, its own cancel     *)
(* and, after a crash, the startup sweep.  Requests only meet in a session *)
(* sweep; the proofs cover any number of them.                             *)
(***************************************************************************)
EXTENDS Permissions
=============================================================================
