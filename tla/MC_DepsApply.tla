----------------------------- MODULE MC_DepsApply -----------------------------
(* Three pids for a launcher, its worker and a rival. *)
EXTENDS DepsApply
=============================================================================
