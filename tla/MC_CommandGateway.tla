-------------------------- MODULE MC_CommandGateway --------------------------
(***************************************************************************)
(* Instances of the command gateway for TLC.  One command meets every      *)
(* step that can go wrong for it: an operator deciding or cancelling, a    *)
(* dropped submit, failing writes, a child that will not wait, and two     *)
(* crashes, the second of them during the restart of the first.            *)
(***************************************************************************)
EXTENDS CommandGateway
=============================================================================
