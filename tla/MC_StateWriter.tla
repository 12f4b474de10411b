--------------------------- MODULE MC_StateWriter ---------------------------
(***************************************************************************)
(* Instances of the state writer for TLC.  An awaited and a detached       *)
(* write and two shutdowns share a channel of two: a batch of two holds a  *)
(* failing job next to a good one, the detached write meets a full or a    *)
(* closed channel, and jobs are queued before and behind a shutdown.  The  *)
(* second row of the awaited job is a bare write, after a write in a scope *)
(* that may have lost the transaction.                                     *)
(***************************************************************************)
EXTENDS StateWriter

CONSTANT j1

BareRows == {<<j1, 2>>}
=============================================================================
