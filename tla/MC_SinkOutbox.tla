---------------------------- MODULE MC_SinkOutbox ----------------------------
(***************************************************************************)
(* Instances of the sink outbox for TLC.  Two rows are enough for a batch  *)
(* whose rows meet different fates; whether they share a table decides     *)
(* whether they share an upload or follow each other in one poll.          *)
(***************************************************************************)
EXTENDS SinkOutbox

\* Each row in a table of its own.
OwnTables == [r \in Rows |-> r]

\* All rows but one are written once, that one until MaxContent; it is also deleted.
Rewritten == CHOOSE q \in Rows : TRUE
OneRewritten == [r \in Rows |-> IF r = Rewritten THEN MaxContent ELSE 1]
OneDeleted == {Rewritten}
=============================================================================
