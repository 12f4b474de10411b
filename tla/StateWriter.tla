---------------------------- MODULE StateWriter ----------------------------
(***************************************************************************)
(* The daemon's single state writer (src/state/handle.rs).  Every          *)
(* component sends write jobs through a bounded channel to one thread,     *)
(* which drains the channel into batches, runs a batch in one SQLite       *)
(* transaction with a savepoint per job, commits, announces the new rows   *)
(* on the event hub and only then answers the callers.  Any SQLite call    *)
(* may fail, a job may fail or panic, SQLite may roll the whole            *)
(* transaction back on its own, and the writer may be shut down while      *)
(* callers are still sending.  A job writes its rows in begin_immediate    *)
(* scopes, which refuse to run once that rollback has happened, or with    *)
(* bare statements, which do not: those commit on their own.               *)
(*                                                                         *)
(* A process crash needs no action: what survives it is `db', and every    *)
(* invariant below holds of `db' after every prefix of a behaviour.        *)
(***************************************************************************)
EXTENDS Integers, Sequences, Functions

CONSTANTS Jobs,        \* write jobs, each submitted at most once
          Detached,    \* the ones queued by write_detached
          Closers,     \* callers of shutdown
          Capacity,    \* STATE_WRITE_QUEUE_CAPACITY
          BatchMax,    \* STATE_WRITE_BATCH_MAX
          Scopes,      \* writes a job makes, each of one row
          Bare,        \* the rows written by a bare connection().execute
          SavepointsMayFail,  \* the job savepoint's statements may fail in
                              \* ways that run_batch only logs
          NoJob        \* "the writer runs no job"

ASSUME JobsAssumption == Detached \subseteq Jobs /\ Jobs \cap Closers = {}
ASSUME BoundsAssumption == /\ Capacity \in Nat \ {0}
                           /\ BatchMax \in Nat \ {0}
                           /\ Scopes \in Nat
ASSUME WritesAssumption == /\ Bare \subseteq Jobs \X (1..Scopes)
                           /\ SavepointsMayFail \in BOOLEAN
ASSUME NoJobAssumption == NoJob \notin Jobs

VARIABLES
  queue,      \* the mpsc channel: jobs and shutdown messages (closers)
  closed,     \* receiver.close() has run
  caller,     \* how far each job's caller has got, and what it was told
  returned,   \* the rows a job's Ok result names
  down,       \* how far each shutdown call has got
  threads,    \* HandleInner.threads is still Some(..)
  wpc,        \* control state of the writer thread
  batch,      \* jobs of the batch still to run
  current,    \* the job whose closure is running
  scope,      \* writes that closure has tried so far
  txOpen,     \* the connection is inside a transaction (not autocommit)
  inBatch,    \* StateStore.in_writer_batch
  writes,     \* rows written in the open transaction
  saved,      \* the job's savepoint: the rows and staged publishes it goes back
              \* to, and whether it is itself the transaction
  staged,     \* StateStore.pending_publishes
  aborted,    \* SQLite rolled the batch's transaction back
  outcomes,   \* jobs that returned a JobOutcome, in order
  succeeded,  \* the ones whose JobOutcome says succeeded
  failure,    \* commit_failure is Some(..)
  acks,       \* closers whose shutdown message was received
  db,         \* committed rows
  stray,      \* rows whose fate is no longer tied to their job's answer
  published   \* rows announced on the event hub

chanVars   == <<queue, closed>>
downVars   == <<down, threads>>
jobVars    == <<current, scope, saved>>
txVars     == <<txOpen, inBatch, writes, aborted>>
vars == <<queue, closed, caller, returned, down, threads, wpc, batch,
          current, scope, txOpen, inBatch, writes, saved, staged, aborted,
          outcomes, succeeded, failure, acks, db, stray, published>>

Rows(j) == {<<j, k>> : k \in 1..Scopes}
AllRows == Jobs \X (1..Scopes)

CallerStates == {"idle", "sending", "waiting", "ok", "err", "stopped", "dropped"}
Answered == {"ok", "err", "stopped", "dropped"}
DownStates == {"idle", "sending", "acking", "acked", "refused", "joining", "done"}
WriterStates == {"recv", "collect", "begin", "savepoint", "job", "commit",
                 "flush", "settle", "refuse", "acks", "exited"}

Init ==
  /\ queue = <<>> /\ closed = FALSE
  /\ caller = [j \in Jobs |-> "idle"]
  /\ returned = [j \in Jobs |-> {}]
  /\ down = [c \in Closers |-> "idle"] /\ threads = TRUE
  /\ wpc = "recv" /\ batch = <<>> /\ current = NoJob /\ scope = 0
  /\ txOpen = FALSE /\ inBatch = FALSE /\ writes = {}
  /\ saved = [writes |-> {}, staged |-> 0, outer |-> FALSE]
  /\ staged = <<>> /\ aborted = FALSE
  /\ outcomes = <<>> /\ succeeded = {} /\ failure = FALSE /\ acks = <<>>
  /\ db = {} /\ stray = {} /\ published = {}
-----------------------------------------------------------------------------
(* Callers.                                                                 *)

\* A channel that takes one message too many.
HasRoomOffByOne == Len(queue) <= Capacity

\* A permit of the bounded channel is free.
HasRoom == Len(queue) < Capacity

\* A caller enters write / blocking_write.
Call(j) ==
  /\ j \notin Detached /\ caller[j] = "idle"
  /\ caller' = [caller EXCEPT ![j] = "sending"]
  /\ UNCHANGED <<queue, closed, returned, down, threads, wpc, batch, jobVars,
                 txVars, staged, outcomes, succeeded, failure, acks, db, stray, published>>

\* sender.send(..).await: waits for room, fails once the channel is closed.
Send(j) ==
  /\ caller[j] = "sending"
  /\ \/ /\ closed
        /\ caller' = [caller EXCEPT ![j] = "stopped"]
        /\ UNCHANGED queue
     \/ /\ ~closed /\ HasRoom
        /\ queue' = Append(queue, j)
        /\ caller' = [caller EXCEPT ![j] = "waiting"]
  /\ UNCHANGED <<closed, returned, down, threads, wpc, batch, jobVars,
                 txVars, staged, outcomes, succeeded, failure, acks, db, stray, published>>

\* write_detached: try_send, dropped when the queue is full or closed.
WriteDetached(j) ==
  /\ j \in Detached /\ caller[j] = "idle"
  /\ IF closed \/ ~HasRoom
     THEN caller' = [caller EXCEPT ![j] = "dropped"] /\ UNCHANGED queue
     ELSE caller' = [caller EXCEPT ![j] = "waiting"] /\ queue' = Append(queue, j)
  /\ UNCHANGED <<closed, returned, down, threads, wpc, batch, jobVars,
                 txVars, staged, outcomes, succeeded, failure, acks, db, stray, published>>

\* The caller's future is dropped while it waits for room: nothing is queued.
\* Dropped after the send, the job stays queued and runs all the same; only
\* its reply finds no receiver, which changes no state.
Abandon(j) ==
  /\ caller[j] = "sending"
  /\ caller' = [caller EXCEPT ![j] = "dropped"]
  /\ UNCHANGED <<chanVars, returned, downVars, wpc, batch, jobVars,
                 txVars, staged, outcomes, succeeded, failure, acks, db, stray, published>>

\* ack_receiver.await returns: acknowledged, or the writer is gone and its
\* sender with it, which is only logged.
AckWaitOver(c) == down[c] = "acked" \/ (down[c] = "acking" /\ wpc = "exited")

\* shutdown: send the message (an error means somebody closed the channel),
\* wait for the ack, take the thread handles if nobody has, join the writer.
Shutdown(c) ==
  /\ \/ down[c] = "idle" /\ down' = [down EXCEPT ![c] = "sending"]
                         /\ UNCHANGED <<queue, threads>>
     \/ /\ down[c] = "sending" /\ closed
        /\ down' = [down EXCEPT ![c] = "refused"] /\ UNCHANGED <<queue, threads>>
     \/ /\ down[c] = "sending" /\ ~closed /\ HasRoom
        /\ queue' = Append(queue, c)
        /\ down' = [down EXCEPT ![c] = "acking"] /\ UNCHANGED threads
     \/ /\ AckWaitOver(c) \/ down[c] = "refused"
        /\ down' = [down EXCEPT ![c] = IF threads THEN "joining" ELSE "done"]
        /\ threads' = FALSE /\ UNCHANGED queue
     \/ /\ down[c] = "joining" /\ wpc = "exited"
        /\ down' = [down EXCEPT ![c] = "done"] /\ UNCHANGED <<queue, threads>>
  /\ UNCHANGED <<caller, closed, returned, wpc, batch, jobVars,
                 txVars, staged, outcomes, succeeded, failure, acks, db, stray, published>>
-----------------------------------------------------------------------------
(* run_writer: collecting a batch.                                          *)

\* A shutdown message that leaves the channel open: its senders live on, so
\* blocking_recv never yields None.
TakeMessageLeavesOpen ==
  /\ queue # <<>>
  /\ queue' = Tail(queue) /\ UNCHANGED closed
  /\ IF Head(queue) \in Closers
     THEN acks' = Append(acks, Head(queue)) /\ UNCHANGED batch
     ELSE batch' = Append(batch, Head(queue)) /\ UNCHANGED acks

\* Take the next message; a shutdown message closes the channel but the
\* messages already queued are still delivered.
TakeMessage ==
  /\ queue # <<>>
  /\ queue' = Tail(queue)
  /\ IF Head(queue) \in Closers
     THEN closed' = TRUE /\ acks' = Append(acks, Head(queue)) /\ UNCHANGED batch
     ELSE batch' = Append(batch, Head(queue)) /\ UNCHANGED <<closed, acks>>

BatchOpen == Len(batch) < BatchMax

\* blocking_recv, then try_recv until the batch is full or the queue empty.
Receive ==
  /\ wpc \in {"recv", "collect"}
  /\ wpc = "collect" => BatchOpen
  /\ TakeMessage
  /\ wpc' = "collect"
  /\ UNCHANGED <<caller, returned, downVars, jobVars, txVars, staged,
                 outcomes, succeeded, failure, db, stray, published>>

\* The inner loop waits for the batch to fill up (blocking_recv for try_recv).
EndCollectWhenFull ==
  /\ wpc = "collect"
  /\ ~BatchOpen \/ (queue = <<>> /\ closed)
  /\ wpc' = IF batch = <<>> THEN "recv" ELSE "begin"
  /\ UNCHANGED <<caller, chanVars, returned, downVars, batch, jobVars, txVars,
                 staged, outcomes, succeeded, failure, acks, db, stray, published>>

EndCollect ==
  /\ wpc = "collect"
  /\ ~BatchOpen \/ queue = <<>>
  /\ wpc' = IF batch = <<>> THEN "recv" ELSE "begin"
  /\ UNCHANGED <<caller, chanVars, returned, downVars, batch, jobVars, txVars,
                 staged, outcomes, succeeded, failure, acks, db, stray, published>>

\* The loop is left before the batch just collected has run.
EndLoopBeforeBatch ==
  /\ wpc \in {"recv", "begin"} /\ closed /\ queue = <<>>
  /\ wpc' = "acks"
  /\ UNCHANGED <<caller, chanVars, returned, downVars, batch, jobVars, txVars,
                 staged, outcomes, succeeded, failure, acks, db, stray, published>>

\* blocking_recv yields None: the channel is closed and drained.
EndLoop ==
  /\ wpc = "recv" /\ closed /\ queue = <<>>
  /\ wpc' = "acks"
  /\ UNCHANGED <<caller, chanVars, returned, downVars, batch, jobVars, txVars,
                 staged, outcomes, succeeded, failure, acks, db, stray, published>>

\* Answer the shutdown callers one by one, then the thread ends.
Acknowledge ==
  /\ wpc = "acks"
  /\ IF acks = <<>>
     THEN wpc' = "exited" /\ UNCHANGED <<acks, down>>
     ELSE /\ acks' = Tail(acks)
          /\ down' = [down EXCEPT ![Head(acks)] = "acked"]
          /\ UNCHANGED wpc
  /\ UNCHANGED <<caller, chanVars, returned, threads, batch, jobVars, txVars,
                 staged, outcomes, succeeded, failure, db, stray, published>>
-----------------------------------------------------------------------------
(* run_batch.                                                               *)

\* BEGIN IMMEDIATE; it fails on lock contention, on I/O errors, and always
\* when an earlier transaction could not be rolled back.
Begin ==
  /\ wpc = "begin"
  /\ \/ /\ ~txOpen
        /\ txOpen' = TRUE /\ inBatch' = TRUE /\ aborted' = FALSE
        /\ wpc' = "savepoint"
     \/ /\ wpc' = "refuse"
        /\ UNCHANGED <<txOpen, inBatch, aborted>>
  /\ UNCHANGED <<caller, chanVars, returned, downVars, batch, jobVars, writes,
                 staged, outcomes, succeeded, failure, acks, db, stray, published>>

\* What a caller reads from its reply channel.
Reply(j, ok) == caller' = [caller EXCEPT ![j] = IF ok THEN "ok" ELSE "err"]

\* BEGIN failed: every job settles with the error, none of them ran.
Refuse ==
  /\ wpc = "refuse"
  /\ IF batch = <<>>
     THEN wpc' = "recv" /\ UNCHANGED <<batch, caller>>
     ELSE /\ Reply(Head(batch), FALSE)
          /\ batch' = Tail(batch)
          /\ UNCHANGED wpc
  /\ UNCHANGED <<chanVars, returned, downVars, jobVars, txVars, staged,
                 outcomes, succeeded, failure, acks, db, stray, published>>

\* Back in autocommit.
EndTransaction == txOpen' = FALSE /\ writes' = {}

\* A statement fails: alone, or (disk full, I/O, memory) SQLite rolls the
\* whole transaction back with it.
StatementFails == \/ UNCHANGED <<txOpen, writes>>
                  \/ txOpen /\ EndTransaction

\* A job that is only told why it cannot run: the batch was rolled back, or
\* its savepoint could not be opened.  A SAVEPOINT that fails with the whole
\* transaction is not noticed: `aborted' is only set after a job has run.
SkipJob ==
  /\ wpc = "savepoint" /\ batch # <<>>
  /\ outcomes' = Append(outcomes, Head(batch))
  /\ batch' = Tail(batch)
  /\ \/ UNCHANGED <<txOpen, writes>>
     \/ SavepointsMayFail /\ txOpen /\ EndTransaction
  /\ UNCHANGED <<caller, chanVars, returned, downVars, wpc, jobVars, inBatch, aborted,
                 staged, succeeded, failure, acks, db, stray, published>>

\* SAVEPOINT acps_job; run the closure.  Outside a transaction SAVEPOINT
\* opens one, which ends with the savepoint.
StartJob ==
  /\ wpc = "savepoint" /\ batch # <<>> /\ ~aborted
  /\ current' = Head(batch) /\ batch' = Tail(batch)
  /\ scope' = 0
  /\ saved' = [writes |-> writes, staged |-> Len(staged), outer |-> ~txOpen]
  /\ txOpen' = TRUE
  /\ wpc' = "job"
  /\ UNCHANGED <<caller, chanVars, returned, downVars, inBatch, writes, aborted, staged,
                 outcomes, succeeded, failure, acks, db, stray, published>>

ScopeAlwaysAllowed == TRUE

\* begin_immediate refuses a scope when the batch's transaction is gone:
\* inside the batch, but back in autocommit.
ScopeAllowed == ~(~txOpen /\ inBatch)

\* publish: staged while a transaction or a batch is open, else immediate.
Publish(row) ==
  IF ~txOpen /\ ~inBatch
  THEN published' = published \cup {row} /\ UNCHANGED staged
  ELSE staged' = Append(staged, row) /\ UNCHANGED published

\* The next row of the running job.
NextRow == <<current, scope + 1>>
Wrote(row) == returned' = [returned EXCEPT ![current] = @ \cup {row}]

\* One write scope of the running job.  Its row is written in the open
\* transaction, or, were it allowed after a rollback, in a transaction of
\* its own; or the scope fails.  The closure may go on after a failure.
Scope ==
  /\ wpc = "job" /\ scope < Scopes /\ NextRow \notin Bare
  /\ scope' = scope + 1
  /\ \/ /\ ScopeAllowed
        /\ Publish(NextRow) /\ Wrote(NextRow)
        /\ IF txOpen THEN writes' = writes \cup {NextRow} /\ UNCHANGED db
                     ELSE db' = db \cup {NextRow} /\ UNCHANGED writes
        /\ UNCHANGED txOpen
     \/ StatementFails /\ UNCHANGED <<staged, published, returned, db>>
  /\ UNCHANGED <<caller, chanVars, downVars, wpc, batch, current, saved, inBatch,
                 aborted, outcomes, succeeded, failure, acks, stray>>

\* connection().execute outside any scope: nothing is published, and after
\* SQLite's own rollback the statement commits by itself.
BareWrite ==
  /\ wpc = "job" /\ scope < Scopes /\ NextRow \in Bare
  /\ scope' = scope + 1
  /\ \/ /\ Wrote(NextRow)
        /\ IF txOpen
           THEN writes' = writes \cup {NextRow} /\ UNCHANGED <<db, stray>>
           ELSE db' = db \cup {NextRow} /\ stray' = stray \cup {NextRow} /\ UNCHANGED writes
        /\ UNCHANGED txOpen
     \/ StatementFails /\ UNCHANGED <<returned, db, stray>>
  /\ UNCHANGED <<caller, chanVars, downVars, wpc, batch, current, saved, inBatch, staged,
                 aborted, outcomes, succeeded, failure, acks, published>>

\* discard_publishes_after(keep).
Truncate(s, keep) == SubSeq(s, 1, keep)

\* RELEASE: the rows stay in the batch's transaction.  When the savepoint is
\* the transaction, they are committed here and now.
Release ==
  IF txOpen /\ saved.outer
  THEN /\ EndTransaction
       /\ db' = db \cup writes /\ stray' = stray \cup writes
  ELSE UNCHANGED <<txOpen, writes, db, stray>>

RollbackToForgotten == UNCHANGED <<txOpen, writes, db, stray>>

\* ROLLBACK TO the job's savepoint, and RELEASE.  A failure is only logged:
\* without a transaction there is nothing to undo; inside one the job's rows
\* stay in it.  (Bound: a savepoint that is itself the transaction, the
\* result of one such failure, does not meet a second one.)
RollbackTo ==
  /\ UNCHANGED db
  /\ IF txOpen /\ saved.outer
     THEN EndTransaction /\ UNCHANGED stray
     ELSE /\ UNCHANGED txOpen
          /\ \/ writes' = (IF txOpen THEN saved.writes ELSE writes) /\ UNCHANGED stray
             \/ /\ SavepointsMayFail /\ txOpen /\ UNCHANGED writes
                /\ stray' = stray \cup (writes \ saved.writes)

\* The closure returns.  A failed or panicked job is rolled back alone; the
\* reply sender of a panicked one is dropped, which its caller sees as err.
\* The statements that end the savepoint may lose the transaction too.
EndJob(result) ==
  /\ wpc = "job"
  /\ \/ IF result = "ok" THEN Release ELSE RollbackTo
     \/ txOpen /\ EndTransaction /\ UNCHANGED <<db, stray>>
  /\ IF result = "ok"
     THEN UNCHANGED <<staged, returned>>
     ELSE /\ staged' = Truncate(staged, saved.staged)
          /\ returned' = [returned EXCEPT ![current] = {}]
  /\ succeeded' = IF result = "ok" THEN succeeded \cup {current} ELSE succeeded
  /\ IF result = "panic"
     THEN Reply(current, FALSE) /\ UNCHANGED outcomes
     ELSE /\ outcomes' = Append(outcomes, current)
          /\ UNCHANGED caller
  /\ aborted' = ~txOpen'
  /\ current' = NoJob
  /\ wpc' = "savepoint"
  /\ UNCHANGED <<chanVars, downVars, batch, scope, saved, inBatch,
                 failure, acks, published>>

EndBatch ==
  /\ wpc = "savepoint" /\ batch = <<>>
  /\ inBatch' = FALSE
  /\ wpc' = "commit"
  /\ UNCHANGED <<caller, chanVars, returned, downVars, batch, jobVars, txOpen,
                 writes, aborted, staged, outcomes, succeeded, failure, acks, db, stray, published>>

DiscardNothing == UNCHANGED staged

\* discard_publishes_after(0), when the commit failed.
DiscardAll == staged' = Truncate(staged, 0)

\* COMMIT, or its failure (certain without a transaction) followed by
\* ROLLBACK, which may itself fail and then leaves the transaction open.
Commit ==
  /\ wpc = "commit"
  /\ \/ /\ ~aborted /\ txOpen
        /\ db' = db \cup writes /\ EndTransaction
        /\ failure' = FALSE
        /\ wpc' = "flush" /\ UNCHANGED staged
     \/ /\ \/ EndTransaction
           \/ UNCHANGED <<writes, txOpen>>
        /\ failure' = TRUE
        /\ DiscardAll
        /\ wpc' = "settle" /\ UNCHANGED db
  /\ UNCHANGED <<caller, chanVars, returned, downVars, batch, jobVars, inBatch,
                 aborted, outcomes, succeeded, acks, stray, published>>

\* flush_publishes, after a successful commit and before any reply.
Flush ==
  /\ wpc = "flush"
  /\ published' = published \cup Range(staged)
  /\ staged' = <<>>
  /\ wpc' = "settle"
  /\ UNCHANGED <<caller, chanVars, returned, downVars, batch, jobVars, txVars,
                 outcomes, succeeded, failure, acks, db, stray>>

\* settle(commit_failure): Ok turns into an error when the commit failed.
SettlesOk(j) == j \in succeeded /\ ~failure

\* Send the replies in order.
Settle ==
  /\ wpc = "settle"
  /\ IF outcomes = <<>>
     THEN wpc' = "recv" /\ UNCHANGED <<outcomes, caller>>
     ELSE /\ Reply(Head(outcomes), SettlesOk(Head(outcomes)))
          /\ outcomes' = Tail(outcomes)
          /\ UNCHANGED wpc
  /\ UNCHANGED <<chanVars, returned, downVars, batch, jobVars, txVars,
                 staged, succeeded, failure, acks, db, stray, published>>
-----------------------------------------------------------------------------
RunJob == SkipJob \/ StartJob \/ Scope \/ BareWrite \/ (\E r \in {"ok", "err", "panic"} : EndJob(r))

Writer == \/ Receive \/ EndCollect \/ EndLoop \/ Acknowledge
          \/ Begin \/ Refuse \/ RunJob \/ EndBatch \/ Commit \/ Flush \/ Settle

\* Everything was shut down and every caller answered: the daemon exits.
Finished ==
  /\ wpc = "exited"
  /\ \A j \in Jobs : caller[j] \in Answered
  /\ \A c \in Closers : down[c] = "done"
  /\ UNCHANGED vars

Next == \/ \E j \in Jobs : Call(j) \/ Send(j) \/ WriteDetached(j) \/ Abandon(j)
        \/ \E c \in Closers : Shutdown(c)
        \/ Writer
        \/ Finished

\* The writer is an OS thread that never waits inside a batch; a sender and
\* a closer are tokio tasks, polled again whenever they can make progress.
Fairness == /\ WF_vars(Writer)
            /\ \A j \in Jobs : WF_vars(Send(j))
            /\ \A c \in Closers : WF_vars(down[c] # "idle" /\ Shutdown(c))

Spec == Init /\ [][Next]_vars /\ Fairness
-----------------------------------------------------------------------------
(* Properties.                                                              *)

\* Every variable holds a value of the type its Rust counterpart has; the
\* channel and the batch never exceed their bounds.
TypeOK ==
  /\ queue \in Seq(Jobs \cup Closers) /\ Len(queue) <= Capacity
  /\ closed \in BOOLEAN
  /\ caller \in [Jobs -> CallerStates]
  /\ returned \in [Jobs -> SUBSET AllRows]
  /\ down \in [Closers -> DownStates] /\ threads \in BOOLEAN
  /\ wpc \in WriterStates
  /\ batch \in Seq(Jobs) /\ Len(batch) <= BatchMax
  /\ current \in Jobs \cup {NoJob}
  /\ scope \in 0..Scopes
  /\ txOpen \in BOOLEAN /\ inBatch \in BOOLEAN
  /\ writes \subseteq AllRows
  /\ saved \in [writes : SUBSET AllRows, staged : Nat, outer : BOOLEAN]
  /\ staged \in Seq(AllRows)
  /\ aborted \in BOOLEAN /\ failure \in BOOLEAN
  /\ outcomes \in Seq(Jobs) /\ succeeded \subseteq Jobs
  /\ acks \in Seq(Closers)
  /\ db \subseteq AllRows /\ stray \subseteq AllRows /\ published \subseteq AllRows

\* write: "return once its writes are committed".  A caller answered ok finds
\* every row its job reported in the database, whatever happened to the other
\* jobs of the batch.
OkIsDurable == \A j \in Jobs : caller[j] = "ok" => returned[j] \subseteq db

Failed(j) == caller[j] \in {"err", "stopped", "dropped"}

\* A caller answered with any error (job error, panic, refused BEGIN, lost
\* savepoint, failed COMMIT, stopped writer, full queue) finds no row of its
\* job in the database, but for the stray ones: a bare statement that ran
\* after SQLite's own rollback, and rows that a failed SAVEPOINT or ROLLBACK
\* TO took out of the job's control.
ErrLeavesNothing == \A j \in Jobs : Failed(j) => Rows(j) \cap db \subseteq stray

\* Only those three ways lead out: a row written in a scope never strays
\* while the savepoint statements work.
OnlyBareRowsStray == SavepointsMayFail \/ stray \subseteq Bare

\* publish: "once the write is durable".  No subscriber is ever told of a row
\* that a rollback removed.
PublishedIsDurable == published \subseteq db

\* A caller that saw its write succeed has already been preceded by the live
\* announcement of its rows (bare writes announce nothing): flush_publishes
\* runs before the first reply.
OkIsPublished == \A j \in Jobs : caller[j] = "ok" => returned[j] \ Bare \subseteq published

\* What a caller is told is what happened: durable if ok; if not, without trace
\* but for stray rows, also when another job of its batch made SQLite roll the
\* whole transaction back.
AnswersAreTrue == OkIsDurable /\ ErrLeavesNothing

\* Live events follow commits exactly: none for what was rolled back, and none
\* still to come for a write that was answered.
EventsFollowCommits == PublishedIsDurable /\ OkIsPublished

\* shutdown: "Commit everything already queued, then stop".  When a closer is
\* acknowledged, no accepted job is still queued, running or unanswered.
AckMeansDrained ==
  (\E c \in Closers : down[c] = "acked")
    => queue = <<>> /\ \A j \in Jobs : caller[j] # "waiting"

\* Every write that was called is eventually answered, also when the writer
\* is shut down, a transaction stays open or every statement fails.
EveryWriteAnswered ==
  \A j \in Jobs : caller[j] \in {"sending", "waiting"} ~> caller[j] \in Answered

\* Every shutdown call returns, in any interleaving of several of them.
ShutdownReturns == \A c \in Closers : down[c] # "idle" ~> down[c] = "done"

-----------------------------------------------------------------------------
(* The inductive invariant behind the safety properties.                    *)

\* What each control state of the writer says about its local variables.
ControlInv ==
  /\ wpc \in {"recv", "commit", "flush", "settle", "acks", "exited"} => batch = <<>>
  /\ wpc \notin {"savepoint", "job", "commit", "flush", "settle"} => outcomes = <<>>
  /\ wpc \notin {"savepoint", "job", "commit", "flush"} => staged = <<>>
  /\ IF wpc = "job" THEN current \in Jobs ELSE current = NoJob
  /\ inBatch <=> wpc \in {"savepoint", "job"}
  /\ wpc \in {"savepoint", "commit"} => (aborted => ~txOpen) /\ (txOpen \/ aborted \/ SavepointsMayFail)
  /\ wpc = "job" => ~aborted /\ saved.staged <= Len(staged)
  /\ wpc = "flush" => ~failure
  /\ wpc \in {"acks", "exited"} => closed /\ queue = <<>>
  /\ ~txOpen => writes = {}

\* An accepted job is in exactly one place, once, until it is answered.
Queued == Range(queue) \cap Jobs
Running == {current} \cap Jobs
PlaceInv ==
  /\ IsInjective(queue) /\ IsInjective(batch) /\ IsInjective(outcomes)
  /\ Queued \cap (Range(batch) \cup Running \cup Range(outcomes)) = {}
  /\ Range(batch) \cap (Running \cup Range(outcomes)) = {}
  /\ Running \cap Range(outcomes) = {}
  /\ {j \in Jobs : caller[j] = "waiting"} = Queued \cup Range(batch) \cup Running \cup Range(outcomes)
  /\ \A c \in Range(queue) \cap Closers : down[c] = "acking"
  /\ \A c \in Closers : down[c] = "acked" => wpc \in {"acks", "exited"}
  /\ succeeded \cap (Queued \cup Range(batch) \cup Running) = {}
  /\ \A j \in succeeded : caller[j] \notin {"idle", "sending"}

\* The jobs whose rows are in the open transaction, and the ones whose rows
\* are committed although their callers have not been answered yet.
InTransaction == {current} \cup (Range(outcomes) \cap succeeded)
Committed == {j \in Jobs : \/ caller[j] = "ok"
                           \/ /\ wpc \in {"flush", "settle"} /\ ~failure
                              /\ j \in Range(outcomes) \cap succeeded}

\* The batch's own transaction is open, so what it holds will be committed.
BatchOpenTx == txOpen /\ (wpc \in {"savepoint", "commit"} \/ (wpc = "job" /\ ~saved.outer))

\* The job will be answered with an error, whatever becomes of the batch.
Doomed(j) ==
  \/ caller[j] = "err"
  \/ wpc = "job" /\ j = current /\ ~txOpen
  \/ /\ j \in Range(outcomes)
     /\ \/ j \notin succeeded
        \/ wpc \in {"savepoint", "commit"} /\ aborted
        \/ wpc = "settle" /\ failure

\* Which rows are in the transaction, in the database, staged and announced.
DataInv ==
  /\ \A j \in Jobs : returned[j] \subseteq Rows(j)
  /\ \A j \in Jobs : caller[j] \in {"idle", "sending"} => returned[j] = {}
  /\ \A j \in Queued \cup Range(batch) : returned[j] = {}
  /\ BatchOpenTx =>
       /\ Range(staged) = writes \ (Bare \cup stray)
       /\ \A j \in Jobs : (writes \ stray) \cap Rows(j) = IF j \in InTransaction THEN returned[j] ELSE {}
  /\ BatchOpenTx /\ wpc = "job" =>
       /\ Range(SubSeq(staged, 1, saved.staged)) = saved.writes \ (Bare \cup stray)
       /\ saved.writes = writes \ Rows(current)
  /\ wpc = "job" /\ txOpen /\ saved.outer => SavepointsMayFail /\ writes \subseteq Rows(current)
  /\ \A j \in Jobs : (db \ stray) \cap Rows(j) = IF j \in Committed THEN returned[j] ELSE {}
  /\ \A j \in Jobs : Rows(j) \cap stray # {} => Doomed(j)
  /\ \A j \in Committed :
       returned[j] \ Bare \subseteq published \cup (IF wpc = "flush" THEN Range(staged) ELSE {})
  /\ \A j \in Jobs : caller[j] = "ok" => returned[j] \ Bare \subseteq published
  /\ wpc = "flush" => Range(staged) \subseteq db
  /\ published \subseteq db
  /\ OnlyBareRowsStray

WriterInv == TypeOK /\ ControlInv /\ PlaceInv /\ DataInv
-----------------------------------------------------------------------------
\* What the rest of the daemon can see of a job.
Verdict == [j \in Jobs |-> CASE caller[j] = "ok" -> "ok"
                             [] Failed(j) -> "err"
                             [] OTHER -> "open"]
Reported == [j \in Jobs |-> IF caller[j] = "ok" THEN returned[j] ELSE {}]

Promise == INSTANCE DurableWrites
             WITH Scopes <- 1..Scopes, Silent <- Bare, durable <- db, live <- published,
                  verdict <- Verdict, reported <- Reported

\* The writer implements DurableWrites: every step of callers, writer thread
\* and closers is one of its commits, announcements or answers, or invisible.
ImplementsPromise == Promise!Spec
=============================================================================
