------------------------------ MODULE SinkOutbox ------------------------------
(***************************************************************************)
(* The delivery outbox of the external logging sink (state/sink_outbox.rs) *)
(* and the worker that uploads it (runtime/logging/supabase_sink.rs).      *)
(*                                                                         *)
(* A row's content is the number of times it was written: `content` is     *)
(* what SQLite holds and `remote` what the mirror holds.  Writers enqueue  *)
(* in the transaction of the write; the worker claims a batch, reads its   *)
(* content, uploads it and acknowledges it, each in a step of its own, so  *)
(* rows are rewritten and deleted between any two of them.  Every write of *)
(* the worker may fail, an upload may be refused, applied without an       *)
(* answer, or time out and be applied later, and the daemon may crash.     *)
(***************************************************************************)
EXTENDS Naturals, FiniteSets

CONSTANTS Rows,        \* mirrored rows, by outbox id
          Tables,      \* mirrored tables
          TableOf,     \* the table of each row
          BatchSize,   \* BATCH_SIZE: rows claimed by one poll
          MaxContent,  \* bound: writes of one row
          MaxWrites,   \* bound: writes of each row, at most MaxContent
          Deletable,   \* bound: rows that are deleted in a behaviour
          MaxLate,     \* bound: timed-out uploads still on their way
          MaxEnds      \* bound: shutdowns and crashes in one behaviour

ASSUME TableAssumption == TableOf \in [Rows -> Tables]
ASSUME BatchAssumption == BatchSize \in Nat \ {0}
ASSUME BoundAssumption ==
  /\ MaxContent \in Nat /\ MaxLate \in Nat /\ MaxEnds \in Nat
  /\ MaxWrites \in [Rows -> 0..MaxContent]

VARIABLES content,   \* version of the source row, 0 before its first write
          live,      \* rows present in their source table
          status,    \* sink_outbox.status, "none" without an outbox row
          due,       \* rows whose next_attempt_at is unset or has passed
          older,     \* <<q, r>>: both are owed and q has the smaller created_at
          phase,     \* the worker's loop, its final drain, or past the drain's deadline
          pc,        \* where the worker stands in process_one_batch
          todo,      \* claimed rows whose group is yet to be uploaded
          payload,   \* versions read for the group in hand, 0 for rows not in it
          failed,    \* rows of the group that could not be hydrated or redacted
          acked,     \* rows of the group found deleted
          stopping,  \* the shutdown permit is stored
          remote,    \* version the mirror holds, 0 for none
          late,      \* payloads of timed-out uploads that may still be applied
          replayed,  \* history: rows whose mirrored version a late upload put there
          unlogged,  \* history: rows last written without external logging
          ends       \* shutdowns and crashes so far

sourceVars == <<content, live, unlogged>>
queueVars  == <<status, due, older>>
groupVars  == <<payload, failed, acked>>
mirrorVars == <<remote, late, replayed>>
sinkVars == <<content, live, status, due, older, phase, pc, todo, payload, failed,
              acked, stopping, remote, late, replayed, unlogged, ends>>

Phases == {"loop", "drain", "overdue"}
Stages == {"idle", "group", "park", "ack", "send", "sent", "release", "stopped"}
Versions == 0..MaxContent
NoPayload == [r \in Rows |-> 0]
InPayload == {r \in Rows : payload[r] # 0}

Init ==
  /\ content = NoPayload /\ live = {}
  /\ status = [r \in Rows |-> "none"] /\ due = {} /\ older = {}
  /\ phase = "loop" /\ pc = "idle" /\ todo = {} /\ stopping = FALSE
  /\ payload = NoPayload /\ failed = {} /\ acked = {}
  /\ remote = NoPayload /\ late = {} /\ replayed = {} /\ unlogged = {}
  /\ ends = 0

-----------------------------------------------------------------------------
(* Writers of mirrored rows *)

\* Rows the outbox has yet to deliver, and their order without some of them.
Owed == {r \in Rows : status[r] \in {"pending", "sending"}}
Without(rows) == {p \in older : p[1] \notin rows /\ p[2] \notin rows}

\* enqueue: insert the outbox row or re-flag it, with a fresh created_at.
Enqueue(r) ==
  /\ status' = [status EXCEPT ![r] = "pending"]
  /\ due' = due \cup {r}
  /\ older' = Without({r}) \cup {<<q, r>> : q \in Owed \ {r}}

\* persist_with_outbox: the row and, where the store has external logging on, its outbox
\* row in one transaction.  A daemon turns it on for its own store when the sink is
\* configured; a daemon without the sink and the stores that installers and the CLI open
\* write the same tables with it off.
Write(r) ==
  /\ content[r] < MaxWrites[r]
  /\ content' = [content EXCEPT ![r] = @ + 1]
  /\ live' = live \cup {r}
  /\ \/ Enqueue(r) /\ unlogged' = unlogged \ {r}
     \/ UNCHANGED queueVars /\ unlogged' = unlogged \cup {r}
  /\ UNCHANGED <<phase, pc, todo, groupVars, stopping, mirrorVars, ends>>

\* delete_session: the session rows are enqueued where external logging is on, their
\* prompts and events never are.
Delete(r) ==
  /\ r \in live \cap Deletable
  /\ live' = live \ {r}
  /\ Enqueue(r) \/ UNCHANGED queueVars
  /\ UNCHANGED <<content, unlogged, phase, pc, todo, groupVars, stopping, mirrorVars, ends>>

\* next_attempt_at passes.
Elapse(r) ==
  /\ status[r] # "none" /\ r \notin due
  /\ due' = due \cup {r}
  /\ UNCHANGED <<sourceVars, status, older, phase, pc, todo, groupVars, stopping,
                 mirrorVars, ends>>

-----------------------------------------------------------------------------
(* The worker: claim a batch *)

\* next_batch: the oldest BatchSize rows that are pending and due.
Claimable(st) == {r \in due : st[r] = "pending"}
Oldest(st) ==
  {r \in Claimable(st) :
     Cardinality({q \in Claimable(st) : <<q, r>> \in older}) < BatchSize}

\* No recovery of stranded rows.
RecoverNothing == status

\* recover_in_flight: rows an earlier poll left in `sending` are pending again.
Recover == [r \in Rows |-> IF status[r] = "sending" THEN "pending" ELSE status[r]]

\* Where the worker goes after a poll that yields nothing: the drain ends with it.
AfterEmptyPoll == IF phase = "loop" THEN "idle" ELSE "stopped"

\* A drain that goes on for as long as there are rows to claim.
MayPollAnyhow == pc = "idle" /\ (phase # "loop" \/ ~stopping)

\* A poll is taken in the loop unless the shutdown permit is there, and in the drain
\* until its deadline.
MayPoll == pc = "idle" /\ (phase = "drain" \/ (phase = "loop" /\ ~stopping))

\* The one statement of next_batch: the oldest rows are flipped to `sending`.
Claimed(from) == [r \in Rows |-> IF r \in Oldest(from) THEN "sending" ELSE from[r]]

\* process_one_batch, its write: recover, then claim what `from` leaves pending.
Claim(from) ==
  /\ MayPoll
  /\ todo' = Oldest(from)
  /\ status' = Claimed(from)
  /\ pc' = IF Oldest(from) = {} THEN AfterEmptyPoll ELSE "group"
  /\ UNCHANGED <<sourceVars, due, older, phase, groupVars, stopping, mirrorVars, ends>>

Poll == Claim(Recover)

\* The recovery fails and is only logged; the claim goes ahead without it.
PollUnrecovered == (\E r \in Rows : status[r] = "sending") /\ Claim(status)

\* The write fails: the drain gives up, the loop backs off.  When the recovery failed
\* together with the whole transaction, the claim has committed by itself all the same
\* (BareWrite in StateWriter), and nobody uploads what it claimed.
PollFails ==
  /\ MayPoll
  /\ status' \in {status, Claimed(status)}
  /\ pc' = AfterEmptyPoll
  /\ UNCHANGED <<sourceVars, due, older, phase, todo, groupVars, stopping, mirrorVars, ends>>

-----------------------------------------------------------------------------
(* The worker: upload one group *)

AfterGroup(rest) == IF rest = {} THEN "idle" ELSE "group"
Group(t) == {r \in todo : TableOf[r] = t}

\* The group in hand is finished, or given up with its rows as they are.
EndGroup ==
  /\ pc' = AfterGroup(todo)
  /\ payload' = NoPayload /\ failed' = {} /\ acked' = {}

\* A pooled reader that was left in a transaction reads its old snapshot.
HydrateFromSnapshot(t, bad) ==
  /\ pc = "group" /\ Group(t) # {} /\ bad \subseteq Group(t)
  /\ todo' = todo \ Group(t)
  /\ failed' = bad
  /\ acked' = (Group(t) \ bad) \ live
  /\ \E snapshot \in [Group(t) -> Versions \ {0}] :
       /\ \A r \in Group(t) : snapshot[r] <= content[r]
       /\ payload' = [r \in Rows |->
                       IF r \in (Group(t) \cap live) \ bad THEN snapshot[r] ELSE 0]
  /\ pc' = "park"
  /\ UNCHANGED <<sourceVars, queueVars, phase, stopping, mirrorVars, ends>>

\* upload_group, its read: the current content of every row that still exists, less the
\* rows in `bad` whose hydration or redaction fails.
Hydrate(t, bad) ==
  /\ pc = "group" /\ Group(t) # {} /\ bad \subseteq Group(t)
  /\ todo' = todo \ Group(t)
  /\ failed' = bad
  /\ acked' = (Group(t) \ bad) \ live
  /\ payload' = [r \in Rows |-> IF r \in (Group(t) \cap live) \ bad THEN content[r] ELSE 0]
  /\ pc' = "park"
  /\ UNCHANGED <<sourceVars, queueVars, phase, stopping, mirrorVars, ends>>

\* The read fails: the group is skipped and stays claimed.
HydrateFails(t) ==
  /\ pc = "group" /\ Group(t) # {}
  /\ todo' = todo \ Group(t)
  /\ pc' = AfterGroup(todo \ Group(t))
  /\ UNCHANGED <<sourceVars, queueVars, phase, groupVars, stopping, mirrorVars, ends>>

\* Marks without the `status = 'sending'` guard.
StillClaimedOrNot(rows) == rows

\* mark_sent and mark_failure touch only the rows that are still claimed.
StillClaimed(rows) == {r \in rows : status[r] = "sending"}

MarkSent(rows) ==
  /\ status' = [r \in Rows |-> IF r \in StillClaimed(rows) THEN "sent" ELSE status[r]]
  /\ older' = Without(StillClaimed(rows))
  /\ UNCHANGED due

\* A failure recorded as a status no claim looks for.
MarkFailureFinal(rows) ==
  /\ status' = [r \in Rows |-> IF r \in StillClaimed(rows) THEN "failed" ELSE status[r]]
  /\ due' = due \ StillClaimed(rows)
  /\ UNCHANGED older

MarkFailure(rows) ==
  /\ status' = [r \in Rows |-> IF r \in StillClaimed(rows) THEN "pending" ELSE status[r]]
  /\ due' = due \ StillClaimed(rows)
  /\ UNCHANGED older

\* Rows that could not be hydrated are put off for a day.
Park ==
  /\ pc = "park"
  /\ MarkFailure(failed)
  /\ failed' = {} /\ pc' = "ack"
  /\ UNCHANGED <<sourceVars, phase, todo, payload, acked, stopping, mirrorVars, ends>>

\* Deleted rows are acknowledged whatever becomes of the upload.
AckDeleted ==
  /\ pc = "ack"
  /\ MarkSent(acked)
  /\ acked' = {} /\ pc' = "send"
  /\ UNCHANGED <<sourceVars, phase, todo, payload, failed, stopping, mirrorVars, ends>>

\* The mirror's upsert: every row of the payload, whatever is there already.
Upsert(p) == [r \in Rows |-> IF p[r] # 0 THEN p[r] ELSE remote[r]]

\* send_batch returns Ok, or there is nothing to send.
SendOk ==
  /\ pc = "send"
  /\ remote' = Upsert(payload)
  /\ replayed' = replayed \ InPayload
  /\ pc' = "sent"
  /\ UNCHANGED <<sourceVars, queueVars, phase, todo, groupVars, stopping, late, ends>>

\* send_batch fails: refused by the mirror, or applied with the answer lost.
SendFails ==
  /\ pc = "send" /\ InPayload # {}
  /\ \/ UNCHANGED <<remote, replayed>>
     \/ remote' = Upsert(payload) /\ replayed' = replayed \ InPayload
  /\ pc' = "release"
  /\ UNCHANGED <<sourceVars, queueVars, phase, todo, groupVars, stopping, late, ends>>

\* send_batch times out and leaves a request that the mirror may still execute.
SendTimesOut ==
  /\ pc = "send" /\ InPayload # {}
  /\ Cardinality(late) < MaxLate
  /\ late' = late \cup {payload}
  /\ pc' = "release"
  /\ UNCHANGED <<sourceVars, queueVars, phase, todo, groupVars, stopping, remote, replayed, ends>>

AckSent ==
  /\ pc = "sent"
  /\ MarkSent(InPayload)
  /\ EndGroup
  /\ UNCHANGED <<sourceVars, phase, todo, stopping, mirrorVars, ends>>

Release ==
  /\ pc = "release"
  /\ MarkFailure(InPayload)
  /\ EndGroup
  /\ UNCHANGED <<sourceVars, phase, todo, stopping, mirrorVars, ends>>

\* A mark that has rows to write fails: upload_group returns early.
MarkFails ==
  /\ \/ pc = "park" /\ failed # {}
     \/ pc = "ack" /\ acked # {}
     \/ pc \in {"sent", "release"} /\ InPayload # {}
  /\ EndGroup
  /\ UNCHANGED <<sourceVars, queueVars, phase, todo, stopping, mirrorVars, ends>>

-----------------------------------------------------------------------------
(* Shutdown, crashes and the mirror *)

\* SupabaseSink::shutdown, and its Drop: the permit is stored until the worker looks.
Shutdown ==
  /\ pc # "stopped" /\ ~stopping /\ ends < MaxEnds
  /\ stopping' = TRUE
  /\ ends' = ends + 1
  /\ UNCHANGED <<sourceVars, queueVars, phase, pc, todo, groupVars, mirrorVars>>

BeginDrain ==
  /\ pc = "idle" /\ phase = "loop" /\ stopping
  /\ phase' = "drain"
  /\ UNCHANGED <<sourceVars, queueVars, pc, todo, groupVars, stopping, mirrorVars, ends>>

DrainDeadline ==
  /\ phase = "drain" /\ pc # "stopped"
  /\ phase' = "overdue"
  /\ UNCHANGED <<sourceVars, queueVars, pc, todo, groupVars, stopping, mirrorVars, ends>>

EndDrain ==
  /\ phase = "overdue" /\ pc = "idle"
  /\ pc' = "stopped"
  /\ UNCHANGED <<sourceVars, queueVars, phase, todo, groupVars, stopping, mirrorVars, ends>>

\* A new daemon spawns a new worker over the outbox it finds.
Spawn ==
  /\ phase' = "loop" /\ pc' = "idle" /\ todo' = {} /\ stopping' = FALSE
  /\ payload' = NoPayload /\ failed' = {} /\ acked' = {}
  /\ UNCHANGED <<sourceVars, queueVars, mirrorVars>>

Restart == pc = "stopped" /\ Spawn /\ UNCHANGED ends
Crash == pc # "stopped" /\ ends < MaxEnds /\ Spawn /\ ends' = ends + 1

\* A timed-out upload is applied after all.
LateArrival(p) ==
  /\ p \in late
  /\ remote' = Upsert(p)
  /\ late' = late \ {p}
  /\ replayed' = replayed \cup {r \in Rows : p[r] # 0}
  /\ UNCHANGED <<sourceVars, queueVars, phase, pc, todo, groupVars, stopping, ends>>

-----------------------------------------------------------------------------
WorkerStep ==
  \/ Poll \/ PollUnrecovered \/ PollFails
  \/ \E t \in Tables : HydrateFails(t) \/ \E bad \in SUBSET Group(t) : Hydrate(t, bad)
  \/ Park \/ AckDeleted \/ SendOk \/ SendFails \/ SendTimesOut
  \/ AckSent \/ Release \/ MarkFails
  \/ BeginDrain \/ EndDrain

Next ==
  \/ \E r \in Rows : Write(r) \/ Delete(r) \/ Elapse(r)
  \/ WorkerStep
  \/ Shutdown \/ DrainDeadline \/ Restart \/ Crash
  \/ \E p \in late : LateArrival(p)

\* The runtime polls the worker, the clock reaches the drain's deadline and every
\* next_attempt_at, and a daemon that ended is started again.
Fairness ==
  /\ WF_sinkVars(WorkerStep) /\ WF_sinkVars(DrainDeadline) /\ WF_sinkVars(Restart)
  /\ \A r \in Rows : WF_sinkVars(Elapse(r))

Spec == Init /\ [][Next]_sinkVars /\ Fairness

\* Steps in which the store or the mirror fails the worker.
Fault ==
  \/ PollUnrecovered \/ PollFails \/ SendFails \/ SendTimesOut \/ MarkFails
  \/ \E t \in Tables :
       HydrateFails(t) \/ \E bad \in (SUBSET Group(t)) \ {{}} : Hydrate(t, bad)

-----------------------------------------------------------------------------
(* Properties *)

\* Every variable holds a value of its type; an outbox row has one of its three statuses.
TypeOK ==
  /\ content \in [Rows -> Versions] /\ remote \in [Rows -> Versions]
  /\ live \in SUBSET Rows /\ due \in SUBSET Rows
  /\ status \in [Rows -> {"none", "pending", "sending", "sent"}]
  /\ older \in SUBSET (Rows \X Rows)
  /\ phase \in Phases /\ pc \in Stages /\ stopping \in BOOLEAN
  /\ todo \in SUBSET Rows /\ failed \in SUBSET Rows /\ acked \in SUBSET Rows
  /\ payload \in [Rows -> Versions]
  /\ late \in SUBSET [Rows -> Versions] /\ replayed \in SUBSET Rows
  /\ unlogged \in SUBSET Rows /\ ends \in 0..MaxEnds

\* A row whose content the mirror does not hold is still owed by the outbox, however the
\* worker, rewrites, deletions, failed marks and crashes interleave: an acknowledgement
\* of old content never settles new content (mark_sent, recover_in_flight).  Two ways to
\* lose content remain: a timed-out upload that the mirror executes later, and a last
\* write through a store that has external logging off.
UnmirroredIsOwed ==
  \A r \in live \ (replayed \cup unlogged) :
    remote[r] # content[r] => status[r] \in {"pending", "sending"}

\* What the two properties rest on: the mirror is never ahead, a payload is the current
\* content of the rows still claimed (short of a write without logging) and no older than any upload that timed out, and rows
\* found deleted are still deleted unless they were enqueued again.
GroupInv ==
  /\ \A r \in Rows : remote[r] <= content[r]
  /\ \A p \in late : \A r \in Rows :
       p[r] <= content[r] /\ (payload[r] # 0 => p[r] <= payload[r])
  /\ \A r \in Rows : payload[r] # 0 =>
       /\ remote[r] <= payload[r] /\ payload[r] <= content[r]
       /\ status[r] # "pending" /\ r \notin unlogged => payload[r] = content[r]
       /\ pc = "sent" => remote[r] = payload[r] \/ r \in replayed
  /\ \A r \in acked : status[r] = "sending" => r \notin live \ unlogged
  /\ pc \in {"idle", "group", "stopped"} => payload = NoPayload /\ acked = {}

\* The inductive invariant of the outbox.
SinkInv == TypeOK /\ UnmirroredIsOwed /\ GroupInv

\* Uploads are sequential and each reads the content of the moment, on whichever pooled
\* reader it gets, so a retry never takes the mirror back to older content; only an upload
\* that timed out and is executed later does (run_worker, upload_group).
MirrorNeverRegresses ==
  [][\A r \in Rows : remote[r] <= remote'[r] \/ r \in replayed']_sinkVars

\* Every row in the outbox is delivered in the end, provided the faults do end, also when
\* a failed mark, a swallowed recovery or a crash left it `sending` (run_worker's
\* recovery, retry and backoff).
EveryRowDelivered ==
  <>[][~Fault]_sinkVars =>
    \A r \in Rows : status[r] \in {"pending", "sending"} ~> status[r] = "sent"

\* A worker that is told to stop stops, even if uploads never succeed and rows keep
\* becoming due (the drain's deadline in run_worker).
SinkStops == stopping ~> (pc = "stopped" \/ ~stopping)

=============================================================================
