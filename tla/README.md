# A TLA+ verification of acp-stack

acp-stack is a daemon that runs a coding agent behind an HTTP and WebSocket API. It keeps
everything it knows in one SQLite database, mediates what the agent may do (permission
requests, shell commands, terminals), supervises the agent process and its sessions, and
can mirror its tables to an external Postgres. It is an async Rust program: tokio tasks,
one writer thread, futures that can be dropped at any `await`, and a database that
outlives crashes. That is where its hard behaviour lies, and what these modules are about.

Paths below are relative to the repository root (`src/` in `PROJECT.json`).

## 1. The system

| Component | State it keeps | Operations | Hard behaviour |
|---|---|---|---|
| State writer (`src/state/handle.rs`, `core.rs`) | bounded queue, open transaction, staged live events | `write`, `blocking_write`, `write_detached`, `shutdown` | batches of jobs in one transaction, SQLite rolling back on its own, commit failure, shutdown with a full queue |
| Permission service (`runtime/mediation/permissions.rs`, `state/permissions.rs`) | `permission_requests`, `permission_decisions`, the map of waiters | `request`, `approve_by_policy`, `approve`, `deny`, `cancel`, `cancel_pending_for_session`, timer | five deciders for one row, a decision before the waiter exists, a timer whose write fails |
| Command gateway and supervisor (`runtime/mediation/commands.rs`, `commands/supervisor.rs`, `state/commands.rs`) | `commands`, `running` and `awaiting_permission` registries, child processes | `submit`, `cancel`, supervisor task, startup sweep | dropped submit, cancel against exit and timeout, a write failing at any point, crash with a live child |
| Outbox and sink worker (`state/sink_outbox.rs`, `runtime/logging/supabase_sink.rs`) | `sink_outbox`, the batch in hand | enqueue, claim, hydrate, upload, acknowledge, retry, drain | rows rewritten while they are uploaded, stranded claims, an upload that times out and happens later |
| Startup sweeps (`cli/serve.rs`) | none of its own | prompt, permission, command, session sweeps | separate best-effort transactions, a crash between them |
| Prompt turns (`runtime/agent/supervisor/prompts.rs`, `state/sessions/prompts.rs`, `runtime/agent/sweeper.rs`) | `prompts`, registry of prompt handles | submit, settle, cancel, stall sweep, startup sweep | late answers against the stall sweeper, cancel tokens and a dead agent; a handle registered after its task runs |
| Sessions and locks (`supervisor/sessions.rs`, `session_locks.rs`) | `sessions`, dispatch gate, per-session locks, sessions each adapter has opened | attach, load, close, delete, idle sweep, demotion | a close or delete takes no lock; guards dropped before a turn has settled |
| Session change feed (`state/sessions/changes.rs`) | `change_seq`, tombstones, `pruned_through` | record, page, prune | pruning under a paging reader |
| Event hub and session sink (`events.rs`, `session_sink.rs`, `api/ws.rs`) | `events`, broadcast channel | publish, replay, subscribe | the gap between replay and live, lagging subscribers |
| ACP terminals (`acp_terminal.rs`) | registry of terminals, children | create, output, wait, kill, release, `drain_all` | create against `drain_all` |
| Agent supervisor and bridge (`supervisor.rs`, `supervisor/bridge.rs`, `acp_bridge.rs`, `api/routes/agent/lifecycle.rs`, `update.rs`) | `AgentState`, bridge, child process, exit monitors | start, stop, restart, queued restart, update, restart on crash | monitors that act without the mutation lock, handlers dropped in the middle |
| Agent switch (`api/routes/agent/switch.rs`, `switch_journal.rs`) | journal file, config file, session rows by target, live agent config | plan, rename, write, commit, apply, complete, resume | four stores that never change together, crashes and edits between them |
| Dependency apply (`state/deps_apply.rs`, `cli/deps_apply_worker.rs`, `api/routes/deps.rs`) | `deps_apply_runs` | claim, stamp, adopt, finish, reconcile | several processes, a dead owner, a reused pid, an unstamped row |
| Outbound rate limit, WebSocket registry, output streaming, policy, sandbox, installers, migrations, API, CLI, configuration | see `PROJECT.json` | | pure, sequential or kernel behaviour |

How they interact: every component writes through the state writer and awaits its reply;
a job stages live events which the writer publishes on the event hub after the commit.
The gateway asks the permission service for approval and holds the receiver of the
answer; operators decide through the API; the timer and session sweeps decide on their
own. Each write of a mirrored row puts a row into the outbox in the same transaction. The
agent supervisor hands its bridge to turns and sessions; a stop takes the dispatch gate
they read, a crash does not. The switch stops and starts agents and renames their
sessions while they run. Dependency applies meet only in their table. On startup the
daemon sweeps what a previous process left behind.

What makes each modelled part correct:

* **writer**: *ok* means durable and announced, *error* means nothing was left but what
  section 5 names, shutdown loses nothing, every call returns;
* **permissions**: one decision per request on record, answers and announcements agree
  with it, nobody who waits is forgotten;
* **gateway**: no child without approval or without a record, nothing left behind, a
  cancel is obeyed, every supervisor ends;
* **sink**: no content is lost, the mirror does not go backwards, delivery comes in the
  end, shutdown is bounded;
* **supervisor**: each in-between state has one owner who ends it, a running agent is
  watched, no child is left behind;
* **turns**: one turn per session, one verdict per turn, a cancel that reports success is
  true, a turn that no update renews is settled;
* **switch**: the journal never claims more than is done, an interrupted switch is
  finished as it was planned, a retry finishes it or collides;
* **dependency apply**: one install at a time, and the slot is never wedged.

## 2. The modules

| Module | What it is |
|---|---|
| `DurableWrites` | the promise the rest of the daemon builds on: a write commits as a whole, is announced, then answered, or leaves nothing; rows that stray from their job's transaction are named |
| `StateWriter` | the writer thread in detail; `ImplementsPromise` says that it implements `DurableWrites` |
| `Permissions` | the permission service; its writes are the atomic commit-or-fail steps of `DurableWrites` |
| `CommandGateway` | extends `Permissions`: gateway, supervisors and the startup sweeps on top of the permission service |
| `SinkOutbox` | outbox, worker and mirror |
| `AgentLife` | the promise turns and sessions build on: what bridges there are, when a stop holds the gate, when a crash demotes |
| `AgentSupervisor` | the supervisor in detail; `ImplementsLife` says that it implements `AgentLife` |
| `PromptTurns` | extends `AgentLife`: prompt turns and the sessions they run in, on top of the agent's life |
| `AgentSwitch` | the switch handler, its journal and what runs beside it |
| `DepsApply` | the apply slot and the processes that compete for it |
| `..._proofs`, one for each of the eight detailed modules | theorems and TLAPS proofs; `CommandGateway_proofs` extends `Permissions_proofs`, as its module extends `Permissions` |
| `MC_*` | what TLC instantiates, with the `.cfg` files |

Definitions named `...Only`, `...Always`, `...Nothing` and the like, marked as mutants,
are deliberately wrong forms of the definition below them. They are no part of the
specifications; they show that the properties notice the bug they describe.

### StateWriter

State: the channel (`queue`, `closed`), what each caller and each shutdown call has heard
(`caller`, `returned`, `down`), the writer's control state `wpc` and locals (`batch`,
`current`, `outcomes`, ...), the connection (`txOpen`, `writes`, savepoint `saved`), the
staged events and what is durable (`db`) and announced (`published`).

`Receive`/`EndCollect`/`EndLoop` are the loop of `run_writer`; `Begin`, `SkipJob`,
`StartJob`, `Scope`, `BareWrite`, `EndJob`, `EndBatch`, `Commit`, `Flush`, `Settle` and
`Refuse` are `run_batch` in order. Every SQLite call may fail; a failing statement may take
the whole transaction with it; a job may panic; a job may return Ok although one of its
writes failed, reporting only the rows it was told are written.

A job writes in `begin_immediate` scopes (`Scope`), which refuse to run once SQLite has
rolled the batch back, or with bare `connection().execute` statements (`BareWrite`, the rows
in `Bare`), which then commit on their own: the outbox marks and claims, dependency runs,
agent and auth rows. Two failures are only logged by `run_batch`, and `SavepointsMayFail`
lets them happen: a SAVEPOINT that fails together with the transaction, after which the next
job's savepoint is a transaction that its RELEASE commits (`saved.outer`, `Release`), and a
ROLLBACK TO that fails inside an open transaction, whose commit takes the failed job's rows
along (`RollbackTo`). Rows that get out in one of these three ways are `stray`. A bound: a
savepoint that is itself the transaction does not meet a second such failure. A failed
ROLLBACK TO of a nested scope (`TimedTransaction::drop`) is not modelled.

A shutdown call whose ack sender was dropped goes on (`AckWaitOver`). A process crash needs no action
of its own: what survives is `db`, and the invariants about `db` hold at every state.

### Permissions

State: the row and its decisions, the waiter map, the answer sent, where the asking
future stands (`asker`), events published, and per decider a task (`stage`, `verdict`).
A decision is three steps, because the code awaits between them: commit, answer the
waiter, publish. `Request`, `Insert`, `Register`, `Settle` are `request`; the re-read in
`Settle` and the spawning of the timer are one step (the re-read is the only await, and
nothing but the timer's own task can tell them apart). `After` says where a task goes with its
result, for the callers that look at it (timer, asker, sweep). `Drop` and
`DropDuringInsert` are the asking future being dropped, with or without its write having
reached the database. `Crash` keeps the rows; `Boot` is the startup sweep, best effort.

The agent's request that was approved before its waiter existed is answered "cancelled"
(`Raced`): the approval carries no option to hand to the agent. `ToldIsOnRecord` states
exactly that exception.

### CommandGateway

A command and the request that may guard it share a name. The policy's verdict is a
choice in `RegisterRunning`. `sup` is the position of `submit` and then of the supervisor
task. Merged into single steps: the `started` and `review_flagged` events; killing the
child, its process group and leaving the loop; removing the registry entries at the start
of `deregister`. The biased `select!` of the loop is kept: `LoopExit` and `LoopTimeout`
are possible only when no cancel is waiting; one poll of all its branches is one step. A child killed by `kill_on_drop` is
`reaped`; one that survives a hard kill of the daemon is `orphaned`. A panicking
supervisor is not modelled.

### SinkOutbox

A row's content is the number of its writes, so "older" and "newer" are comparable.
`Write` and `Enqueue` are one transaction where the store has external logging on. A daemon
turns it on for its own store when the sink is configured; a daemon without the sink, and
the stores that installers and the CLI open, write the same tables without an outbox row.
Rows last written that way are `unlogged` and excepted from `UnmirroredIsOwed`. `Poll` claims after recovering stranded rows,
`PollUnrecovered` claims when that recovery failed and was swallowed, `PollFails` may leave
rows claimed although its write was answered with an error (the bare claim above), `Hydrate` reads the
content of one group, `SendOk`, `SendFails`, `SendTimesOut` are the outcomes of an upload
and `AckSent`, `AckDeleted`, `Park`, `Release`, `MarkFails` the marks after it.
`LateArrival` is the mirror executing a request whose client gave up: the upsert carries no
version, so it may put older content over newer content that was already acknowledged.
Rows it happened to are `replayed` until the worker uploads them again, and the two safety
properties except exactly those. The groups of a batch are uploaded in any order (the
code sorts tables by name); the failure-window counters are a metric and left out.

### AgentLife and AgentSupervisor

`agent` is `AgentState`; `bridge` numbers the bridges spawned, of which Running holds the
last. `request` is the one start, stop or restart that holds the agent-config mutation
lock, at the await it has reached; `detached` says that a worker rather than a client's
handler runs it, so that no disconnect can drop it. Each bridge has an exit monitor with
its own position: it sees the exit, reaps the child, demotes sessions, waits out the
backoff, and restarts the agent without that lock. An update owns the state from
`BeginUpdate` to `FinishUpdate`. The child's exit and the end of the connection are
separate events. A start that fails has torn down what it spawned (`StartFails`).
Lifecycle rows are not kept; that a failing one ends the monitor is (`MonitorGivesUp`). The
stop at the daemon's own exit (`shutdown_on_serve_exit`) takes no mutation lock and may meet
a request in progress; it is not an action.

`AgentLife` keeps only what a turn can notice: which bridge is handed out, which are
connected, whether a stop holds the gate, and which crashed bridges have yet to have
their sessions demoted. Updates disappear in the abstraction.

A handler dropped in the middle strands the state it was in: Starting or Stopping then
stays until the daemon is restarted, and a start dropped just before its last step leaves
an agent nobody watches. The properties say so: they hold while `drops = 0`; the
refinement holds with drops too.

### PromptTurns

One step per await of `submit_prompt`: the checks, warm or re-attached session, the
unconditional write of `active`, the insert, the spawn of the turn's task, its
registration. `MayDispatch` is the gate's read side and the session's lock, held by every
submit in `Submitting`; `GateFree` is what a stop's write side needs. The task flips its
row to running (best effort), waits for the agent or its token, and settles. `handles`
holds the registered prompts whose task is unfinished: every reader of the registry skips
or reaps the others. A cancel reads rows under no lock; close and delete hold neither gate
nor lock. `quiet` holds the rows whose `updated_at` is past the stale threshold: `FallSilent`
is that time passing, `SessionUpdate` an update of the agent, which names no prompt and
renews the oldest row in flight of its session, and `SweepStalled` takes only quiet rows.
The resume and load endpoints, which attach a session without a turn, are not actors.

"ended" stands for completed and errored. The events a turn writes to the session's log
are not modelled, nor are pending permissions, which block a queued restart as well.

### AgentSwitch

A config is the primary target and a selection per Array target; a selection is provider
and model as one value, with the body's kind kept because provider bodies restart the
agent and model bodies are compared with the journal. `Resumable`, `AtCommitBoundary` and
`AnsweredNoOp` are the outcomes of `classify_switch_journal` that change something; the
others refuse the request. The steps from `PersistPlanned` to `PersistCompleted` are those
of `commit_switch_and_apply_runtime` and its callers in order; `Abort` cuts them at any
await. The live config is written before the old agent is stopped (`ApplyLive`, `StopOld`),
with an await between them. `EditConfig` is the import of any config that names its primary.
Everything before the journal (install, provisioning, probe) leaves nothing this
model keeps. Starting and stopping an agent are atomic here: `AgentSupervisor` has
their detail. A session row is <<target, agent>>: one session per agent is enough for
the UNIQUE index to bite.

### DepsApply

A row is running or settled (all terminal statuses), with the pid and boot id of its
owner, `0` until it is stamped. Processes are records at pids that are reused at once.
The daemon lives on after an apply, the others exit. `Claim` is the one transaction of
`claim_deps_apply_run`. A full table refuses a claim: a bound, not behaviour. A foreign
process that happens to get the owner's pid keeps a row alive in the code until it exits;
here only the modelled processes do. Boot ids are always known here; the code compares them
only when both are.

## 3. What is model-checked

| Run | Instance | What it shows |
|---|---|---|
| `writer` | an awaited job (a scope, then a bare write) and a detached one (2 scopes), failing savepoint statements, batches of 2, queue of 2, 2 shutdowns | `AnswersAreTrue`, `EventsFollowCommits`, `AckMeansDrained`, the refinement `ImplementsPromise`, every write and every shutdown returns |
| `permissions` | 1 agent request, 2 callers, 1 crash | one decision on record, final, and everyone's view agrees with it; a parked asker is answered |
| `gateway` | 1 command, 1 operator, 2 crashes | no unauthorised child, clean exits, sweeps free the permission, supervisors end, cancels are obeyed |
| `sink` | 2 tables of one row, one rewritten and deleted, batches of 2, 1 shutdown or crash, 1 late upload | content written with logging on is owed until mirrored, the mirror only moves forward, delivery once faults end, bounded stop |
| `supervisor` | 3 bridges, 1 dropped request | `TransitionOwned`, `RunningIsWatched`, the refinement `ImplementsLife`, transitions end, children are reaped |
| `turns` | 1 session, 2 prompts, 2 bridges, 2 interventions or faults | `OneTurnPerSession`, `CancelTellsTheTruth`, `VerdictIsFinal`, `TurnsSettle`: a row that no update renews for ever is settled |
| `switch` | 2 targets, 2 selections, 2 switches, 2 faults or config imports | `JournalTellsTheTruth`, `InterruptedStaysItself`, `SwitchConverges` |
| `deps` | 3 pids, 2 rows, 2 faults | `OneApply`, `SlotComesFree` |
| `gateway_stranded`, `turns_closed`, `turns_blockers`, `switch_rows` | the instances above | counterexamples to sentences of the docs and comments, section 5 |

**Bounds.** Two jobs are the fewest with a good one and a failing one in the same batch;
two writes let a job lose its transaction between them, the second of them in a scope that
refuses or in a bare statement that does not. Permission requests meet only in a
session sweep, which treats them one by one, so one request with all its deciders (two
callers, timer, its own cancel, startup sweep) is the interesting instance; the proofs
cover any number. Two crashes are needed for a crash between the startup sweeps. Two
writes per row make "older content" possible; two rows let one of a batch fail and the
other succeed. Three bridges give a stopped, a crashed and a restarted one, with the
monitors of all three alive. Two prompts of one session are what the in-flight check is
about, and two bridges let a crash's demotion meet the next agent; two interventions or
faults let one interrupt what another caused. Two targets and two selections give every
path of a switch, and a second switch meets the journal of the first; one fault interrupts
it and the next hits its retry. Three pids hold a launcher, its worker and a competitor.
`MaxCrashes`, `MaxContent`, `Deletable`, `MaxEnds`, `MaxLate`, `MaxBridges`, `MaxDrops`, `MaxEvents`,
`MaxSwitches`, `MaxRuns` and `MaxFaults` bound otherwise unbounded behaviour in the guards.
`supervisor`, `turns` and `switch` do not check deadlock: once the bounds are used up there
is nothing left to do.

**Fairness.** The writer thread always continues while it has a message. A tokio task
that can continue is polled, a timer or deadline elapses, a backoff passes, a write is
answered (that is what `EveryWriteAnswered` shows of the writer), and a daemon that stopped
is started again. Requests to the supervisor and its monitors go on because each of their
awaits has a timeout. A call on a dead connection fails. The stale threshold of a row passes
(`FallSilent`) and the periodic sweep takes a row that stays quiet; a session that streams
for ever renews its oldest row before each sweep, and `TurnsSettle` has the end of those
updates as its premise: without it the property is violated, by an orphaned row that a later
turn's updates keep fresh. The client of an interrupted switch sends the same body again
and gets the mutation lock in the end, a fair queue (strong fairness of `Retry`). Of
`DepsApply` strong fairness says that the daemon is brought back, its status polled and an
apply asked for again: without an operator's retry a row whose terminal write failed stays,
which is the code's design. No fairness is assumed of operators otherwise, of clients,
dropped futures, crashes, the exit of a child or the success of anything: a write or an
upload may fail each time it is tried. Such premises are stated where they are used: that
faults end in `EveryRowDelivered`, that a row's renewals end in `TurnsSettle`, that no
operator edits the config in `SwitchConverges`. `SinkStops` has none.

`SwitchConverges` says what a retried switch comes to: `Finished` (candidate on disk, live,
journal completed) or `Refused` (journal dropped, and old and new target both hold a row of
the same agent session, so that the same request collides again).

## 4. What is proved

All proofs are checked by TLAPS for every value of the constants that meets the named
assumptions, so for any number of jobs, scopes, queue and batch sizes, requests, callers,
commands, rows, tables, bridges, prompts, targets and processes, and for any bound on
crashes and faults. Every safety invariant, action property and refinement that a passing
run checks is a theorem. Each module has one inductive invariant, a conjunction of named
parts that TLC checked on the run's instance before it was proved; the proof has a lemma
per action and in it a step per part the action can disturb.

**StateWriter_proofs.** `Invariance` proves that
`WriterInv == TypeOK /\ ControlInv /\ PlaceInv /\ DataInv` is inductive. None of the
safety properties is inductive alone: that an Ok answer is durable depends on which jobs'
rows are in the open transaction (`DataInv`), which depends on each accepted job being in
exactly one of queue, batch, current job and outcomes (`PlaceInv`), and on what each
control state says of the locals (`ControlInv`). From it follow `TypeCorrect`,
`TruthfulAnswers`, `EventsAndCommits` (each from a theorem per half), `ShutdownDrains` and
`Implementation`: every step of the writer is a step of `DurableWrites` or invisible to it.
`TruthfulAnswers` and the refinement except the `stray` rows; `ScopedWritesLeaveNothing`
bounds the exception: as long as the savepoint statements work, what a failed job leaves is
bare rows only, so a job that writes all its rows in scopes leaves nothing. Part of
`DataInv` is that a job with a stray row is doomed to an error (`Doomed`), which is what
keeps stray rows out of Ok answers.
Assumed: detached jobs are jobs, jobs and closers differ, queue and batch limits are
positive, the bare rows are rows, `NoJob` is not a job.

**Permissions_proofs.** `PermInv` is `TypeOK`, the four safety invariants and `TasksInv`:
what a decision task carries after its commit is what the row says, and a request not yet
inserted has no row. `OneDecisionOnRecord`, `OneTruth` (from `AnswersAreOnRecord` and
`AnnouncementsAreOnRecord`), `SweepsSettle`, `TypeCorrect` and the action property
`DecisionsAreFinal` follow. Assumed: agent requests are requests, callers are neither the
timer nor the owner.

**SinkOutbox_proofs.** `SinkInv` adds `GroupInv`: the versions read for the group in hand
are between the mirror's and the current ones, and equal to the current ones for rows
still `sending`, and no upload on its way is ahead of them. `NothingIsLost`,
`MirrorMovesForward` and `TypeCorrect` follow, for any number of late uploads; the first
two are about rows that are not `replayed`, the first also not about `unlogged` ones.

**CommandGateway_proofs.** `GateInv` is `PermInv` and four parts: the daemon serves
exactly in its last startup step, with no submit or supervisor about before
(`StartupInv`); a submission and its permission request keep step (`RequestedInv`); what a
supervisor knows at each step, such as its approval once it has leave to run and its row
once there may be a child (`SupervisedInv`); and the properties themselves.
`ChildrenAreAuthorised` needs all of them: the spawn relies on an approval that was read
two steps earlier and cannot be taken back, because a decided row is final
(`DecidedStays`, from the proofs about the service). `ExitsAreClean` rests on the request
being noted until `deregister` and on a cancel that lost or won finding the row decided.
The steps that are steps of the permission service reuse that service's lemmas;
`ServiceFrame` says what the gateway needs of them. `SweepsFreePermissions` is the action
property about the startup sweep. `RecordUnderGateway` and `DecidedOnceUnderGateway` carry
the service's own guarantees over to the composition, in which supervisors, cancel calls
and a second startup sweep decide requests too. Assumed: the requests guard commands
(`Acp` is empty).

**AgentSupervisor_proofs.** `AgentInv` says which bridge may have a live child
(`BridgeInv`), that nobody believes to own a state it does not (`ClaimInv`, with dropped
requests too), what a running bridge's monitor may have seen (`WatchInv`) and that
in-between states have their owner while nothing is dropped (`OwnerInv`).
`TransitionsOwned` counts the owners. `Implementation` is the refinement of `AgentLife`,
action by action: a start is the abstract hand-out at the step that installs the bridge,
a stop takes the gate and gives it back where the code does, updates are invisible.

**PromptTurns_proofs.** `OneTurn` is not inductive: the second turn is kept off by the
session's lock while the first is submitted, by the registry once it is registered, and
by the bridge when the agent is gone. `RegistryInv` states that disjunction for every
driven turn, `LockInv` that the lock excludes, `BridgesInv` and `StepsInv` what is spawned
and inserted when. `SeenInv` carries what a cancel has read until it answers, for
`CancelIsTrue`. `VerdictsAreFinal` is an action property. A turn whose submit was dropped
between spawn and registration (`lost`) is excepted, as the property excepts it. Assumed: every
prompt has its session.

**AgentSwitch_proofs.** `SwitchInv` ties the request in hand to the journal phase by phase
(`PlanInv` before the config write, `HandlerInv` after it). `JournalIsTrue` and the action
property `InterruptedIsKept` follow, for any targets, selections, cuts and edits. Assumed:
there is at least one selection.

**DepsApply_proofs.** `DepsInv` says who may act for a row (`HoldersInv`: one process, or a
launcher and the worker it is about to stamp) and that the running row is single and
names its worker (`SlotInv`). `SingleApply` follows, with pids reused at once and reboots
at any time. Assumed: there is at least one pid.

**Only model-checked.** Everything under fairness (`EveryWriteAnswered`,
`ShutdownReturns`, `ParkedIsAnswered`, `SupervisorEnds`, `CancelIsObeyed`,
`EveryRowDelivered`, `SinkStops`, `TransitionsEnd`, `ChildrenAreReaped`,
`TurnsSettle`, `SwitchConverges`, `SlotComesFree`), which the prover does not
reach: it reasons about neither liveness under fairness nor `ENABLED`. The four runs that
expect a violation are counterexamples, and need no proof.

## 5. Where code and text disagree

* `gateway_stranded`: "Cancellation produces a terminal `command.cancelled` event"
  (`docs/specs/runtime.md`). A command whose submit failed or was dropped after the
  registry entry was made has no supervisor to see the cancel.
* `turns_closed`: "`closed` (terminal)" (`docs/specs/runtime.md`). A close takes neither the
  gate nor the session's lock; a submit that passed its check before writes `active` over
  `closed`.
* `turns_blockers`: "queues each restart until the target has no pending/running prompts"
  (`docs/specs/array.md`). A crashed bridge's sessions are demoted after the supervisor is
  Stopped and without the gate; a new agent and a new turn may be there by then, and the
  blockers query looks only at sessions that are `active`.
* `switch_rows`: "so config and DB never diverge", "Nothing durable changed, so drop the
  Planned journal" (comments in `api/routes/agent/switch.rs`). When the first attempt was cut
  after its rename and list sync filed the old agent's session again, the retry's rename
  collides, and the journal is dropped with the first rename done.

Met while modelling, without a run of their own:

* A job "rolls back alone when it fails" (`write`, `state/handle.rs`). Not for bare statements
  after SQLite's own rollback: when the recovery in `process_one_batch` fails with the whole
  transaction, the claim after it commits although the poll is answered with an error. Nor
  when the ROLLBACK TO itself fails, or when a SAVEPOINT lost the transaction. `ErrLeavesNothing`
  without its exception is violated by all three.
* "so retries converge" (`docs/specs/api/api.md`, `endpoints.md`). In the trace of
  `switch_rows` the retry's rename collides, the journal is dropped, and every further retry
  of the same body collides again: `Refused` in `SwitchConverges`.
* Updates advance "the oldest in-flight prompt" of the session (`docs/specs/runtime.md`), as
  the code does. A turn whose task is gone is that prompt, so it stays in flight and is not
  marked stalled while later turns of the session stream.
* A cancel of a command whose supervisor has just dropped its receiver is answered 200 all
  the same (`CancelSignal`); the failed send is only logged.

Also: a request dropped before its timer was
spawned, or whose timer fails to write, stays pending until a restart; a failed cancel of
the request during a command's teardown is logged only, so the request outlives its command; an
upload executed after its retry puts old content over acknowledged newer content; a crash
monitor relaunches its agent with the config captured when the bridge was started, also
after a switch changed it (`Relaunch` in `AgentSwitch`); and the
comment of `start_command` asks callers to have spawned the subprocess already, while the
supervisor marks the row running first and spawns then, the order `ChildIsAuthorised`
depends on.

## 6. What is not modelled, and why

Reads (they change nothing and see the last commit) and the WAL checkpointer; wording,
redaction and layout of events; shell-text classification, output chunking and other pure
algorithms, until they get modules of their own; namespaces, cgroups and uids, which are
the kernel's; and the components of the plan below. Most of the repository's lines are
interactive init and CLI, installers and release fetching, provider catalogues, workload
file walking, configuration parsing and rendering: sequential code without shared state,
where a state machine would repeat the program. They are left out on purpose, and the
share of lines the map covers is small for that reason. `PROJECT.json` lists all
components with reasons.

## 7. Plan

Done so far: writer, permissions, gateway, sink, agent supervisor, prompt turns and
sessions, agent switch, dependency apply, each checked and proved. Next, by how much depends on it:

1. **Proofs**: what the components say of each other. The turns' proofs take `AgentLife` as
   it is and the supervisor's show it implemented; the same link from `Permissions` and
   `CommandGateway` down to `DurableWrites` is made by reading so far.
2. **Session change feed** and **event replay**: a paging reader misses nothing or is told
   to resynchronise; no gap and no duplicate between replay and live.
3. **ACP terminals**: no child survives `drain_all`; wait and kill return.
4. **Sessions**: create and fork, and the reference-counted lock registry.
5. Pure algorithms: output chunking at UTF-8 boundaries with its budget, the rate
   limiter's bucket, checked against reference definitions.
