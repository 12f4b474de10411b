------------------------------ MODULE PromptTurns ------------------------------
(***************************************************************************)
(* Prompt turns (runtime/agent/supervisor/prompts.rs), the rows they leave *)
(* (state/sessions/prompts.rs) and the sessions they run in, composed with *)
(* the life of the agent that drives them (AgentLife).                     *)
(*                                                                         *)
(* A submit holds the dispatch gate's read side and its session's lock     *)
(* over several awaits; a stop holds the write side; closing and deleting  *)
(* a session hold neither.  Each turn is a detached task of its own, and   *)
(* the sweeper settles the rows of turns that fell silent.  Any write may  *)
(* fail, any request future may be dropped, the agent may crash and the    *)
(* daemon may be restarted.                                                *)
(***************************************************************************)
EXTENDS AgentLife

CONSTANTS Sessions,
          MaxPrompts,   \* bound: prompts submitted in one behaviour
          SessionOf,    \* the session each prompt is submitted to
          MaxEvents     \* bound: interventions (stops, cancels, closes, deletes) and
                        \* faults (agent exits, daemon restarts, dropped futures,
                        \* failed writes) in one behaviour

\* prompt ids grow with the time of their submit
Prompts == 1 .. MaxPrompts

ASSUME PromptsAssumption == MaxPrompts \in Nat
ASSUME SessionOfAssumption == SessionOf \in [Prompts -> Sessions]
ASSUME EventsAssumption == MaxEvents \in Nat

VARIABLES sess,      \* sessions.status
          attached,  \* <<session, bridge>>: sessions each adapter has opened
          row,       \* prompts.status
          quiet,     \* rows in flight whose updated_at is past its stale threshold
          submit,    \* where the submit of each prompt stands
          via,       \* the bridge a prompt is submitted through, until its task ends
          at,        \* the bridge its re-attach goes to
          task,      \* where the prompt's task stands, or the outcome it settles
          handles,   \* prompts in the in-flight registry whose task is unfinished;
                     \* every reader of the registry skips or reaps the others
          token,     \* unfinished prompts whose cancellation token has fired
          cancel,    \* the cancel request of each session
          waited,    \* the prompts it waits for
          seen,      \* the terminal status it has read for each of them
          teardown,  \* the close or delete of each session
          events     \* interventions and faults so far

sessVars   == <<sess, attached>>
subVars    == <<submit, via, at>>
taskVars   == <<task, handles, token>>
cancelVars == <<cancel, waited, seen>>
turnVars   == <<sess, attached, row, quiet, submit, via, at, task, handles, token,
                cancel, waited, seen, teardown>>
allVars    == <<lifeVars, turnVars, events>>

InFlight == {"pending", "running"}
\* "ended" stands for completed and errored, which no property tells apart
Verdicts == {"ended", "cancelled"}
Terminal == Verdicts \cup {"stalled"}
\* submits that hold the gate and the session lock
Submitting  == {"checked", "attach", "activate", "ready", "inserted", "spawned"}
\* "lost": dropped after its task was spawned and before it was registered
SubmitStates == Submitting \cup {"idle", "done", "lost"}
TaskStates   == {"none", "start", "call", "token", "done"} \cup Verdicts
Teardowns    == {"none", "closing", "closeFired", "deleting", "deleteFired"}

TurnInit ==
  /\ LifeInit
  /\ sess = [s \in Sessions |-> "available"]
  /\ attached = {}
  /\ row = [p \in Prompts |-> "none"] /\ quiet = {}
  /\ submit = [p \in Prompts |-> "idle"]
  /\ via = [p \in Prompts |-> 0]
  /\ at = [p \in Prompts |-> 0]
  /\ task = [p \in Prompts |-> "none"]
  /\ handles = {} /\ token = {}
  /\ cancel = [s \in Sessions |-> "none"]
  /\ waited = [s \in Sessions |-> {}]
  /\ seen = [s \in Sessions |-> [p \in Prompts |-> "none"]]
  /\ teardown = [s \in Sessions |-> "none"]
  /\ events = 0

-----------------------------------------------------------------------------
(* Guards and helpers *)

\* one of the bounded interventions and faults
Event == events < MaxEvents /\ events' = events + 1

Of(s) == {p \in Prompts : SessionOf[p] = s}

\* the gate's read side and the session's lock are free
MayDispatch(s) ==
  /\ stop = "none"
  /\ \A p \in Of(s) : submit[p] \notin Submitting

\* no submit holds the gate: a stop may take the write side
GateFree == \A p \in Prompts : submit[p] \notin Submitting

\* mutant: a turn counts as live only once its row says running
LiveRunning(s) == {p \in handles \cap Of(s) : row[p] = "running"}

\* live_prompts_for_session: registered, its task not finished, its row in flight
Live(s) == {p \in handles \cap Of(s) : row[p] \in InFlight}

Open(s) == sess[s] \in {"active", "available"}

SubmitTo(p, st) == submit' = [submit EXCEPT ![p] = st]

-----------------------------------------------------------------------------
(* Submitting a prompt *)

SubmitCheck(p) ==
  /\ submit[p] = "idle"
  /\ \A q \in Prompts : q < p => submit[q] # "idle"
  /\ MayDispatch(SessionOf[p])
  /\ serving # 0
  /\ Open(SessionOf[p])
  /\ Live(SessionOf[p]) = {}
  /\ SubmitTo(p, "checked")
  /\ via' = [via EXCEPT ![p] = serving]
  /\ UNCHANGED <<lifeVars, sessVars, row, quiet, at, taskVars, cancelVars, teardown, events>>

\* the adapter holds the session already
SubmitWarm(p) ==
  /\ submit[p] = "checked"
  /\ <<SessionOf[p], via[p]>> \in attached
  /\ SubmitTo(p, "activate")
  /\ UNCHANGED <<lifeVars, sessVars, row, quiet, via, at, taskVars, cancelVars, teardown, events>>

\* attach_session looks up the bridge and the session again
SubmitReattach(p) ==
  /\ submit[p] = "checked"
  /\ <<SessionOf[p], via[p]>> \notin attached
  /\ serving # 0
  /\ Open(SessionOf[p])
  /\ at' = [at EXCEPT ![p] = serving]
  /\ SubmitTo(p, "attach")
  /\ UNCHANGED <<lifeVars, sessVars, row, quiet, via, taskVars, cancelVars, teardown, events>>

SubmitAttached(p) ==
  /\ submit[p] = "attach"
  /\ at[p] \in alive
  /\ attached' = attached \cup {<<SessionOf[p], at[p]>>}
  /\ at' = [at EXCEPT ![p] = 0]
  /\ SubmitTo(p, "activate")
  /\ UNCHANGED <<lifeVars, sess, row, quiet, via, taskVars, cancelVars, teardown, events>>

\* the unconditional write of `active`; a deleted session has no row to update
SubmitActivate(p) ==
  /\ submit[p] = "activate"
  /\ sess[SessionOf[p]] # "deleted"
  /\ sess' = [sess EXCEPT ![SessionOf[p]] = "active"]
  /\ SubmitTo(p, "ready")
  /\ UNCHANGED <<lifeVars, attached, row, quiet, via, at, taskVars, cancelVars, teardown, events>>

SubmitInsert(p) ==
  /\ submit[p] = "ready"
  /\ sess[SessionOf[p]] # "deleted"
  /\ row' = [row EXCEPT ![p] = "pending"]
  /\ SubmitTo(p, "inserted")
  /\ UNCHANGED <<lifeVars, sessVars, quiet, via, at, taskVars, cancelVars, teardown, events>>

SubmitSpawn(p) ==
  /\ submit[p] = "inserted"
  /\ task' = [task EXCEPT ![p] = "start"]
  /\ SubmitTo(p, "spawned")
  /\ UNCHANGED <<lifeVars, sessVars, row, quiet, via, at, handles, token, cancelVars, teardown, events>>

\* register the handle, then reap: a task that has already ended goes at once
SubmitRegister(p) ==
  /\ submit[p] = "spawned"
  /\ handles' = handles \cup (IF task[p] = "done" THEN {} ELSE {p})
  /\ SubmitTo(p, "done")
  /\ UNCHANGED <<lifeVars, sessVars, row, quiet, via, at, task, token, cancelVars, teardown, events>>

SubmitEnds(p) ==
  /\ SubmitTo(p, IF submit[p] = "spawned" THEN "lost" ELSE "done")
  /\ at' = [at EXCEPT ![p] = 0]
  /\ via' = [via EXCEPT ![p] = IF submit[p] = "spawned" THEN @ ELSE 0]
  /\ UNCHANGED <<lifeVars, sessVars, row, quiet, taskVars, cancelVars, teardown>>

\* what the next step needs is gone: the submit returns an error
SubmitRefused(p) ==
  /\ \/ submit[p] = "checked" /\ (serving = 0 \/ ~Open(SessionOf[p]))
        /\ <<SessionOf[p], via[p]>> \notin attached
     \/ submit[p] = "attach" /\ at[p] \notin alive
     \/ submit[p] \in {"activate", "ready"} /\ sess[SessionOf[p]] = "deleted"
  /\ SubmitEnds(p)
  /\ UNCHANGED events

\* a failed call or write, or the future dropped at one of its awaits
SubmitAborts(p) ==
  /\ submit[p] \in Submitting
  /\ SubmitEnds(p)
  /\ Event

-----------------------------------------------------------------------------
(* The prompt's task *)

TaskTo(p, st) == task' = [task EXCEPT ![p] = st]

\* the task returns: it drops its bridge and token, and its handle is finished
TaskEnds(p) ==
  /\ TaskTo(p, "done")
  /\ via' = [via EXCEPT ![p] = 0]
  /\ token' = token \ {p}
  /\ handles' = handles \ {p}

\* the running flip renews updated_at and never touches a terminal row; if it
\* fails the turn goes on
TaskRunning(p) ==
  /\ task[p] = "start"
  /\ \/ UNCHANGED <<row, quiet>>
     \/ /\ row[p] = "pending"
        /\ row' = [row EXCEPT ![p] = "running"]
        /\ quiet' = quiet \ {p}
  /\ TaskTo(p, "call")
  /\ UNCHANGED <<lifeVars, sessVars, subVars, handles, token, cancelVars, teardown, events>>

\* session/prompt returns the agent's outcome, or fails on a dead connection
TaskAnswered(p, outcome) ==
  /\ task[p] = "call"
  /\ via[p] \notin alive => outcome = "ended"
  /\ TaskTo(p, outcome)
  /\ UNCHANGED <<lifeVars, sessVars, row, quiet, subVars, handles, token, cancelVars, teardown, events>>

\* the cancellation token won the select
TaskCancelled(p) ==
  /\ task[p] = "call"
  /\ p \in token
  /\ TaskTo(p, "token")
  /\ UNCHANGED <<lifeVars, sessVars, row, quiet, subVars, handles, token, cancelVars, teardown, events>>

\* mutant: a token's cancelled overwrites a stall like an agent's verdict
ReplacesStallAlways(p) == row[p] = "stalled"

\* only the agent's own verdict may replace a stall
ReplacesStall(p) == row[p] = "stalled" /\ task[p] # "token"

\* settle_prompt applies: the row is in flight, or stalled and replaceable
Settles(p) == row[p] \in InFlight \/ ReplacesStall(p)

\* mutant: the outcome is written as it stands
RawOutcome(p) == task[p]

\* build_terminal_outcome: a fired token is recorded as cancelled
TerminalOutcome(p) == IF task[p] = "token" THEN "cancelled" ELSE task[p]

\* the settle job; its events are written in the same job, best effort
TaskSettle(p) ==
  /\ task[p] \in Verdicts \cup {"token"}
  /\ IF Settles(p)
     THEN row' = [row EXCEPT ![p] = TerminalOutcome(p)]
     ELSE UNCHANGED row
  /\ quiet' = quiet \ {p}
  /\ TaskEnds(p)
  /\ UNCHANGED <<lifeVars, sessVars, submit, at, cancelVars, teardown, events>>

\* the settle job failed: logged, and the task is over
TaskSettleFails(p) ==
  /\ task[p] \in Verdicts \cup {"token"}
  /\ TaskEnds(p)
  /\ Event
  /\ UNCHANGED <<lifeVars, sessVars, row, quiet, submit, at, cancelVars, teardown>>

-----------------------------------------------------------------------------
(* Cancelling the turn of a session *)

\* collect the live prompts and send session/cancel under both guards
CancelBegin(s) ==
  /\ cancel[s] = "none"
  /\ MayDispatch(s)
  /\ serving \in alive
  /\ sess[s] # "deleted"
  /\ cancel' = [cancel EXCEPT ![s] = "waiting"]
  /\ waited' = [waited EXCEPT ![s] = Live(s)]
  /\ Event
  /\ UNCHANGED <<lifeVars, sessVars, row, quiet, subVars, taskVars, seen, teardown>>

CancelReset(s) ==
  /\ cancel' = [cancel EXCEPT ![s] = "none"]
  /\ waited' = [waited EXCEPT ![s] = {}]
  /\ seen' = [seen EXCEPT ![s] = [p \in Prompts |-> "none"]]

Unseen(s) == {p \in waited[s] : seen[s][p] = "none"}

\* mutant: a turn that settled otherwise counts as cancelled
VerdictIsAnything(obs) == TRUE

\* cancel_settle_verdict on the statuses observed
VerdictIsCancelled(obs) == obs \subseteq {"cancelled"}

\* one pass over the rows; a deleted row ends the wait with an error, and a
\* status once read is not read again
CancelPoll(s) ==
  LET read == [p \in Prompts |-> IF p \in Unseen(s) /\ row[p] \in Terminal
                                 THEN row[p] ELSE seen[s][p]]
      all  == \A p \in waited[s] : read[p] # "none"
      ok   == all /\ VerdictIsCancelled({read[p] : p \in waited[s]})
  IN
  /\ cancel[s] = "waiting"
  /\ IF (all /\ ~ok) \/ \E p \in Unseen(s) : row[p] = "deleted"
     THEN /\ CancelReset(s)
          /\ UNCHANGED handles
     ELSE /\ seen' = [seen EXCEPT ![s] = read]
          /\ cancel' = [cancel EXCEPT ![s] = IF ok THEN "ok" ELSE @]
          /\ handles' = IF ok THEN handles \ waited[s] ELSE handles
          /\ UNCHANGED waited
  /\ UNCHANGED <<lifeVars, sessVars, row, quiet, subVars, task, token, teardown, events>>

\* the caller has its answer; or the settle budget is over, or the client left
CancelReturns(s) ==
  /\ cancel[s] # "none"
  /\ CancelReset(s)
  /\ UNCHANGED <<lifeVars, sessVars, row, quiet, subVars, taskVars, teardown, events>>

-----------------------------------------------------------------------------
(* Closing and deleting a session: neither the gate nor the session lock.   *)
(* Bound: one close or delete of a session at a time.                       *)

\* the agent confirms, and its bridge forgets the session
TeardownBegin(s, kind) ==
  /\ teardown[s] = "none"
  /\ serving \in alive
  /\ sess[s] # "deleted"
  /\ attached' = attached \ {<<s, serving>>}
  /\ teardown' = [teardown EXCEPT ![s] = kind]
  /\ Event
  /\ UNCHANGED <<lifeVars, sess, row, quiet, subVars, taskVars, cancelVars>>

\* fire the tokens of the session's registered prompts
TeardownFire(s) ==
  /\ teardown[s] \in {"closing", "deleting"}
  /\ token' = token \cup (handles \cap Of(s))
  /\ teardown' = [teardown EXCEPT ![s] = IF @ = "closing" THEN "closeFired" ELSE "deleteFired"]
  /\ UNCHANGED <<lifeVars, sessVars, row, quiet, subVars, task, handles, cancelVars, events>>

CloseWrite(s) ==
  /\ teardown[s] = "closeFired"
  /\ sess' = [sess EXCEPT ![s] = "closed"]
  /\ teardown' = [teardown EXCEPT ![s] = "none"]
  /\ UNCHANGED <<lifeVars, attached, row, quiet, subVars, taskVars, cancelVars, events>>

\* the session, its prompts and its events go in one transaction
DeleteWrite(s) ==
  /\ teardown[s] = "deleteFired"
  /\ sess' = [sess EXCEPT ![s] = "deleted"]
  /\ row' = [p \in Prompts |-> IF p \in Of(s) /\ row[p] # "none" THEN "deleted" ELSE row[p]]
  /\ quiet' = quiet \ Of(s)
  /\ teardown' = [teardown EXCEPT ![s] = "none"]
  /\ UNCHANGED <<lifeVars, attached, subVars, taskVars, cancelVars, events>>

\* a failed call or write, or a dropped future
TeardownAborts(s) ==
  /\ teardown[s] # "none"
  /\ teardown' = [teardown EXCEPT ![s] = "none"]
  /\ Event
  /\ UNCHANGED <<lifeVars, sessVars, row, quiet, subVars, taskVars, cancelVars>>

-----------------------------------------------------------------------------
(* Session updates and the sweeper.  Submitting and settling renew the row they *)
(* write; an update of the agent names no prompt, and renews the oldest row in  *)
(* flight of its session, whichever turn it belongs to.                         *)

\* the stale threshold passes with no update for the row
FallSilent(p) ==
  /\ row[p] \in InFlight
  /\ quiet' = quiet \cup {p}
  /\ UNCHANGED <<lifeVars, sessVars, row, subVars, taskVars, cancelVars, teardown, events>>

Oldest(p) ==
  /\ row[p] \in InFlight
  /\ \A q \in Of(SessionOf[p]) : q < p => row[q] \notin InFlight

\* append_session_update: an update of p's session renews p.  It may come from a
\* later turn, or from the buffer of an agent that is gone; one that finds the row
\* fresh changes nothing here.
SessionUpdate(p) ==
  /\ Oldest(p)
  /\ quiet' = quiet \ {p}
  /\ UNCHANGED <<lifeVars, sessVars, row, subVars, taskVars, cancelVars, teardown, events>>

\* mutant: the sweep looks at running rows only
SweepsRunning(p) == p \in quiet /\ row[p] = "running"

\* stuck_prompts: pending and running rows past their threshold
Sweepable(p) == p \in quiet /\ row[p] \in InFlight

\* mark_stalled_prompts: no touch comes between the selection and the flip
SweepStalled(p) ==
  /\ Sweepable(p)
  /\ row' = [row EXCEPT ![p] = "stalled"]
  /\ quiet' = quiet \ {p}
  /\ UNCHANGED <<lifeVars, sessVars, subVars, taskVars, cancelVars, teardown, events>>

\* an active session without a turn in flight.  The activation a submit has just
\* written is younger than the idle threshold.
SweepIdle(s) ==
  /\ sess[s] = "active"
  /\ \A p \in Of(s) : row[p] \notin InFlight /\ submit[p] # "ready"
  /\ sess' = [sess EXCEPT ![s] = "available"]
  /\ UNCHANGED <<lifeVars, attached, row, quiet, subVars, taskVars, cancelVars, teardown, events>>

-----------------------------------------------------------------------------
(* The agent's life, with what it does to turns *)

\* demote every active session of the agent; the write may fail
DemoteSessions ==
  sess' \in {sess, [s \in Sessions |-> IF sess[s] = "active" THEN "available" ELSE sess[s]]}

\* what query_restart_blockers returns for prompts
Blockers == {p \in Prompts : row[p] \in InFlight /\ sess[SessionOf[p]] = "active"}

\* a stop takes the write side of the gate; a restart that waits for idle also
\* finds no blocker
TurnStop == GateFree /\ LifeStop /\ Event /\ UNCHANGED turnVars

TurnFault == (LifeExit \/ LifeDrop) /\ Event /\ UNCHANGED turnVars

\* cancel_all_prompts empties the registry and fires every token
TurnDrain ==
  /\ LifeDrain
  /\ token' = token \cup handles
  /\ handles' = {}
  /\ UNCHANGED <<sessVars, row, quiet, subVars, task, cancelVars, teardown, events>>

\* a stop's demotion, or that of a crashed bridge's monitor
TurnDemote ==
  /\ LifeDemote \/ LifeCrashDemote
  /\ DemoteSessions
  /\ UNCHANGED <<attached, row, quiet, subVars, taskVars, cancelVars, teardown, events>>

\* every other step of the agent's life leaves turns alone
TurnAgent ==
  /\ LifeSpawn \/ LifeCrash \/ LifeTeardown
  /\ UNCHANGED <<turnVars, events>>

\* reconcile_orphaned_prompts: the rows and their settled events, or nothing
Reconciled ==
  \/ UNCHANGED <<row, quiet>>
  \/ /\ row' = [p \in Prompts |-> IF row[p] \in InFlight THEN "ended" ELSE row[p]]
     /\ quiet' = {}

\* the daemon dies and comes back: what is not in the database is gone
Reboot ==
  /\ Event
  /\ serving' = 0 /\ alive' = {}
  /\ stop' = "none" /\ crashed' = {}
  /\ attached' = {}
  /\ submit' = [p \in Prompts |-> IF submit[p] = "idle" THEN "idle" ELSE "done"]
  /\ task' = [p \in Prompts |-> IF task[p] = "none" THEN "none" ELSE "done"]
  /\ handles' = {} /\ token' = {}
  /\ cancel' = [s \in Sessions |-> "none"]
  /\ waited' = [s \in Sessions |-> {}]
  /\ seen' = [s \in Sessions |-> [p \in Prompts |-> "none"]]
  /\ teardown' = [s \in Sessions |-> "none"]
  /\ Reconciled
  /\ DemoteSessions
  /\ via' = [p \in Prompts |-> 0] /\ at' = [p \in Prompts |-> 0]
  /\ UNCHANGED spawned

-----------------------------------------------------------------------------
SubmitStep(p) ==
  \/ SubmitWarm(p) \/ SubmitReattach(p) \/ SubmitAttached(p) \/ SubmitActivate(p)
  \/ SubmitInsert(p) \/ SubmitSpawn(p) \/ SubmitRegister(p) \/ SubmitRefused(p)

TaskStep(p) ==
  TaskRunning(p) \/ TaskCancelled(p) \/ TaskSettle(p)

TurnNext ==
  \/ \E p \in Prompts :
       \/ SubmitCheck(p) \/ SubmitStep(p) \/ SubmitAborts(p)
       \/ TaskStep(p) \/ TaskSettleFails(p)
       \/ FallSilent(p) \/ SessionUpdate(p) \/ SweepStalled(p)
       \/ \E o \in Verdicts : TaskAnswered(p, o)
  \/ \E s \in Sessions :
       \/ CancelBegin(s) \/ CancelPoll(s) \/ CancelReturns(s)
       \/ \E k \in {"closing", "deleting"} : TeardownBegin(s, k)
       \/ TeardownFire(s) \/ CloseWrite(s) \/ DeleteWrite(s) \/ TeardownAborts(s)
       \/ SweepIdle(s)
  \/ TurnStop \/ TurnFault \/ TurnDrain \/ TurnDemote \/ TurnAgent
  \/ Reboot

\* Submits and tasks that have begun go on; a call on a dead connection fails; the
\* threshold of a row passes, and the sweep after that takes the row.  A session that
\* streams for ever answers every silence with an update before the sweep.
TurnSpec ==
  /\ TurnInit /\ [][TurnNext]_allVars
  /\ \A p \in Prompts :
       /\ WF_allVars(SubmitStep(p))
       /\ WF_allVars(TaskStep(p))
       /\ WF_allVars(via[p] \notin alive /\ TaskAnswered(p, "ended"))
       /\ WF_allVars(FallSilent(p))
       /\ WF_allVars(SweepStalled(p))

-----------------------------------------------------------------------------
(* Properties *)

\* Type correctness: prompts and session rows only ever hold the statuses the
\* database knows, a fired token never reaching prompts.status as such.
TurnTypeOK ==
  /\ LifeTypeOK
  /\ sess \in [Sessions -> {"active", "available", "closed", "deleted"}]
  /\ attached \subseteq Sessions \X Bridges
  /\ row \in [Prompts -> {"none", "deleted"} \cup InFlight \cup Terminal]
  /\ quiet \subseteq Prompts
  /\ submit \in [Prompts -> SubmitStates]
  /\ via \in [Prompts -> 0 .. MaxBridges] /\ at \in [Prompts -> 0 .. MaxBridges]
  /\ task \in [Prompts -> TaskStates]
  /\ handles \subseteq Prompts /\ token \subseteq Prompts
  /\ cancel \in [Sessions -> {"none", "waiting", "ok"}]
  /\ waited \in [Sessions -> SUBSET Prompts]
  /\ seen \in [Sessions -> [Prompts -> {"none"} \cup Terminal]]
  /\ teardown \in [Sessions -> Teardowns]
  /\ events \in 0 .. MaxEvents

\* One ACP session drives one turn at a time: never two turns of a session that
\* both have a row in flight and a call on a connected agent, whatever stops,
\* crashes, cancels and dropped requests happen between the in-flight check and
\* the registration.  A submit dropped between spawning its task and
\* registering it ("lost") is the one exception the code leaves.
OneTurnPerSession ==
  \A p, q \in Prompts :
    /\ SessionOf[p] = SessionOf[q]
    /\ \A r \in {p, q} : row[r] \in InFlight /\ task[r] = "call"
                         /\ via[r] \in alive /\ submit[r] # "lost"
    => p = q

\* A cancel that answers success answers for turns that are over as cancelled,
\* although its guards were long released and a sweep, a token or the agent may
\* have settled them meanwhile.
CancelTellsTheTruth ==
  \A s \in Sessions : cancel[s] = "ok" =>
    \A p \in waited[s] : row[p] \in {"cancelled", "deleted"}

(* The inductive invariant behind these *)

\* Bridges are numbered as they come up, and nothing refers to one that has not;
\* while a stop drains and tears down, no bridge is handed out.
BridgesInv ==
  /\ serving <= spawned /\ alive \subseteq 1 .. spawned
  /\ \A p \in Prompts : via[p] <= spawned /\ at[p] <= spawned
  /\ stop \in {"drain", "teardown"} => serving = 0

\* A prompt has no row before its insert and no task before its spawn.
StepsInv ==
  \A p \in Prompts :
    /\ submit[p] \in {"idle", "checked", "attach", "activate", "ready"} => row[p] = "none"
    /\ submit[p] \in {"idle", "checked", "attach", "activate", "ready", "inserted"} => task[p] = "none"

\* the turn of p is driven, or about to be, on a connected agent
Driven(p) ==
  /\ row[p] \in InFlight /\ task[p] \in {"start", "call"}
  /\ via[p] \in alive /\ submit[p] # "lost"

\* A driven turn holds its session's lock, or is registered, or is on a bridge that
\* is not handed out any more.
RegistryInv ==
  \A p \in Prompts : Driven(p) => submit[p] = "spawned" \/ p \in handles \/ serving = 0

\* A submit holds its session's lock alone, and no other turn is driven under it.
LockInv ==
  \A p, q \in Prompts :
    p # q /\ SessionOf[p] = SessionOf[q] /\ submit[p] \in Submitting =>
      submit[q] \notin Submitting /\ ~Driven(q)

OneDriven ==
  \A p, q \in Prompts : SessionOf[p] = SessionOf[q] /\ Driven(p) /\ Driven(q) => p = q

\* A cancelled status a cancel has read is still there when it answers.
SeenInv ==
  \A s \in Sessions : \A p \in Prompts :
    seen[s][p] = "cancelled" => row[p] \in {"cancelled", "deleted"}

TurnInv ==
  /\ TurnTypeOK /\ BridgesInv /\ StepsInv /\ RegistryInv /\ LockInv
  /\ OneDriven /\ SeenInv /\ CancelTellsTheTruth

\* A verdict is final: only deletion removes it.  A stall is replaced only by
\* the agent's own answer, never by a token acps fired itself, and never goes
\* back in flight (settle_prompt, update_prompt_status).
VerdictIsFinal ==
  [][\A p \in Prompts :
       /\ row[p] \in Verdicts => row'[p] \in {row[p], "deleted"}
       /\ row[p] = "stalled" => \/ row'[p] \in {"stalled", "deleted"}
                                \/ row'[p] \in Verdicts /\ row'[p] = task[p]]_allVars

\* A row is in flight for ever only if updates renew it for ever: whatever its agent
\* did, whichever step its submit or a stop was caught in and whichever write failed,
\* a row that is left alone is settled in the end by its own task or by the sweeper
\* (submit_prompt, mark_stalled_prompts).  The premise is needed: a later turn of the
\* session renews the row an earlier one left behind (insert_session_update_row).
TurnsSettle ==
  \A p \in Prompts :
    <>[][~SessionUpdate(p)]_allVars =>
      (row[p] \in InFlight ~> row[p] \notin InFlight)

\* "`closed` (terminal)": a closed session never comes back.
ClosedIsFinal ==
  [][\A s \in Sessions : sess[s] = "closed" => sess'[s] \in {"closed", "deleted"}]_allVars

\* A restart that waits for idle never takes down a running turn: when the gate
\* is free, every turn driven on the connected agent of an open session is
\* among the blockers the restart looks at.
BlockersSeeTurns ==
  GateFree =>
    \A p \in Prompts :
      row[p] \in InFlight /\ task[p] = "call" /\ via[p] \in alive /\ Open(SessionOf[p])
        => p \in Blockers

=============================================================================
