------------------------------ MODULE AgentSwitch ------------------------------
(***************************************************************************)
(* POST /v1/agent/switch (api/routes/agent/switch.rs) and its journal      *)
(* (runtime/agent/switch_journal.rs): the default target, or the provider  *)
(* and model of the target that is the default already, is changed in the  *)
(* canonical config, the session rows, the journal and the running agents, *)
(* none of which change together.  A step may fail, the client may go      *)
(* away and the daemon may die between any two of them; a retry of the     *)
(* same request has to converge.  Agents crash, are brought back by their  *)
(* monitors and list their sessions without the lock the handler holds.    *)
(***************************************************************************)
EXTENDS Naturals

CONSTANTS Targets,      \* target ids, which are agent ids (config/validate.rs)
          MaxSel,       \* bound: selections of provider and model
          MaxSwitches,  \* bound: switches planned afresh in one behaviour
          MaxEvents     \* bound: faults, operator edits and stops in one behaviour

ASSUME SelAssumption == MaxSel \in Nat \ {0}
ASSUME SwitchesAssumption == MaxSwitches \in Nat
ASSUME SwitchEventsAssumption == MaxEvents \in Nat

VARIABLES config,    \* acps-config.toml: the primary target, and the selection of
                     \* each target (0: not an Array target)
          journal,   \* agent-switch.json
          rows,      \* <<target, agent>>: rows of that agent's session by target_id
          live,      \* live_agent_config of each known target (0: not known)
          proc,      \* the selection each target's agent runs with (0: stopped)
          backoff,   \* the selection a crash monitor is about to relaunch with
          req,       \* the switch request that holds the mutation lock
          client,    \* the body of the last request that reached the journal
          switches,  \* switches planned afresh so far
          edits,     \* operator edits of the config so far
          events     \* faults, edits and stops so far

agentsVars == <<proc, backoff>>
switchVars == <<config, journal, rows, live, proc, backoff, req, client,
                switches, edits, events>>

Sels   == 1 .. MaxSel
Kinds  == {"bare", "model", "provider"}
\* a bare body leaves the selection to the target's defaults
Bodies == {b \in [target : Targets, kind : Kinds, sel : Sels] : b.kind = "bare" => b.sel = 1}

Configs   == [primary : Targets, sel : [Targets -> 0 .. MaxSel]]
NoJournal == [phase |-> "none"]
NoRequest == [phase |-> "none"]
Phases    == {"planned", "committed", "applied", "completed"}

Incomplete == journal.phase \in Phases \ {"completed"}

SwitchInit ==
  /\ config \in {c \in Configs : c.sel[c.primary] = 1 /\ \A t \in Targets : c.sel[t] <= 1}
  /\ journal = NoJournal
  /\ rows = {<<config.primary, config.primary>>}
  /\ live = config.sel
  /\ proc = [t \in Targets |-> 0] /\ backoff = [t \in Targets |-> 0]
  /\ req = NoRequest
  /\ client \in {b \in Bodies : b.kind = "bare"}
  /\ switches = 0 /\ edits = 0 /\ events = 0

Event == events < MaxEvents /\ events' = events + 1

-----------------------------------------------------------------------------
(* What the journal says about a request: classify_switch_journal *)

CandidateOnDisk == config = journal.candidate

\* mutant: the target id alone decides, for a reconfigure too
CommittedByTarget == config.primary = journal.new

\* a reconfigure keeps the target id, so only the bytes can tell
CommittedOnDisk ==
  IF journal.old = journal.new THEN CandidateOnDisk ELSE config.primary = journal.new

SameTarget(b) == b.target = journal.new

\* the config write landed and nobody edited it since, and the body asks for nothing
\* else; a different selection is a conflict
Resumable(b) ==
  /\ Incomplete /\ SameTarget(b)
  /\ CommittedOnDisk /\ CandidateOnDisk
  /\ b.kind = "model" => journal.model = b.sel
  /\ b.kind = "provider" /\ journal.old = journal.new => config.sel[config.primary] = b.sel

\* interrupted before the config write: run the whole pipeline again
AtCommitBoundary(b) == Incomplete /\ SameTarget(b) /\ ~CommittedOnDisk

\* a completed journal of the same target answers a bare body by itself
AnsweredNoOp(b) ==
  /\ journal.phase = "completed" /\ SameTarget(b) /\ CommittedOnDisk
  /\ b.kind = "bare"

\* the config the request asks for, computed from the one on disk
Candidate(b) ==
  IF b.target = config.primary THEN [config EXCEPT !.sel[b.target] = b.sel]
  ELSE IF config.sel[b.target] # 0 THEN [config EXCEPT !.primary = b.target]
  ELSE [primary |-> b.target,
        sel |-> [config.sel EXCEPT ![config.primary] = 0, ![b.target] = b.sel]]

\* bodies that get past the checks of the path they dispatch to: reconfigure of the
\* primary, selection of an existing target, or a switch to a new one
Plannable(b, resuming) ==
  \/ /\ b.target = config.primary /\ b.kind # "bare"
     /\ resuming \/ b.kind = "provider" \/ Candidate(b) # config
  \/ b.target # config.primary /\ config.sel[b.target] # 0 /\ b.kind = "bare"
  \/ config.sel[b.target] = 0

-----------------------------------------------------------------------------
(* The handler, under the agent-config mutation lock *)

ToStep(st) == req' = [req EXCEPT !.phase = st]

\* the candidate is computed from the config just read; resume: against which journal
Plan(b, resume) ==
  req' = [phase |-> "prepare", body |-> b, old |-> config.primary,
          cand |-> Candidate(b), resume |-> resume, run |-> FALSE,
          renames |-> b.target # config.primary /\ config.sel[b.target] = 0]

\* no journal, or one of a finished switch that says nothing about this body
PlanFresh(b) ==
  /\ req = NoRequest
  /\ ~Incomplete /\ ~AnsweredNoOp(b)
  /\ Plannable(b, FALSE)
  /\ switches < MaxSwitches
  /\ switches' = switches + 1
  /\ Plan(b, NoJournal)
  /\ UNCHANGED <<config, journal, rows, live, agentsVars, client, edits, events>>

PlanAgain(b) ==
  /\ req = NoRequest
  /\ AtCommitBoundary(b)
  /\ Plannable(b, TRUE)
  /\ Plan(b, journal)
  /\ UNCHANGED <<config, journal, rows, live, agentsVars, client, switches, edits, events>>

\* refresh_array_runtime_from_disk: targets not known yet are added, none is changed
Refreshed == [t \in Targets |-> IF live[t] = 0 THEN config.sel[t] ELSE live[t]]

\* resume_committed_switch, with the journaled restart decision
ResumeCommitted(b) ==
  /\ req = NoRequest
  /\ Resumable(b)
  /\ live' = Refreshed
  /\ req' = [phase |-> "apply", body |-> b, old |-> journal.old, cand |-> config,
             resume |-> journal, run |-> journal.run, renames |-> FALSE]
  /\ UNCHANGED <<config, journal, rows, agentsVars, client, switches, edits, events>>

\* mutant: the recomputed candidate is not compared with the interrupted one
ReproducesAnything == TRUE

\* a resumed switch must reproduce the journaled candidate
Reproduces == req.resume # NoJournal => req.resume.candidate = req.cand

\* installed, provisioned and probed; the restart decision is taken and the plan
\* is journaled
PersistPlanned ==
  /\ req.phase = "prepare"
  /\ Reproduces
  /\ LET run == req.body.kind = "provider" \/ proc[req.old] # 0
     IN /\ journal' = [phase |-> "planned", old |-> req.old, new |-> req.body.target,
                       candidate |-> req.cand, run |-> run,
                       model |-> IF req.body.kind = "model" THEN req.body.sel ELSE 0]
        /\ req' = [req EXCEPT !.run = run, !.phase = IF req.renames THEN "rename" ELSE "write"]
  /\ client' = req.body
  /\ UNCHANGED <<config, rows, live, agentsVars, switches, edits, events>>

RefuseMismatch ==
  /\ req.phase = "prepare"
  /\ ~Reproduces
  /\ req' = NoRequest
  /\ UNCHANGED <<config, journal, rows, live, agentsVars, client, switches, edits, events>>

\* UNIQUE(target_id, agent_session_id)
Collides == \E a \in Targets : {<<req.old, a>>, <<req.cand.primary, a>>} \subseteq rows

RenameSessions ==
  /\ req.phase = "rename"
  /\ ~Collides
  /\ rows' = {IF r[1] = req.old THEN <<req.cand.primary, r[2]>> ELSE r : r \in rows}
  /\ ToStep("write")
  /\ UNCHANGED <<config, journal, live, agentsVars, client, switches, edits, events>>

\* the planned journal is dropped: "nothing durable changed"
RenameConflict ==
  /\ req.phase = "rename"
  /\ Collides
  /\ journal' = NoJournal
  /\ req' = NoRequest
  /\ UNCHANGED <<config, rows, live, agentsVars, client, switches, edits, events>>

WriteConfig ==
  /\ req.phase = "write"
  /\ config' = req.cand
  /\ ToStep("commit")
  /\ UNCHANGED <<journal, rows, live, agentsVars, client, switches, edits, events>>

PersistCommitted ==
  /\ req.phase = "commit"
  /\ live' = Refreshed
  /\ journal' = [journal EXCEPT !.phase = "committed"]
  /\ ToStep("apply")
  /\ UNCHANGED <<config, rows, agentsVars, client, switches, edits, events>>

\* mutant: a resumed switch only tidies the journal up
ApplyOnlyFresh ==
  /\ req.phase = "apply"
  /\ live' = IF req.resume = NoJournal THEN [live EXCEPT ![req.cand.primary] = req.cand.sel[req.cand.primary]] ELSE live
  /\ ToStep(IF req.run THEN "stop" ELSE "applied")
  /\ UNCHANGED <<config, journal, rows, agentsVars, client, switches, edits, events>>

\* apply_switch_runtime: the new selection is live
ApplyLive ==
  /\ req.phase = "apply"
  /\ live' = [live EXCEPT ![req.cand.primary] = req.cand.sel[req.cand.primary]]
  /\ ToStep(IF req.run THEN "stop" ELSE "applied")
  /\ UNCHANGED <<config, journal, rows, agentsVars, client, switches, edits, events>>

\* the old target's agent is stopped; one that is not running is not an error
StopOld ==
  /\ req.phase = "stop"
  /\ proc' = [proc EXCEPT ![req.old] = 0]
  /\ ToStep("start")
  /\ UNCHANGED <<config, journal, rows, live, backoff, client, switches, edits, events>>

\* an agent of the new target that is up by now is left as it is
StartNew ==
  /\ req.phase = "start"
  /\ proc' = [proc EXCEPT ![req.cand.primary] =
                IF @ = 0 THEN req.cand.sel[req.cand.primary] ELSE @]
  /\ ToStep("applied")
  /\ UNCHANGED <<config, journal, rows, live, backoff, client, switches, edits, events>>

PersistApplied ==
  /\ req.phase = "applied"
  /\ journal' = [journal EXCEPT !.phase = "applied"]
  /\ ToStep("complete")
  /\ UNCHANGED <<config, rows, live, agentsVars, client, switches, edits, events>>

PersistCompleted ==
  /\ req.phase = "complete"
  /\ journal' = [journal EXCEPT !.phase = "completed"]
  /\ req' = NoRequest
  /\ UNCHANGED <<config, rows, live, agentsVars, client, switches, edits, events>>

\* a step that fails, or a client that goes away: what was done stays done
Abort ==
  /\ req # NoRequest
  /\ req' = NoRequest
  /\ Event
  /\ UNCHANGED <<config, journal, rows, live, agentsVars, client, switches, edits>>

-----------------------------------------------------------------------------
(* Around the handler *)

\* start, or the lazy start of a session request: the config is read from disk
StartTarget(t) ==
  /\ req = NoRequest
  /\ config.sel[t] # 0 /\ proc[t] = 0
  /\ proc' = [proc EXCEPT ![t] = config.sel[t]]
  /\ live' = [live EXCEPT ![t] = config.sel[t]]
  /\ UNCHANGED <<config, journal, rows, backoff, req, client, switches, edits, events>>

StopTarget(t) ==
  /\ req = NoRequest
  /\ proc[t] # 0
  /\ proc' = [proc EXCEPT ![t] = 0]
  /\ Event
  /\ UNCHANGED <<config, journal, rows, live, backoff, req, client, switches, edits>>

\* the agent dies; its monitor remembers the config it was started with
AgentCrashes(t) ==
  /\ proc[t] # 0
  /\ proc' = [proc EXCEPT ![t] = 0]
  /\ backoff' = [backoff EXCEPT ![t] = proc[t]]
  /\ Event
  /\ UNCHANGED <<config, journal, rows, live, req, client, switches, edits>>

\* and brings it back without the lock, unless it is up already
Relaunch(t) ==
  /\ backoff[t] # 0
  /\ proc' = [proc EXCEPT ![t] = IF @ = 0 THEN backoff[t] ELSE @]
  /\ backoff' = [backoff EXCEPT ![t] = 0]
  /\ UNCHANGED <<config, journal, rows, live, req, client, switches, edits, events>>

\* the running agent's sessions are listed and filed under its target, on a timer
ListSync(t) ==
  /\ proc[t] # 0
  /\ rows' = rows \cup {<<t, t>>}
  /\ UNCHANGED <<config, journal, live, agentsVars, req, client, switches, edits, events>>

\* the operator imports another config, which the running daemon does not take up
EditConfig(c) ==
  /\ req = NoRequest
  /\ c # config /\ c.sel[c.primary] # 0
  /\ config' = c
  /\ edits' = edits + 1
  /\ Event
  /\ UNCHANGED <<journal, rows, live, agentsVars, req, client, switches>>

\* the daemon dies and comes back with the config on disk
CrashDaemon ==
  /\ Event
  /\ req' = NoRequest
  /\ live' = config.sel
  /\ proc' = [t \in Targets |-> 0] /\ backoff' = [t \in Targets |-> 0]
  /\ UNCHANGED <<config, journal, rows, client, switches, edits>>

-----------------------------------------------------------------------------
Handle ==
  \/ PersistPlanned \/ RefuseMismatch \/ RenameSessions \/ RenameConflict \/ WriteConfig
  \/ PersistCommitted \/ ApplyLive \/ StopOld \/ StartNew \/ PersistApplied \/ PersistCompleted

\* the client of an interrupted switch sends the same body again
Retry == PlanAgain(client) \/ ResumeCommitted(client)

SwitchNext ==
  \/ \E b \in Bodies : PlanFresh(b) \/ PlanAgain(b) \/ ResumeCommitted(b)
  \/ Handle \/ Abort
  \/ \E t \in Targets : \/ StartTarget(t) \/ StopTarget(t) \/ AgentCrashes(t) \/ Relaunch(t)
                        \/ ListSync(t)
  \/ \E c \in Configs : EditConfig(c)
  \/ CrashDaemon

\* A request that has begun goes on, and a client that keeps retrying gets the
\* mutation lock in the end (a fair queue).
SwitchSpec ==
  /\ SwitchInit /\ [][SwitchNext]_switchVars
  /\ WF_switchVars(Handle)
  /\ SF_switchVars(Retry)

-----------------------------------------------------------------------------
(* Properties *)

\* The journal never runs ahead of what it records, whatever is cut off where:
\* from `committed` on the candidate is the config on disk, from `applied` on its
\* selection is what sessions of the target use, and before that the disk shows one
\* of the two ends of the switch.  Stated while no operator edited the config.
JournalTellsTheTruth ==
  journal # NoJournal /\ edits = 0 =>
    /\ config.primary \in {journal.old, journal.new}
    /\ journal.phase # "planned" => config = journal.candidate
    /\ journal.phase \in {"applied", "completed"} =>
         live[journal.new] = journal.candidate.sel[journal.new]

\* An interrupted switch is never abandoned for another or compounded with it: until
\* it is completed its journal keeps the candidate it was planned with, through any
\* retries, edits and requests for other targets.  Only a rename conflict before the
\* config write may drop it.
InterruptedStaysItself ==
  [][Incomplete =>
       \/ journal'.phase # "none" /\ journal'.candidate = journal.candidate
                                  /\ journal'.new = journal.new
       \/ journal' = NoJournal /\ ~CandidateOnDisk]_switchVars

(* The inductive invariant behind these *)

Journals == {NoJournal} \cup [phase : Phases, old : Targets, new : Targets,
                              candidate : Configs, run : BOOLEAN, model : 0 .. MaxSel]
Steps    == {"prepare", "rename", "write", "commit", "apply", "stop", "start", "applied",
             "complete"}
Requests == {NoRequest} \cup [phase : Steps, body : Bodies, old : Targets, cand : Configs,
                              resume : Journals, run : BOOLEAN, renames : BOOLEAN]

\* Type correctness: the config, its journal, the request and the agents.
SwitchTypeOK ==
  /\ config \in Configs /\ journal \in Journals /\ req \in Requests
  /\ rows \subseteq Targets \X Targets
  /\ live \in [Targets -> 0 .. MaxSel]
  /\ proc \in [Targets -> 0 .. MaxSel] /\ backoff \in [Targets -> 0 .. MaxSel]
  /\ client \in Bodies
  /\ switches \in 0 .. MaxSwitches /\ edits \in Nat /\ events \in 0 .. MaxEvents

\* A candidate makes the new target the primary one.
CandidateInv ==
  /\ journal # NoJournal => journal.candidate.primary = journal.new
  /\ req # NoRequest => req.cand.primary = req.body.target

\* Before the config write the disk has the old end of the switch, and a resumed
\* plan belongs to the journal as it is.
PlanInv ==
  /\ req.phase \in {"prepare", "rename", "write"} => config.primary = req.old
  /\ req.phase = "prepare" =>
       /\ Incomplete => req.resume = journal /\ req.body.target = journal.new
       /\ req.renames => req.cand.primary # config.primary
  /\ req.phase = "rename" => req.cand.primary # config.primary

\* Once journaled, the request and the journal are about the same switch; once
\* written, the candidate is the config, and once applied its selection is live.
HandlerInv ==
  /\ req.phase \in Steps \ {"prepare"} =>
       Incomplete /\ journal.candidate = req.cand /\ journal.new = req.cand.primary
  /\ req.phase \in {"rename", "write", "commit"} =>
       journal.phase = "planned" /\ journal.old = req.old
  /\ req.phase \in {"commit", "apply", "stop", "start", "applied", "complete"} => config = req.cand
  /\ req.phase \in {"stop", "start", "applied", "complete"} =>
       live[req.cand.primary] = req.cand.sel[req.cand.primary]

SwitchInv == SwitchTypeOK /\ CandidateInv /\ PlanInv /\ HandlerInv /\ JournalTellsTheTruth

\* The switch of the last client is done: on disk, live and journaled as completed.
Finished ==
  /\ journal.phase = "completed" /\ CandidateOnDisk
  /\ live[journal.new] = journal.candidate.sel[journal.new]

\* It was dropped: the old and the new target both have a row of one agent session, and
\* the same request would collide again.
Refused ==
  /\ journal = NoJournal /\ config.primary # client.target
  /\ \E t \in Targets : {<<config.primary, t>>, <<client.target, t>>} \subseteq rows

\* Retrying converges: as long as no operator edits the config, an interrupted switch
\* whose client keeps sending the same body is finished, wherever it was cut off.  The one
\* way out is a rename that collides with a session row filed under the new target, by
\* the listing of an agent that ran for it: that leaves the switch undone for good.
SwitchConverges == [](edits = 0) => (Incomplete ~> Finished \/ Refused)

\* "config and DB never diverge": between switches every session row belongs to a
\* target that the config on disk names, so the session can be reached.  Stated while no
\* operator edited the config.
RowsFollowTargets ==
  edits = 0 /\ req = NoRequest /\ ~Incomplete => \A r \in rows : config.sel[r[1]] # 0

=============================================================================
