---------------------------- MODULE AgentSupervisor ----------------------------
(***************************************************************************)
(* The life of the agent process (runtime/agent/supervisor.rs and its      *)
(* bridge.rs).  Four kinds of actor move the one supervisor state:         *)
(*   - a start, stop or restart request, one at a time under the           *)
(*     agent-config mutation lock; its handler future may be dropped at    *)
(*     any await when the client disconnects, unless a detached worker     *)
(*     (the queued restart, the restart after an update) runs it;          *)
(*   - the exit monitor of each bridge, a detached task that outlives the  *)
(*     bridge it watches and restarts a crashed agent after a backoff,     *)
(*     without that lock;                                                  *)
(*   - the updater, which owns the state while it replaces the binary;     *)
(*   - the agent itself, whose connection or process may end at any time.  *)
(***************************************************************************)
EXTENDS Naturals, FiniteSets

CONSTANTS MaxBridges,   \* bound: bridges spawned in one behaviour
          MaxDrops      \* bound: request futures dropped in one behaviour

ASSUME BridgesAssumption == MaxBridges \in Nat
ASSUME DropsAssumption == MaxDrops \in Nat

VARIABLES agent,      \* AgentState
          bridge,     \* the last bridge spawned; Running holds this one
          alive,      \* bridges whose connection is up
          procs,      \* bridges whose child process has not been reaped
          planned,    \* bridges whose teardown has been called
          request,    \* the lifecycle request that holds the mutation lock
          monitor,    \* where the exit monitor of each bridge stands
          thenStart,  \* the running update restarts the agent afterwards
          relaunch,   \* an update is over and has yet to restart the agent
          drops       \* request futures dropped so far

agentVars == <<agent, bridge, alive, procs, planned, request, monitor,
               thenStart, relaunch, drops>>

Bridges     == 1 .. MaxBridges
AgentStates == {"stopped", "starting", "running", "stopping", "updating"}
Phases      == {"none", "start", "watch", "drain", "settle", "teardown", "reap", "demote"}
Requests    == [phase : Phases, again : BOOLEAN, detached : BOOLEAN]
TearingDown == {"drain", "settle", "teardown", "reap"}
Monitors    == {"off", "watch", "reap", "demote", "exited", "backoff",
                "restart", "handoff", "done"}

NoRequest == [phase |-> "none", again |-> FALSE, detached |-> FALSE]

AgentInit ==
  /\ agent = "stopped"
  /\ bridge = 0
  /\ alive = {} /\ procs = {} /\ planned = {}
  /\ request = NoRequest
  /\ monitor = [b \in Bridges |-> "off"]
  /\ thenStart = FALSE /\ relaunch = FALSE
  /\ drops = 0

-----------------------------------------------------------------------------
(* Spawning *)

\* mutant: the new bridge is spawned and the old one stays installed
SpawnedNotInstalled ==
  /\ bridge < MaxBridges
  /\ alive' = alive \cup {bridge + 1}
  /\ procs' = procs \cup {bridge + 1}
  /\ agent' = "running"
  /\ UNCHANGED bridge

\* a bridge that has finished the initialize handshake, installed as Running
Spawned ==
  /\ bridge < MaxBridges
  /\ bridge' = bridge + 1
  /\ alive' = alive \cup {bridge + 1}
  /\ procs' = procs \cup {bridge + 1}
  /\ agent' = "running"

Phase(ph) == request' = [request EXCEPT !.phase = ph]

\* mutant: a start accepted while another actor is starting the agent
MayStartTwice == agent \in {"stopped", "starting"}

\* Stopped is the only state a start or an update may leave
MayStart == agent = "stopped"

-----------------------------------------------------------------------------
(* Lifecycle requests *)

\* `start`, and a restart that finds no running agent.  When the state is not
\* Stopped the call fails and changes nothing.
Start(detached) ==
  /\ request = NoRequest
  /\ MayStart
  /\ agent' = "starting"
  /\ request' = [NoRequest EXCEPT !.phase = "start", !.detached = detached]
  /\ UNCHANGED <<bridge, alive, procs, planned, monitor, thenStart, relaunch, drops>>

\* the state is Running; the monitor is spawned only after three more awaits
StartOk ==
  /\ request.phase = "start"
  /\ Spawned
  /\ Phase("watch")
  /\ UNCHANGED <<planned, monitor, thenStart, relaunch, drops>>

\* mutant: no exit monitor is spawned for a bridge started by request
StartUnwatched ==
  /\ request.phase = "watch"
  /\ request' = NoRequest
  /\ UNCHANGED <<agent, bridge, alive, procs, planned, monitor, thenStart, relaunch, drops>>

StartWatch ==
  /\ request.phase = "watch"
  /\ monitor' = [monitor EXCEPT ![bridge] = "watch"]
  /\ request' = NoRequest
  /\ UNCHANGED <<agent, bridge, alive, procs, planned, thenStart, relaunch, drops>>

\* do_start tears down what it spawned, and the state is rolled back
StartFails ==
  /\ request.phase = "start"
  /\ agent' = "stopped"
  /\ request' = NoRequest
  /\ UNCHANGED <<bridge, alive, procs, planned, monitor, thenStart, relaunch, drops>>

\* `stop`, or the first half of a restart (again)
StopBegin(again, detached) ==
  /\ request = NoRequest
  /\ agent = "running"
  /\ agent' = "stopping"
  /\ request' = [phase |-> "drain", again |-> again, detached |-> detached]
  /\ UNCHANGED <<bridge, alive, procs, planned, monitor, thenStart, relaunch, drops>>

\* cancel_all_prompts fires every prompt's token
StopDrain ==
  /\ request.phase = "drain"
  /\ Phase("settle")
  /\ UNCHANGED <<agent, bridge, alive, procs, planned, monitor, thenStart, relaunch, drops>>

\* and has waited for their tasks, or for its budget
StopSettled ==
  /\ request.phase = "settle"
  /\ Phase("teardown")
  /\ UNCHANGED <<agent, bridge, alive, procs, planned, monitor, thenStart, relaunch, drops>>

\* bridge.shutdown: mark it planned, then take the connection away
Teardown(b) ==
  /\ planned' = planned \cup {b}
  /\ alive' = alive \ {b}

StopTeardown ==
  /\ request.phase = "teardown"
  /\ Teardown(bridge)
  /\ Phase("reap")
  /\ UNCHANGED <<agent, bridge, procs, monitor, thenStart, relaunch, drops>>

\* the child is waited for or killed, then the state is Stopped whatever happened
StopReap ==
  /\ request.phase = "reap"
  /\ procs' = procs \ {bridge}
  /\ agent' = "stopped"
  /\ Phase("demote")
  /\ UNCHANGED <<bridge, alive, planned, monitor, thenStart, relaunch, drops>>

\* the sessions are demoted; a restart then starts the agent unless another
\* actor took the state meanwhile
StopDemote ==
  /\ request.phase = "demote"
  /\ IF request.again /\ MayStart
     THEN /\ agent' = "starting"
          /\ request' = [request EXCEPT !.phase = "start", !.again = FALSE]
     ELSE /\ request' = NoRequest
          /\ UNCHANGED agent
  /\ UNCHANGED <<bridge, alive, procs, planned, monitor, thenStart, relaunch, drops>>

\* the client went away: the handler is dropped at its await, nothing after it runs
DropRequest ==
  /\ request # NoRequest /\ ~request.detached
  /\ drops < MaxDrops
  /\ drops' = drops + 1
  /\ request' = NoRequest
  /\ UNCHANGED <<agent, bridge, alive, procs, planned, monitor, thenStart, relaunch>>

-----------------------------------------------------------------------------
(* The agent *)

\* the child process exits, and its connection with it
AgentExits(b) ==
  /\ b \in procs
  /\ procs' = procs \ {b}
  /\ alive' = alive \ {b}
  /\ UNCHANGED <<agent, bridge, planned, request, monitor, thenStart, relaunch, drops>>

\* the connection ends while the child lives on
ConnectionEnds(b) ==
  /\ b \in alive
  /\ alive' = alive \ {b}
  /\ UNCHANGED <<agent, bridge, procs, planned, request, monitor, thenStart, relaunch, drops>>

-----------------------------------------------------------------------------
(* Exit monitors *)

MonitorTo(b, st) == monitor' = [monitor EXCEPT ![b] = st]

\* the supervisor is Running this very bridge
IsRunning(b) == agent = "running" /\ bridge = b

\* an exit nobody planned, of the bridge that is running, stops the supervisor
MonitorSees(b) ==
  /\ monitor[b] = "watch"
  /\ b \notin alive
  /\ IF b \notin planned /\ IsRunning(b)
     THEN agent' = "stopped" /\ MonitorTo(b, "reap")
     ELSE MonitorTo(b, "done") /\ UNCHANGED agent
  /\ UNCHANGED <<bridge, alive, procs, planned, request, thenStart, relaunch, drops>>

\* mutant: the crashed bridge is not shut down
MonitorSkipsReap(b) ==
  /\ monitor[b] = "reap"
  /\ MonitorTo(b, "demote")
  /\ UNCHANGED <<agent, bridge, alive, procs, planned, request, thenStart, relaunch, drops>>

MonitorReap(b) ==
  /\ monitor[b] = "reap"
  /\ planned' = planned \cup {b}
  /\ procs' = procs \ {b}
  /\ MonitorTo(b, "demote")
  /\ UNCHANGED <<agent, bridge, alive, request, thenStart, relaunch, drops>>

MonitorDemote(b) ==
  /\ monitor[b] = "demote"
  /\ MonitorTo(b, "exited")
  /\ UNCHANGED <<agent, bridge, alive, procs, planned, request, thenStart, relaunch, drops>>

MonitorSchedules(b) ==
  /\ monitor[b] = "exited"
  /\ MonitorTo(b, "backoff")
  /\ UNCHANGED <<agent, bridge, alive, procs, planned, request, thenStart, relaunch, drops>>

\* restart = "never", or a lifecycle row that could not be written
MonitorGivesUp(b) ==
  /\ monitor[b] = "exited"
  /\ MonitorTo(b, "done")
  /\ UNCHANGED <<agent, bridge, alive, procs, planned, request, thenStart, relaunch, drops>>

\* mutant: the monitor wakes and starts whatever the state is
MonitorWakesBlind(b) ==
  /\ monitor[b] = "backoff"
  /\ agent' = "starting" /\ MonitorTo(b, "restart")
  /\ UNCHANGED <<bridge, alive, procs, planned, request, thenStart, relaunch, drops>>

\* the backoff is over: restart unless the state moved on
MonitorWakes(b) ==
  /\ monitor[b] = "backoff"
  /\ IF MayStart
     THEN agent' = "starting" /\ MonitorTo(b, "restart")
     ELSE MonitorTo(b, "done") /\ UNCHANGED agent
  /\ UNCHANGED <<bridge, alive, procs, planned, request, thenStart, relaunch, drops>>

\* the last step of the old monitor is to spawn the one of the new bridge
RestartOk(b) ==
  /\ monitor[b] = "restart"
  /\ Spawned
  /\ monitor' = [monitor EXCEPT ![b] = "done", ![bridge'] = "handoff"]
  /\ UNCHANGED <<planned, request, thenStart, relaunch, drops>>

RestartWatch(b) ==
  /\ monitor[b] = "handoff"
  /\ MonitorTo(b, "watch")
  /\ UNCHANGED <<agent, bridge, alive, procs, planned, request, thenStart, relaunch, drops>>

RestartFails(b) ==
  /\ monitor[b] = "restart"
  /\ agent' = "stopped"
  /\ MonitorTo(b, "done")
  /\ UNCHANGED <<bridge, alive, procs, planned, request, thenStart, relaunch, drops>>

-----------------------------------------------------------------------------
(* Updates *)

\* try_begin_update; restart: the update stopped a running agent first.
\* Bound: one finished update at a time waits to restart the agent.
BeginUpdate(restart) ==
  /\ MayStart
  /\ ~relaunch
  /\ agent' = "updating"
  /\ thenStart' = restart
  /\ UNCHANGED <<bridge, alive, procs, planned, request, monitor, relaunch, drops>>

\* mutant: the update task returns without finish_update
UpdateLeaksState ==
  /\ agent = "updating"
  /\ relaunch' = thenStart
  /\ thenStart' = FALSE
  /\ UNCHANGED <<agent, bridge, alive, procs, planned, request, monitor, drops>>

FinishUpdate ==
  /\ agent = "updating"
  /\ agent' = "stopped"
  /\ relaunch' = thenStart
  /\ thenStart' = FALSE
  /\ UNCHANGED <<bridge, alive, procs, planned, request, monitor, drops>>

\* restart_agent_after_update, detached: a state other than Stopped is left alone
Relaunch ==
  /\ relaunch
  /\ request = NoRequest
  /\ relaunch' = FALSE
  /\ IF MayStart
     THEN /\ agent' = "starting"
          /\ request' = [NoRequest EXCEPT !.phase = "start", !.detached = TRUE]
     ELSE UNCHANGED <<agent, request>>
  /\ UNCHANGED <<bridge, alive, procs, planned, monitor, thenStart, drops>>

-----------------------------------------------------------------------------
Lifecycle == StartOk \/ StartWatch \/ StartFails \/ StopDrain \/ StopSettled
             \/ StopTeardown \/ StopReap \/ StopDemote

MonitorStep(b) ==
  \/ MonitorSees(b) \/ MonitorReap(b) \/ MonitorDemote(b) \/ MonitorSchedules(b)
  \/ MonitorGivesUp(b) \/ MonitorWakes(b) \/ RestartOk(b) \/ RestartWatch(b)
  \/ RestartFails(b)

AgentNext ==
  \/ \E d \in BOOLEAN : Start(d)
  \/ \E a, d \in BOOLEAN : StopBegin(a, d)
  \/ Lifecycle
  \/ DropRequest
  \/ \E b \in Bridges : AgentExits(b) \/ ConnectionEnds(b) \/ MonitorStep(b)
  \/ \E r \in BOOLEAN : BeginUpdate(r)
  \/ FinishUpdate \/ Relaunch

\* Requests, monitors and updates that have begun go on: every await of theirs is
\* bounded by a timeout.  No start, stop, update, exit or drop has to happen.
AgentSpec ==
  /\ AgentInit /\ [][AgentNext]_agentVars
  /\ WF_agentVars(Lifecycle)
  /\ \A b \in Bridges : WF_agentVars(MonitorStep(b))
  /\ WF_agentVars(FinishUpdate)
  /\ WF_agentVars(Relaunch)

-----------------------------------------------------------------------------
(* Properties *)

\* Type correctness of the supervisor: states, requests and monitors stay in their
\* sets, and every connection, process and teardown is of a spawnable bridge (AgentState).
AgentTypeOK ==
  /\ agent \in AgentStates
  /\ bridge \in 0 .. MaxBridges
  /\ alive \subseteq Bridges /\ procs \subseteq Bridges /\ planned \subseteq Bridges
  /\ request \in Requests
  /\ monitor \in [Bridges -> Monitors]
  /\ thenStart \in BOOLEAN /\ relaunch \in BOOLEAN
  /\ drops \in 0 .. MaxDrops

Owners == {b \in Bridges : monitor[b] = "restart"}
          \cup (IF request.phase = "start" THEN {0} ELSE {})

\* Every in-between state of the supervisor has the one actor that will end it:
\* a Starting has one spawner, a Stopping the request that tears the bridge
\* down, and nobody believes it owns a state it does not (supervisor.rs: start,
\* stop_inner; bridge.rs: monitor_bridge_exit).  Stated for behaviours in which
\* no request future was dropped: a drop strands the state it was in.
TransitionOwned ==
  drops = 0 =>
    /\ Cardinality(Owners) = IF agent = "starting" THEN 1 ELSE 0
    /\ (agent = "stopping") <=> (request.phase \in TearingDown)

\* A running agent is watched: its exit monitor is up, or is about to be spawned
\* by the actor that installed it, so no crash goes unseen.  Only a start
\* dropped between the two leaves it unwatched.
RunningIsWatched ==
  drops = 0 /\ agent = "running" =>
    monitor[bridge] \in {"watch", "handoff"} \/ request.phase = "watch"

(* The inductive invariant behind these, and behind the refinement below *)

\* Only the last bridge can be connected, and only while it runs or is stopped;
\* no bridge that was not spawned has a monitor or was torn down.
BridgeInv ==
  /\ alive \subseteq {bridge}
  /\ agent \notin {"running", "stopping"} => alive = {}
  /\ agent \in {"running", "stopping"} => bridge # 0
  /\ planned \subseteq 1 .. bridge
  /\ \A b \in Bridges : b > bridge => monitor[b] = "off"

\* Nobody believes it owns a state it does not, dropped requests or not.
ClaimInv ==
  /\ request.phase = "start" => agent = "starting"
  /\ request.phase \in TearingDown => agent = "stopping"
  /\ request.phase = "reap" => alive = {}
  /\ \A b \in Bridges : monitor[b] = "restart" => agent = "starting" /\ request.phase # "start"
  /\ \A b, c \in Bridges : monitor[b] = "restart" /\ monitor[c] = "restart" => b = c

\* A running bridge is not torn down and its monitor has not seen it end; the
\* request that started it has yet to spawn that monitor.
WatchInv ==
  /\ request.phase = "watch" => agent = "running" /\ monitor[bridge] = "off"
  /\ agent = "running" => bridge \notin planned /\ monitor[bridge] \in {"off", "watch", "handoff"}

\* Without dropped requests, what is in between has its owner.
OwnerInv ==
  drops = 0 =>
    /\ agent = "starting" =>
         request.phase = "start" \/ \E b \in Bridges : monitor[b] = "restart"
    /\ agent = "stopping" => request.phase \in TearingDown

AgentInv ==
  /\ AgentTypeOK /\ BridgeInv /\ ClaimInv /\ WatchInv /\ OwnerInv /\ RunningIsWatched

Life == INSTANCE AgentLife WITH
  serving <- IF agent = "running" THEN bridge ELSE 0,
  spawned <- bridge,
  stop    <- CASE request.phase = "drain" -> "drain"
               [] request.phase \in {"settle", "teardown"} -> "teardown"
               [] request.phase \in {"reap", "demote"} -> "demote"
               [] OTHER -> "none",
  crashed <- {b \in Bridges : monitor[b] \in {"reap", "demote"}}

\* The supervisor implements AgentLife, the promise prompt turns are checked
\* against: requests, monitors, updates and dropped futures together never hand
\* out a second bridge, spawn beside a connected one, or let the gate go early.
ImplementsLife == Life!LifeSpec

\* Without dropped requests every start, stop and update ends: the supervisor
\* always comes back to Stopped or Running.
TransitionsEnd ==
  [](drops = 0) => []<>(agent \in {"stopped", "running"})

\* Without dropped requests a child whose connection is gone is always reaped in
\* the end, by the stop or by its monitor; none is left behind as an orphan.
ChildrenAreReaped ==
  [](drops = 0) => \A b \in Bridges : b \in procs /\ b \notin alive ~> b \notin procs

=============================================================================
