--------------------------- MODULE CommandGateway ---------------------------
(***************************************************************************)
(* The command gateway (runtime/mediation/commands.rs) and the supervisor  *)
(* task of each command (commands/supervisor.rs), over the rows of         *)
(* state/commands.rs and on top of the permission service, whose requests  *)
(* here all guard commands.                                                *)
(*                                                                         *)
(* submit runs in the HTTP handler's future and can be dropped at any of   *)
(* its awaits; the supervisor is spawned and cannot.  Every write may fail,*)
(* and each failure takes the path the code gives it.  After a crash the   *)
(* startup sweeps run in the order of cli/serve.rs, each best effort.      *)
(***************************************************************************)
EXTENDS Permissions

ASSUME GuardedAssumption == Acp = {}

\* A command and the request that may guard it share a name.
Commands == Requests

VARIABLES cmd,        \* commands.status
          sup,        \* where submit, then the supervisor, of a command stands
          fate,       \* the terminal status the supervisor is about to write
          child,      \* the child process
          running,    \* commands in the `running` registry
          awaiting,   \* commands in the `awaiting_permission` registry
          signal,     \* cancel watch raised and not yet seen by the supervisor
          canceling,  \* the command a caller's cancel call is about
          boot        \* the startup step the daemon has reached

cmdVars == <<cmd, sup, fate, child, running, awaiting, signal>>
gateVars == <<cmdVars, canceling, boot>>
allVars == <<permVars, cmd, sup, fate, child, running, awaiting, signal, canceling, boot>>

Finished == {"exited", "failed", "cancelled"}
Submitting == {"append", "register", "request"}
Supervising == {"await", "finalize", "start", "spawn", "unspawned", "started", "abort",
                "loop", "finish", "deregister", "settling"}
SupStates == Submitting \cup Supervising \cup {"idle", "rejected", "gone", "done", "dirty"}

GateInit ==
  /\ Init
  /\ cmd = [c \in Commands |-> "absent"]
  /\ sup = [c \in Commands |-> "idle"]
  /\ fate = [c \in Commands |-> "none"]
  /\ child = [c \in Commands |-> "none"]
  /\ running = {}
  /\ awaiting = {}
  /\ signal = {}
  /\ canceling = [d \in Callers |-> "none"]
  /\ boot = "serving"

Goto(c, s) == sup' = [sup EXCEPT ![c] = s]
Store(c, s) == cmd' = [cmd EXCEPT ![c] = s]

-----------------------------------------------------------------------------
(* submit, in the handler's future *)

Submit(c) ==
  /\ up
  /\ sup[c] = "idle"
  /\ Goto(c, "append")
  /\ UNCHANGED <<permVars, cmd, fate, child, running, awaiting, signal, canceling, boot>>

\* append_command; its failure refuses the submission
AppendCommand(c) ==
  /\ sup[c] = "append"
  /\ \/ Store(c, "pending") /\ Goto(c, "register")
     \/ UNCHANGED cmd /\ Goto(c, "rejected")
  /\ UNCHANGED <<permVars, fate, child, running, awaiting, signal, canceling, boot>>

\* enter the registry, then, as the policy has it, ask for permission or start at once
RegisterRunning(c) ==
  /\ sup[c] = "register"
  /\ running' = running \cup {c}
  /\ \/ Goto(c, "request") /\ Request(c)
     \/ Goto(c, "start") /\ UNCHANGED permVars
  /\ UNCHANGED <<cmd, fate, child, awaiting, signal, canceling, boot>>

\* permissions.request failed: the error is returned and nothing is undone
SubmitFails(c) ==
  /\ sup[c] = "request"
  /\ asker[c] = "failed"
  /\ Goto(c, "rejected")
  /\ UNCHANGED <<permVars, cmd, fate, child, running, awaiting, signal, canceling, boot>>

\* permissions.request returned: note the request and spawn the supervisor
Supervise(c) ==
  /\ sup[c] = "request"
  /\ asker[c] = "waiting"
  /\ awaiting' = awaiting \cup {c}
  /\ Goto(c, "await")
  /\ UNCHANGED <<permVars, cmd, fate, child, running, signal, canceling, boot>>

\* the handler is dropped; a write it had handed over still runs
DropSubmit(c) ==
  /\ sup[c] \in Submitting
  /\ Goto(c, "gone")
  /\ \/ sup[c] = "append" /\ Store(c, "pending") /\ UNCHANGED permVars
     \/ sup[c] # "request" /\ UNCHANGED <<cmd, permVars>>
     \/ sup[c] = "request" /\ UNCHANGED cmd /\ (Drop(c) \/ DropDuringInsert(c))
  /\ UNCHANGED <<fate, child, running, awaiting, signal, canceling, boot>>

-----------------------------------------------------------------------------
(* The supervisor before the child *)

Granted(o) == o = "approved"

\* mutant: the permission's status taken over as the command's
RefusalVerbatim(o) == o

\* the status of a command whose permission was not granted
Refusal(o) == IF o = "cancelled" THEN "cancelled" ELSE "failed"

\* the permission receiver won the select
AwaitAnswer(c) ==
  /\ sup[c] = "await"
  /\ TakeAnswer(c)
  /\ IF Granted(answer[c])
     THEN Goto(c, "start") /\ UNCHANGED fate
     ELSE Goto(c, "finalize") /\ fate' = [fate EXCEPT ![c] = Refusal(answer[c])]
  /\ UNCHANGED <<cmd, child, running, awaiting, signal, canceling, boot>>

\* the cancel watch won the select: the receiver is dropped undecided
AwaitCancel(c) ==
  /\ sup[c] = "await"
  /\ c \in signal
  /\ Drop(c)
  /\ signal' = signal \ {c}
  /\ fate' = [fate EXCEPT ![c] = "cancelled"]
  /\ Goto(c, "finalize")
  /\ UNCHANGED <<cmd, child, running, awaiting, canceling, boot>>

\* finalize_without_spawn: a failed write is logged
Finalize(c) ==
  /\ sup[c] = "finalize"
  /\ Store(c, fate[c]) \/ UNCHANGED cmd
  /\ Goto(c, "deregister")
  /\ UNCHANGED <<permVars, fate, child, running, awaiting, signal, canceling, boot>>

\* mutant: the child is spawned although its row could not be marked running
MarkRunningUnchecked(c) ==
  /\ sup[c] = "start"
  /\ Store(c, "running") \/ UNCHANGED cmd
  /\ Goto(c, "spawn")
  /\ UNCHANGED <<permVars, fate, child, running, awaiting, signal, canceling, boot>>

\* mark_running: without the durable row no child is spawned
MarkRunning(c) ==
  /\ sup[c] = "start"
  /\ \/ Store(c, "running") /\ Goto(c, "spawn")
     \/ UNCHANGED cmd /\ Goto(c, "deregister")
  /\ UNCHANGED <<permVars, fate, child, running, awaiting, signal, canceling, boot>>

Spawn(c) ==
  /\ sup[c] = "spawn"
  /\ \/ child' = [child EXCEPT ![c] = "alive"] /\ Goto(c, "started")
     \/ UNCHANGED child /\ Goto(c, "unspawned")
  /\ UNCHANGED <<permVars, cmd, fate, running, awaiting, signal, canceling, boot>>

RecordSpawnFailure(c) ==
  /\ sup[c] = "unspawned"
  /\ Store(c, "failed") \/ UNCHANGED cmd
  /\ Goto(c, "deregister")
  /\ UNCHANGED <<permVars, fate, child, running, awaiting, signal, canceling, boot>>

-----------------------------------------------------------------------------
(* The supervisor with a child *)

ChildExits(c) ==
  /\ child[c] = "alive"
  /\ child' = [child EXCEPT ![c] = "exited"]
  /\ UNCHANGED <<permVars, cmd, sup, fate, running, awaiting, signal, canceling, boot>>

\* the command.started and command.review_flagged events; failing to store one
\* terminates the child
PublishStarted(c) ==
  /\ sup[c] = "started"
  /\ Goto(c, "loop") \/ Goto(c, "abort")
  /\ UNCHANGED <<permVars, cmd, fate, child, running, awaiting, signal, canceling, boot>>

\* kill the child (kill_with_grace), then finish_after_persistence_error
Abort(c) ==
  /\ sup[c] = "abort"
  /\ child' = [child EXCEPT ![c] = "reaped"]
  /\ Store(c, "failed") \/ UNCHANGED cmd
  /\ Goto(c, "deregister")
  /\ UNCHANGED <<permVars, fate, running, awaiting, signal, canceling, boot>>

\* out of the select loop with an outcome; whatever it is, the child is reaped and
\* its process group killed before the row is written
LeaveLoop(c, f) ==
  /\ sup[c] = "loop"
  /\ fate' = [fate EXCEPT ![c] = f]
  /\ child' = [child EXCEPT ![c] = "reaped"]
  /\ Goto(c, "finish")

\* a wait that fails after the SIGTERM reports the command failed
LoopCancel(c) ==
  /\ c \in signal
  /\ \E f \in {"cancelled", "failed"} : LeaveLoop(c, f)
  /\ signal' = signal \ {c}
  /\ UNCHANGED <<permVars, cmd, running, awaiting, canceling, boot>>

\* the select is biased: a raised cancel is seen before the deadline and the exit
LoopTimeout(c) ==
  /\ c \notin signal
  /\ LeaveLoop(c, "failed")
  /\ UNCHANGED <<permVars, cmd, running, awaiting, signal, canceling, boot>>

\* an output or progress write failed; a cancel may have come during the write
LoopPersistenceError(c) ==
  /\ LeaveLoop(c, "failed")
  /\ UNCHANGED <<permVars, cmd, running, awaiting, signal, canceling, boot>>

\* mutant: the select takes its branches in any order
LoopExitUnbiased(c) ==
  /\ child[c] = "exited"
  /\ \E f \in {"exited", "failed"} : LeaveLoop(c, f)
  /\ UNCHANGED <<permVars, cmd, running, awaiting, signal, canceling, boot>>

LoopExit(c) ==
  /\ c \notin signal
  /\ child[c] = "exited"
  /\ \E f \in {"exited", "failed"} : LeaveLoop(c, f)
  /\ UNCHANGED <<permVars, cmd, running, awaiting, signal, canceling, boot>>

\* the output is drained under a budget, then the row and its event are written
FinishCommand(c) ==
  /\ sup[c] = "finish"
  /\ Store(c, fate[c]) \/ UNCHANGED cmd
  /\ Goto(c, "deregister")
  /\ UNCHANGED <<permVars, fate, child, running, awaiting, signal, canceling, boot>>

-----------------------------------------------------------------------------
(* The supervisor's exit *)

\* mutant: the permission is left to its timer
DeregisterOnly(c) ==
  /\ sup[c] = "deregister"
  /\ running' = running \ {c}
  /\ awaiting' = awaiting \ {c}
  /\ signal' = signal \ {c}
  /\ Goto(c, "done") /\ UNCHANGED permVars
  /\ UNCHANGED <<cmd, fate, child, canceling, boot>>

\* leave the registries, then cancel_if_pending the request the command was noted with
Deregister(c) ==
  /\ sup[c] = "deregister"
  /\ running' = running \ {c}
  /\ awaiting' = awaiting \ {c}
  /\ signal' = signal \ {c}
  /\ IF c \in awaiting
     THEN /\ Goto(c, "settling")
          /\ Decide(c, "owner", "cancelled")
          /\ UNCHANGED <<rowVars, askVars, announced, sweepVars, bootVars>>
     ELSE Goto(c, "done") /\ UNCHANGED permVars
  /\ UNCHANGED <<cmd, fate, child, canceling, boot>>

\* a failed cancel is logged, and the request stays as it is
Deregistered(c) ==
  /\ sup[c] = "settling"
  /\ stage[c]["owner"] \in Results
  /\ Goto(c, IF stage[c]["owner"] = "failed" THEN "dirty" ELSE "done")
  /\ stage' = [stage EXCEPT ![c]["owner"] = "idle"]
  /\ UNCHANGED <<rowVars, askVars, announced, verdict, sweepVars, bootVars>>
  /\ UNCHANGED <<cmd, fate, child, running, awaiting, signal, canceling, boot>>

-----------------------------------------------------------------------------
(* cancel *)

\* cancel the noted permission first, if there is one
CancelCall(d, c) ==
  /\ up
  /\ canceling[d] = "none"
  /\ cmd[c] # "absent"
  /\ canceling' = [canceling EXCEPT ![d] = c]
  /\ IF c \in awaiting
     THEN /\ stage[c][d] = "idle"
          /\ Decide(c, d, "cancelled")
          /\ UNCHANGED <<rowVars, askVars, announced, sweepVars, bootVars>>
     ELSE UNCHANGED permVars
  /\ UNCHANGED <<cmdVars, boot>>

\* then, whatever became of that, raise the watch of a running command
CancelSignal(d) ==
  /\ canceling[d] # "none"
  /\ stage[canceling[d]][d] = "idle"
  /\ signal' = IF canceling[d] \in running THEN signal \cup {canceling[d]} ELSE signal
  /\ canceling' = [canceling EXCEPT ![d] = "none"]
  /\ UNCHANGED <<permVars, cmd, sup, fate, child, running, awaiting, boot>>

\* the cancelling handler is dropped; the decision it had spawned goes on
CancelDrop(d) ==
  /\ canceling[d] # "none"
  /\ canceling' = [canceling EXCEPT ![d] = "none"]
  /\ UNCHANGED <<permVars, cmdVars, boot>>

-----------------------------------------------------------------------------
(* Crash and restart *)

\* The rows stay.  A child dies with the runtime that drops its handle (kill_on_drop),
\* and survives unsupervised when the daemon dies without dropping anything.
GateCrash ==
  /\ Crash
  /\ boot' = "permissions"
  /\ sup' = [c \in Commands |-> IF sup[c] = "idle" THEN "idle" ELSE "gone"]
  /\ fate' = [c \in Commands |-> "none"]
  /\ \E left \in {"reaped", "orphaned"} :
       child' = [c \in Commands |-> IF child[c] = "alive" THEN left ELSE child[c]]
  /\ running' = {}
  /\ awaiting' = {}
  /\ signal' = {}
  /\ canceling' = [d \in Callers |-> "none"]
  /\ UNCHANGED cmd

\* the daemon dies between the sweeps, and starts over
BootCrash ==
  /\ boot = "commands"
  /\ crashes < MaxCrashes
  /\ boot' = "permissions"
  /\ crashes' = crashes + 1
  /\ UNCHANGED <<rowVars, askVars, announced, taskVars, sweepVars, config, up>>
  /\ UNCHANGED <<cmdVars, canceling>>

SweepPermissions ==
  /\ boot = "permissions"
  /\ ReconcilePermissions \/ UNCHANGED rowVars
  /\ boot' = "commands"
  /\ UNCHANGED <<askVars, announced, taskVars, sweepVars, bootVars, cmdVars, canceling>>

Unfinished == {c \in Commands : cmd[c] \in {"pending", "running"}}

\* mutant: the orphaned commands fail and their permissions are left alone
ReconcileCommandsOnly ==
  /\ cmd' = [c \in Commands |-> IF c \in Unfinished THEN "failed" ELSE cmd[c]]
  /\ UNCHANGED rowVars

\* reconcile_orphaned_commands: the command and its pending permission in one transaction
ReconcileCommands ==
  LET Freed == Orphans \cap Unfinished IN
  /\ cmd' = [c \in Commands |-> IF c \in Unfinished THEN "failed" ELSE cmd[c]]
  /\ row' = [p \in Requests |-> IF p \in Freed THEN "cancelled" ELSE row[p]]
  /\ decisions' = [p \in Requests |-> IF p \in Freed THEN Append(decisions[p], "cancelled")
                                                     ELSE decisions[p]]

SweepCommands ==
  /\ boot = "commands"
  /\ ReconcileCommands \/ UNCHANGED <<cmd, rowVars>>
  /\ boot' = "serving"
  /\ up' = TRUE
  /\ config' \in Configs
  /\ UNCHANGED <<askVars, announced, taskVars, sweepVars, crashes>>
  /\ UNCHANGED <<sup, fate, child, running, awaiting, signal, canceling>>

-----------------------------------------------------------------------------
\* the steps of submit and of the supervisor
SupervisorStep(c) ==
  \/ AppendCommand(c) \/ RegisterRunning(c) \/ SubmitFails(c) \/ Supervise(c)
  \/ AwaitAnswer(c) \/ AwaitCancel(c) \/ Finalize(c)
  \/ MarkRunning(c) \/ Spawn(c) \/ RecordSpawnFailure(c)
  \/ PublishStarted(c) \/ Abort(c)
  \/ LoopCancel(c) \/ LoopTimeout(c) \/ LoopPersistenceError(c) \/ LoopExit(c)
  \/ FinishCommand(c)
  \/ Deregister(c) \/ Deregistered(c)

\* the steps of permissions.request that submit awaits
RequestStep(p) ==
  /\ Insert(p) \/ InsertFail(p) \/ Register(p) \/ Settle(p)
  /\ UNCHANGED gateVars

DecisionStep(p, d) == DecideStep(p, d) /\ UNCHANGED gateVars
TimerStep(p) == (TimerElapse(p) \/ TimerFallback(p)) /\ UNCHANGED gateVars
EventStep(p) == PublishCreated(p) /\ UNCHANGED gateVars

OperatorStep(d) ==
  /\ canceling[d] = "none"
  /\ \E p \in Requests, o \in {"approved", "denied"} : OperatorCall(p, d, o)
  /\ UNCHANGED gateVars

GateNext ==
  \/ \E c \in Commands : Submit(c) \/ DropSubmit(c) \/ SupervisorStep(c) \/ ChildExits(c)
  \/ \E p \in Requests :
       \/ RequestStep(p) \/ TimerStep(p) \/ EventStep(p)
       \/ \E d \in Deciders : DecisionStep(p, d)
  \/ \E d \in Callers : 
       OperatorStep(d) \/ CancelSignal(d) \/ CancelDrop(d) \/ \E c \in Commands : CancelCall(d, c)
  \/ GateCrash \/ BootCrash \/ SweepPermissions \/ SweepCommands

\* As in Permissions: tasks are polled, timers and deadlines elapse, writes are answered.
GateFairness ==
  /\ \A c \in Commands : WF_allVars(SupervisorStep(c))
  /\ \A p \in Requests :
       /\ WF_allVars(RequestStep(p)) /\ WF_allVars(TimerStep(p)) /\ WF_allVars(EventStep(p))
       /\ \A d \in Deciders : WF_allVars(DecisionStep(p, d))
  /\ \A d \in Callers : WF_allVars(CancelSignal(d))
  /\ WF_allVars(SweepPermissions) /\ WF_allVars(SweepCommands)

GateSpec == GateInit /\ [][GateNext]_allVars /\ GateFairness

-----------------------------------------------------------------------------
(* Properties *)

\* Every variable of the gateway holds a value of its type; a command's status is one of
\* those the commands table allows.
GateTypeOK ==
  /\ TypeOK
  /\ cmd \in [Commands -> {"absent", "pending", "running"} \cup Finished]
  /\ sup \in [Commands -> SupStates]
  /\ fate \in [Commands -> {"none"} \cup Finished]
  /\ child \in [Commands -> {"none", "alive", "exited", "reaped", "orphaned"}]
  /\ running \in SUBSET Commands
  /\ awaiting \in SUBSET Requests
  /\ signal \in SUBSET Commands
  /\ canceling \in [Callers -> {"none"} \cup Commands]
  /\ boot \in {"serving", "permissions", "commands"}

\* A command for which permission was asked has a child only if its request is approved on
\* record: not on an answer that was lost, raced or failed to be written.
SpawnIsApproved ==
  \A c \in Commands : asker[c] # "idle" /\ child[c] # "none" => row[c] = "approved"

\* A live child has a durable `running` row: state writes succeed before side effects
\* (docs/specs/runtime.md), so a crash always leaves a row the startup sweep can fail.
ChildIsOnRecord ==
  \A c \in Commands : child[c] = "alive" => cmd[c] = "running"

\* Whatever is dropped, raced or refused on the way, a command runs only with both: its
\* approval and its row on record.
ChildIsAuthorised == SpawnIsApproved /\ ChildIsOnRecord

\* Nothing is left behind by a supervisor that ended and settled its request: no registry
\* entry, no live child, and no request an operator could still approve (deregister).
CleanExit ==
  \A c \in Commands : sup[c] = "done" =>
    /\ c \notin running \cup awaiting
    /\ child[c] # "alive"
    /\ row[c] # "pending"

\* The daemon serves in its last startup step, and no submit or supervisor is about before.
StartupInv ==
  /\ up <=> boot = "serving"
  /\ boot # "serving" => \A c \in Commands : sup[c] \in {"idle", "gone"}

\* Steps at which no answer is waited for any more, and those of them with leave to run.
Cleared == {"start", "spawn", "unspawned", "started", "abort", "loop"}
Answered == Cleared \cup {"finalize", "finish", "deregister", "settling", "done", "dirty"}

\* How far the submission and its permission request keep step: none is raised before the
\* command is registered, the supervisor that awaits the answer holds the receiver, and
\* one that goes on has left the request behind it, noted until it deregisters.
RequestedInv ==
  \A c \in Commands :
    /\ sup[c] \in {"idle", "append", "register"} => asker[c] = "idle"
    /\ sup[c] = "await" => asker[c] = "waiting"
    /\ sup[c] \in Answered => asker[c] \in {"idle", "answered", "gone"}
    /\ sup[c] \in Supervising \ {"settling"} /\ asker[c] # "idle" => c \in awaiting

\* What a supervisor knows at each of its steps: its approval is on record once it has
\* leave to run, its row before there is a child, the outcome before it is written.
SupervisedInv ==
  \A c \in Commands :
    /\ sup[c] \in Cleared /\ asker[c] # "idle" => row[c] = "approved"
    /\ sup[c] \in {"spawn", "started", "abort", "loop"} => cmd[c] = "running"
    /\ sup[c] \in {"idle", "append", "register"} => child[c] = "none"
    /\ child[c] = "alive" => sup[c] \in {"started", "abort", "loop"}
    /\ sup[c] \in {"finalize", "finish"} => fate[c] \in Finished
    /\ sup[c] = "settling" => c \notin running \cup awaiting

\* The inductive invariant of the gateway, over that of the permission service.
GateInv ==
  /\ PermInv /\ GateTypeOK
  /\ StartupInv /\ RequestedInv /\ SupervisedInv
  /\ SpawnIsApproved /\ CleanExit

\* The startup sweep never fails a command while leaving its request approvable, in
\* whichever order the best-effort sweeps succeed (cli/serve.rs, reconcile_orphaned_commands).
SweepFreesPermission ==
  [][\A c \in Requests : boot = "commands" /\ cmd'[c] # cmd[c] => row'[c] # "pending"]_allVars

\* Every supervisor comes to its end: a denied, cancelled, expired, failed or running
\* command cannot hold it for ever.
SupervisorEnds ==
  \A c \in Commands : sup[c] \in Supervising ~> sup[c] \notin Supervising

\* A cancel seen by a waiting or looping supervisor ends the command as cancelled or
\* failed, or leaves the row to the startup sweep when its write fails.
CancelIsObeyed ==
  \A c \in Commands :
    sup[c] \in {"await", "loop"} /\ c \in signal ~> sup[c] \notin Supervising /\ cmd[c] # "exited"

\* "Cancellation produces a terminal `command.cancelled` event after the child process is
\* settled" (docs/specs/runtime.md): a cancel raised on a registered command that nobody
\* supervises is not left unanswered.
CancelSettles ==
  \A c \in Commands :
    c \in signal /\ sup[c] \notin Supervising ~> c \notin signal \/ cmd[c] \in Finished

=============================================================================
