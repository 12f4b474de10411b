------------------------------- MODULE DepsApply -------------------------------
(***************************************************************************)
(* The single dependency-apply slot, deps_apply_runs                       *)
(* (state/deps_apply.rs).  The daemon's handler (api/routes/deps.rs), the  *)
(* CLI and init claim it for themselves, and init's background install     *)
(* claims it for a detached worker (cli/deps_apply_worker.rs) that stamps  *)
(* its pid later.  A claim first fails the rows whose owner is gone; pids  *)
(* are reused, row writes are best effort once an install runs, and any    *)
(* process may die between two of its steps.                               *)
(***************************************************************************)
EXTENDS Naturals, Sequences

CONSTANTS MaxPid,     \* bound: pids, reused as soon as they are free
          MaxRuns,    \* bound: rows of deps_apply_runs
          MaxFaults   \* bound: deaths, reboots and failing steps in one behaviour

ASSUME PidAssumption == MaxPid \in Nat \ {0}
ASSUME RunsAssumption == MaxRuns \in Nat
ASSUME FaultsAssumption == MaxFaults \in Nat

VARIABLES runs,    \* the rows, by age: running or settled (in any other status), the pid of
                   \* its owner (0: not stamped) and boot, whether the null-pid grace is over
          proc,    \* the process at each pid
          boot,    \* the kernel's boot id
          faults   \* faults so far

depsVars == <<runs, proc, boot, faults>>

Pids == 1 .. MaxPid
Free == [kind |-> "free"]

DepsInit ==
  /\ runs = <<>>
  /\ proc = [p \in Pids |-> Free]
  /\ boot = 0
  /\ faults = 0

Fault == faults < MaxFaults /\ faults' = faults + 1

Is(p, kind, at) == proc[p].kind = kind /\ proc[p].at = at

Goto(p, at, run) == proc' = [proc EXCEPT ![p] = [kind |-> proc[p].kind, at |-> at, run |-> run]]

\* the end of an apply, well or badly: the daemon's lock is released, another process exits
Done(p) == proc' = [proc EXCEPT ![p] =
             IF @.kind = "daemon" THEN [kind |-> "daemon", at |-> "idle", run |-> 0] ELSE Free]

-----------------------------------------------------------------------------
(* The rows *)

\* row_is_abandoned, with deps_run_liveness
Abandoned(r) ==
  IF r.pid = 0 THEN r.old ELSE r.boot # boot \/ proc[r.pid] = Free

Settle(r) == [r EXCEPT !.status = "settled"]

\* reconcile_in_connection
Reconciled ==
  [i \in DOMAIN runs |-> IF runs[i].status = "running" /\ Abandoned(runs[i])
                         THEN Settle(runs[i]) ELSE runs[i]]

Running(i) == i \in DOMAIN runs /\ runs[i].status = "running"

Occupied(rs) == \E i \in DOMAIN rs : rs[i].status = "running"

\* claim_deps_apply_run: reconcile and insert in one transaction; the reconcile is
\* committed also when a live row keeps the slot (or, for the bound's sake, when the
\* table is full)
Claim(p, owner, at) ==
  IF Occupied(Reconciled) \/ Len(runs) = MaxRuns
  THEN runs' = Reconciled /\ Done(p)
  ELSE /\ runs' = Append(Reconciled, [status |-> "running", pid |-> owner, boot |-> boot, old |-> FALSE])
       /\ Goto(p, at, Len(runs) + 1)

-----------------------------------------------------------------------------
(* An apply in the claiming process: the daemon, the CLI, init *)

StartDaemon(p) ==
  /\ proc[p] = Free
  /\ \A q \in Pids : proc[q].kind # "daemon"
  /\ proc' = [proc EXCEPT ![p] = [kind |-> "daemon", at |-> "idle", run |-> 0]]
  /\ UNCHANGED <<runs, boot, faults>>

\* POST /v1/deps/apply takes the in-process lock; a second one is refused
TakeLock(p) ==
  /\ Is(p, "daemon", "idle")
  /\ Goto(p, "clear", 0)
  /\ UNCHANGED <<runs, boot, faults>>

\* mutant: the claim's own reconcile is relied on
ClearNothing(p) ==
  /\ Is(p, "daemon", "clear")
  /\ Goto(p, "claim", 0)
  /\ UNCHANGED <<runs, boot, faults>>

\* fail_self_owned_stale_deps_apply_runs, under the lock
ClearSelfOwned(p) ==
  /\ Is(p, "daemon", "clear")
  /\ runs' = [i \in DOMAIN runs |->
               IF runs[i].status = "running" /\ runs[i].pid = p /\ runs[i].boot = boot
               THEN Settle(runs[i]) ELSE runs[i]]
  /\ Goto(p, "claim", 0)
  /\ UNCHANGED <<boot, faults>>

StartCli(p) ==
  /\ proc[p] = Free
  /\ proc' = [proc EXCEPT ![p] = [kind |-> "cli", at |-> "claim", run |-> 0]]
  /\ UNCHANGED <<runs, boot, faults>>

ClaimForSelf(p) ==
  /\ proc[p].kind \in {"daemon", "cli"} /\ proc[p].at = "claim"
  /\ Claim(p, p, "apply")
  /\ UNCHANGED <<boot, faults>>

\* the report settles the row, whatever it says now; a refused write is only logged
Finish(p) ==
  /\ proc[p] # Free /\ proc[p].at = "apply"
  /\ runs' = [runs EXCEPT ![proc[p].run] = Settle(@)]
  /\ Done(p)
  /\ UNCHANGED <<boot, faults>>

FinishUnrecorded(p) ==
  /\ proc[p] # Free /\ proc[p].at = "apply"
  /\ Fault
  /\ Done(p)
  /\ UNCHANGED <<runs, boot>>

-----------------------------------------------------------------------------
(* init's background install *)

StartInit(p) ==
  /\ proc[p] = Free
  /\ proc' = [proc EXCEPT ![p] = [kind |-> "init", at |-> "claim", run |-> 0]]
  /\ UNCHANGED <<runs, boot, faults>>

\* a live row ends it here, its own included: "already running in background"
ClaimForWorker(p) ==
  /\ Is(p, "init", "claim")
  /\ Claim(p, 0, "spawn")
  /\ UNCHANGED <<boot, faults>>

SpawnWorker(p, q) ==
  /\ Is(p, "init", "spawn")
  /\ proc[q] = Free
  /\ proc' = [proc EXCEPT ![q] = [kind |-> "worker", at |-> "stamp", run |-> proc[p].run],
                          ![p] = [kind |-> "init", at |-> "stamp", run |-> proc[p].run, child |-> q]]
  /\ UNCHANGED <<runs, boot, faults>>

\* nothing durable started: the claimed row is settled, if that write succeeds
SpawnFails(p) ==
  /\ Is(p, "init", "spawn")
  /\ Fault
  /\ \/ runs' = [runs EXCEPT ![proc[p].run] = Settle(@)]
     \/ runs' = runs
  /\ Done(p)
  /\ UNCHANGED boot

\* no pid is left to fork
SpawnRefused(p) ==
  /\ Is(p, "init", "spawn")
  /\ \A q \in Pids : proc[q] # Free
  /\ runs' = [runs EXCEPT ![proc[p].run] = Settle(@)]
  /\ Done(p)
  /\ UNCHANGED <<boot, faults>>

\* its age counts no more
Stamped(r, pid) == [r EXCEPT !.pid = pid, !.boot = boot, !.old = FALSE]

\* the launcher stamps the pid it got, and exits either way
ParentStamps(p) ==
  /\ Is(p, "init", "stamp")
  /\ runs' = [runs EXCEPT ![proc[p].run] = Stamped(@, proc[p].child)]
  /\ Done(p)
  /\ UNCHANGED <<boot, faults>>

WorkerStamps(p) ==
  /\ Is(p, "worker", "stamp")
  /\ runs' = [runs EXCEPT ![proc[p].run] = Stamped(@, p)]
  /\ Goto(p, "adopt", proc[p].run)
  /\ UNCHANGED <<boot, faults>>

\* mutant: the row was claimed for this worker, so it is taken as it is
AdoptAnyhow(p) ==
  /\ Is(p, "worker", "adopt")
  /\ Goto(p, "apply", proc[p].run)
  /\ UNCHANGED <<runs, boot, faults>>

\* only a row that is still running may be adopted
Adopt(p) ==
  /\ Is(p, "worker", "adopt")
  /\ IF runs[proc[p].run].status = "running" THEN Goto(p, "apply", proc[p].run) ELSE Done(p)
  /\ UNCHANGED <<runs, boot, faults>>

-----------------------------------------------------------------------------
(* Time, faults and readers *)

\* DEPS_APPLY_NULL_PID_GRACE is over for a row that is not stamped yet
GraceLapses(i) ==
  /\ Running(i) /\ runs[i].pid = 0 /\ ~runs[i].old
  /\ runs' = [runs EXCEPT ![i].old = TRUE]
  /\ UNCHANGED <<proc, boot, faults>>

\* reconcile_stale_deps_apply_runs, by the daemon's status and run routes
Reconcile(p) ==
  /\ proc[p].kind = "daemon"
  /\ Occupied(runs)
  /\ runs' = Reconciled
  /\ UNCHANGED <<proc, boot, faults>>

\* a step before the install fails: nothing was changed by it
StepFails(p) ==
  /\ proc[p] # Free /\ proc[p].at \in {"clear", "claim", "stamp", "adopt"}
  /\ Fault
  /\ Done(p)
  /\ UNCHANGED <<runs, boot>>

Die(p) ==
  /\ proc[p] # Free
  /\ Fault
  /\ proc' = [proc EXCEPT ![p] = Free]
  /\ UNCHANGED <<runs, boot>>

Reboot ==
  /\ Fault
  /\ proc' = [p \in Pids |-> Free]
  /\ boot' = boot + 1
  /\ UNCHANGED runs

-----------------------------------------------------------------------------
Progress(p) ==
  \/ ClearSelfOwned(p) \/ ClaimForSelf(p) \/ Finish(p) \/ ClaimForWorker(p)
  \/ (\E q \in Pids : SpawnWorker(p, q)) \/ SpawnRefused(p) \/ ParentStamps(p) \/ WorkerStamps(p) \/ Adopt(p)

DepsNext ==
  \/ \E p \in Pids : \/ StartDaemon(p) \/ StartCli(p) \/ StartInit(p) \/ TakeLock(p)
                     \/ Progress(p) \/ FinishUnrecorded(p) \/ SpawnFails(p) \/ StepFails(p)
                     \/ Reconcile(p) \/ Die(p)
  \/ \E i \in 1 .. MaxRuns : GraceLapses(i)
  \/ Reboot

\* Processes go on and time passes; the daemon is brought back, its status is polled
\* and its operator keeps asking for an apply.
DepsSpec ==
  /\ DepsInit /\ [][DepsNext]_depsVars
  /\ \A p \in Pids : WF_depsVars(Progress(p))
  /\ SF_depsVars(\E p \in Pids : Reconcile(p))
  /\ SF_depsVars(\E p \in Pids : TakeLock(p))
  /\ SF_depsVars(\E p \in Pids : StartDaemon(p))
  /\ \A i \in 1 .. MaxRuns : WF_depsVars(GraceLapses(i))

-----------------------------------------------------------------------------
(* Properties *)

\* At most one process installs, and its row is the running one and names it, however
\* long a launcher or a worker stalls after the claim and whoever took the slot over
\* meanwhile.  So no apply can overwrite the row of another, and no live one is
\* reported as failed.
OneApply ==
  \A p \in Pids : proc[p] # Free /\ proc[p].at = "apply" =>
    /\ runs[proc[p].run].status = "running"
    /\ runs[proc[p].run].pid = p /\ runs[proc[p].run].boot = boot
    /\ \A q \in Pids \ {p} : proc[q] # Free => proc[q].at # "apply"

(* The inductive invariant behind it *)

Rows  == [status : {"running", "settled"}, pid : 0 .. MaxPid, boot : Nat, old : BOOLEAN]
Procs == {Free}
         \cup [kind : {"daemon", "cli"}, at : {"idle", "clear", "claim", "apply"}, run : Nat]
         \cup [kind : {"init"}, at : {"claim", "spawn"}, run : Nat]
         \cup [kind : {"init"}, at : {"stamp"}, run : Nat, child : Pids]
         \cup [kind : {"worker"}, at : {"stamp", "adopt", "apply"}, run : Nat]

\* Type correctness: rows of deps_apply_runs and the processes that act on them.
DepsTypeOK ==
  /\ runs \in Seq(Rows) /\ Len(runs) <= MaxRuns
  /\ proc \in [Pids -> Procs]
  /\ boot \in Nat
  /\ faults \in 0 .. MaxFaults

\* p acts for a row it has claimed, or that was claimed for it
Holds(p) == proc[p] # Free /\ proc[p].at \in {"spawn", "stamp", "adopt", "apply"}

\* q is the worker p has spawned and is about to stamp
Launched(p, q) == Is(p, "init", "stamp") /\ proc[p].child = q /\ proc[q].kind = "worker"

\* A row has one process acting for it, or a launcher and its worker.
HoldersInv ==
  /\ \A p \in Pids : Holds(p) => proc[p].run \in DOMAIN runs
  /\ \A p, q \in Pids : Holds(p) /\ Holds(q) /\ proc[p].run = proc[q].run =>
       p = q \/ Launched(p, q) \/ Launched(q, p)

\* The slot is single, and a worker past its stamp is the one its row names.
SlotInv ==
  /\ \A i, j \in DOMAIN runs : runs[i].status = "running" /\ runs[j].status = "running" => i = j
  /\ \A p \in Pids : Holds(p) /\ proc[p].at \in {"adopt", "apply"} =>
       runs[proc[p].run].pid = p /\ runs[proc[p].run].boot = boot

DepsInv == DepsTypeOK /\ HoldersInv /\ SlotInv /\ OneApply

\* The slot is never wedged: every claimed row stops being `running`, whether its
\* owner finishes, dies before or after it is stamped, has its pid reused, or is the
\* long-lived daemon whose terminal write failed.
SlotComesFree ==
  \A i \in 1 .. MaxRuns : Running(i) ~> ~Running(i)
=============================================================================
