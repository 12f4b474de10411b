-------------------------- MODULE DepsApply_proofs --------------------------
(***************************************************************************)
(* Machine-checked proofs about the dependency-apply slot, for any number  *)
(* of pids, rows and faults.                                               *)
(***************************************************************************)
EXTENDS DepsApply, TLAPS

-----------------------------------------------------------------------------
(* Rows *)

\* A sequence rewritten element by element is a sequence of the same length.
LEMMA SameRows ==
  ASSUME NEW S, NEW s \in Seq(S), NEW f \in [DOMAIN s -> S]
  PROVE  f \in Seq(S) /\ Len(f) = Len(s) /\ DOMAIN f = DOMAIN s
  OBVIOUS

\* Settling a row changes its status only.
LEMMA SettleType ==
  ASSUME NEW r \in Rows
  PROVE  /\ Settle(r) \in Rows /\ Settle(r).status = "settled"
         /\ Settle(r).pid = r.pid /\ Settle(r).boot = r.boot
  BY DEF Settle, Rows

\* Stamping a row changes its owner and keeps its status.
LEMMA StampedType ==
  ASSUME NEW r \in Rows, NEW q \in Pids, boot \in Nat
  PROVE  /\ Stamped(r, q) \in Rows /\ Stamped(r, q).status = r.status
         /\ Stamped(r, q).pid = q /\ Stamped(r, q).boot = boot
<1> DEFINE a == [r EXCEPT !.pid = q]
           b == [a EXCEPT !.boot = boot]
           c == [b EXCEPT !.old = FALSE]
<1>1. a \in Rows /\ a.status = r.status /\ a.pid = q
  BY PidAssumption DEF Rows, Pids
<1>2. b \in Rows /\ b.status = a.status /\ b.pid = a.pid /\ b.boot = boot
  <2> HIDE DEF a
  <2> QED
    BY <1>1 DEF Rows
<1>3. c \in Rows /\ c.status = b.status /\ c.pid = b.pid /\ c.boot = b.boot
  <2> HIDE DEF b
  <2> QED
    BY <1>2 DEF Rows
<1>4. Stamped(r, q) = c
  BY Zenon DEF Stamped
<1> HIDE DEF a, b, c
<1> QED
  BY <1>1, <1>2, <1>3, <1>4

\* A reconcile changes no owner, and settles running rows that are abandoned only.
LEMMA ReconciledType ==
  ASSUME DepsTypeOK
  PROVE  /\ Reconciled \in Seq(Rows) /\ Len(Reconciled) = Len(runs)
         /\ DOMAIN Reconciled = DOMAIN runs
         /\ \A i \in DOMAIN runs :
              /\ Reconciled[i].pid = runs[i].pid /\ Reconciled[i].boot = runs[i].boot
              /\ \/ Reconciled[i].status = runs[i].status
                 \/ Reconciled[i].status = "settled" /\ Abandoned(runs[i])
<1>1. \A i \in DOMAIN runs : runs[i] \in Rows
  BY DEF DepsTypeOK
<1>2. \A i \in DOMAIN runs : Reconciled[i] = runs[i] \/ (Reconciled[i] = Settle(runs[i]) /\ Abandoned(runs[i]))
  BY Zenon DEF Reconciled
<1>3. Reconciled \in [DOMAIN runs -> Rows]
  BY <1>1, SettleType DEF Reconciled
<1> QED
  BY <1>1, <1>2, <1>3, SettleType, SameRows DEF DepsTypeOK

-----------------------------------------------------------------------------
(* Processes *)

LEMMA FreeKind == Free.kind = "free"
  BY DEF Free

LEMMA ProcKinds ==
  ASSUME DepsTypeOK, NEW p \in Pids
  PROVE  \/ proc[p] = Free /\ proc[p].kind = "free"
         \/ /\ proc[p] # Free /\ proc[p].kind \in {"daemon", "cli", "init", "worker"}
            /\ proc[p].run \in Nat
  BY DEF DepsTypeOK, Procs, Free

\* A process that is done holds no row.
LEMMA DoneType ==
  ASSUME DepsTypeOK, NEW p \in Pids, Done(p)
  PROVE  /\ proc' \in [Pids -> Procs]
         /\ \A q \in Pids \ {p} : proc'[q] = proc[q]
         /\ ~Holds(p)'
<1>1. [kind |-> "daemon", at |-> "idle", run |-> 0] \in Procs
  BY DEF Procs
<1> QED
  BY <1>1 DEF DepsTypeOK, Done, Procs, Holds

LEMMA GotoType ==
  ASSUME DepsTypeOK, NEW p \in Pids, proc[p] # Free, NEW at, NEW r,
         [kind |-> proc[p].kind, at |-> at, run |-> r] \in Procs,
         Goto(p, at, r)
  PROVE  /\ proc' \in [Pids -> Procs]
         /\ \A q \in Pids \ {p} : proc'[q] = proc[q]
         /\ proc'[p] # Free /\ proc'[p].kind = proc[p].kind
         /\ proc'[p].at = at /\ proc'[p].run = r
<1>1. [kind |-> proc[p].kind, at |-> at, run |-> r] # Free
  BY ProcKinds, FreeKind
<1> QED
  BY <1>1 DEF DepsTypeOK, Goto

LEMMA LaunchType ==
  ASSUME NEW p \in Pids, NEW k \in {"daemon", "cli", "init"}, NEW at \in {"idle", "claim"},
         k = "init" => at = "claim",
         proc \in [Pids -> Procs],
         proc' = [proc EXCEPT ![p] = [kind |-> k, at |-> at, run |-> 0]]
  PROVE  /\ proc' \in [Pids -> Procs]
         /\ \A q \in Pids \ {p} : proc'[q] = proc[q]
         /\ ~Holds(p)'
<1>1. [kind |-> k, at |-> at, run |-> 0] \in Procs
  BY DEF Procs
<1> QED
  BY <1>1 DEF Holds

-----------------------------------------------------------------------------
(* Steps by which no process comes to hold a row *)

\* A process whose row is not abandoned is the live one the row names.
LEMMA ApplierLives ==
  ASSUME DepsInv, NEW q \in Pids, Holds(q), proc[q].at = "apply"
  PROVE  ~Abandoned(runs[proc[q].run])
  BY PidAssumption DEF DepsInv, OneApply, Abandoned, Holds, Pids

\* Whatever leaves owners alone, settles no row that is being applied and lets
\* processes only go on holding what they held, keeps the invariant.
LEMMA KeepInv ==
  ASSUME DepsInv,
         runs' \in Seq(Rows), Len(runs') = Len(runs), DOMAIN runs' = DOMAIN runs,
         proc' \in [Pids -> Procs], boot' = boot, faults' \in 0 .. MaxFaults,
         \A q \in Pids : proc'[q] = proc[q] \/ ~Holds(q)',
         \A i \in DOMAIN runs :
           /\ runs'[i].pid = runs[i].pid /\ runs'[i].boot = runs[i].boot
           /\ \/ runs'[i].status = runs[i].status
              \/ /\ runs'[i].status = "settled"
                 /\ \A q \in Pids : Holds(q)' /\ proc[q].at = "apply" => proc[q].run # i
  PROVE  DepsInv'
<1>1. DepsTypeOK'
  BY DEF DepsInv, DepsTypeOK
<1>2. \A q \in Pids : Holds(q)' => proc'[q] = proc[q] /\ Holds(q)
  BY DEF Holds
<1>3. HoldersInv'
  BY <1>2 DEF DepsInv, HoldersInv, Launched, Is
<1>4. SlotInv'
  BY <1>2 DEF DepsInv, HoldersInv, SlotInv
<1>5. OneApply'
  <2> SUFFICES ASSUME NEW p \in Pids, Holds(p)', proc[p].at = "apply"
               PROVE  /\ runs'[proc[p].run].status = "running"
                      /\ runs'[proc[p].run].pid = p /\ runs'[proc[p].run].boot = boot
                      /\ \A q \in Pids \ {p} : proc'[q] # Free => proc'[q].at # "apply"
    BY <1>2 DEF OneApply, Holds
  <2>1. Holds(p) /\ proc[p].run \in DOMAIN runs
    BY <1>2 DEF DepsInv, HoldersInv
  <2>2. runs[proc[p].run].status = "running" /\ \A q \in Pids \ {p} : proc[q] # Free => proc[q].at # "apply"
    BY <2>1 DEF DepsInv, OneApply, Holds
  <2>3. runs[proc[p].run].pid = p /\ runs[proc[p].run].boot = boot
    BY <2>1 DEF DepsInv, OneApply, Holds
  <2>4. runs'[proc[p].run].status = "running"
    BY <2>1, <2>2
  <2>5. \A q \in Pids \ {p} : proc'[q] # Free => proc'[q].at # "apply"
    BY <1>2, <2>2 DEF Holds
  <2> QED
    BY <2>1, <2>3, <2>4, <2>5
<1> QED
  BY <1>1, <1>3, <1>4, <1>5 DEF DepsInv

\* A reconcile, with or without processes that let go.
LEMMA ReconciledInv ==
  ASSUME DepsInv, runs' = Reconciled, UNCHANGED <<boot, faults>>,
         proc' \in [Pids -> Procs], \A q \in Pids : proc'[q] = proc[q] \/ ~Holds(q)'
  PROVE  DepsInv'
<1>1. DepsTypeOK
  BY DEF DepsInv
<1>2. ASSUME NEW i \in DOMAIN runs
      PROVE  /\ runs'[i].pid = runs[i].pid /\ runs'[i].boot = runs[i].boot
             /\ \/ runs'[i].status = runs[i].status
                \/ /\ runs'[i].status = "settled"
                   /\ \A q \in Pids : Holds(q)' /\ proc[q].at = "apply" => proc[q].run # i
  <2>1. \A q \in Pids : Holds(q)' => Holds(q)
    BY DEF Holds
  <2>2. Abandoned(runs[i]) => \A q \in Pids : Holds(q)' /\ proc[q].at = "apply" => proc[q].run # i
    BY <2>1, ApplierLives
  <2> QED
    BY <1>1, <2>2, ReconciledType
<1> QED
  BY <1>1, <1>2, ReconciledType, KeepInv DEF DepsTypeOK

\* A process that lets go of its row and may settle it.
LEMMA ReleaseInv ==
  ASSUME DepsInv, NEW p \in Pids, Holds(p), Done(p), boot' = boot, faults' \in 0 .. MaxFaults,
         \/ runs' = runs
         \/ /\ runs' = [runs EXCEPT ![proc[p].run] = Settle(@)]
            /\ proc[p].at \in {"spawn", "apply"}
  PROVE  DepsInv'
<1> DEFINE r == proc[p].run
<1>1. DepsTypeOK /\ r \in DOMAIN runs /\ runs[r] \in Rows
  BY DEF DepsInv, DepsTypeOK, HoldersInv
<1>2. /\ proc' \in [Pids -> Procs] /\ ~Holds(p)'
      /\ \A q \in Pids \ {p} : proc'[q] = proc[q]
  BY <1>1, DoneType
<1>3. CASE runs' = runs
  BY <1>1, <1>2, <1>3, KeepInv DEF DepsTypeOK
<1>4. CASE /\ runs' = [runs EXCEPT ![r] = Settle(@)]
           /\ proc[p].at \in {"spawn", "apply"}
  <2>1. runs' \in [DOMAIN runs -> Rows]
    BY <1>1, <1>4, SettleType DEF DepsTypeOK
  <2>2. runs' \in Seq(Rows) /\ Len(runs') = Len(runs) /\ DOMAIN runs' = DOMAIN runs
    BY <1>1, <2>1, SameRows DEF DepsTypeOK
  <2>3. \A q \in Pids : Holds(q)' /\ proc[q].at = "apply" => proc[q].run # r
    <3> SUFFICES ASSUME NEW q \in Pids, Holds(q)', proc[q].at = "apply", proc[q].run = r
                 PROVE  FALSE
      OBVIOUS
    <3>1. q # p /\ Holds(q)
      BY <1>2 DEF Holds
    <3>2. Launched(p, q) \/ Launched(q, p)
      BY <3>1 DEF DepsInv, HoldersInv
    <3> QED
      BY <1>4, <3>2 DEF Launched, Is
  <2>4. \A i \in DOMAIN runs : i # r => runs'[i] = runs[i]
    BY <1>4
  <2>5. runs'[r].status = "settled" /\ runs'[r].pid = runs[r].pid /\ runs'[r].boot = runs[r].boot
    BY <1>1, <1>4, SettleType
  <2> HIDE DEF r
  <2> QED
    BY <1>2, <2>2, <2>3, <2>4, <2>5, KeepInv
<1> QED
  BY <1>3, <1>4

-----------------------------------------------------------------------------
(* Each action preserves the invariant *)

LEMMA InitInv == DepsInit => DepsInv
<1> SUFFICES ASSUME DepsInit PROVE DepsInv
  OBVIOUS
<1>1. runs \in Seq(Rows) /\ Len(runs) = 0 /\ DOMAIN runs = {}
  BY DEF DepsInit
<1>2. \A p \in Pids : proc[p] = Free
  BY DEF DepsInit
<1>3. DepsTypeOK
  BY <1>1, RunsAssumption, FaultsAssumption DEF DepsInit, DepsTypeOK, Procs
<1>4. HoldersInv /\ SlotInv /\ OneApply
  BY <1>1, <1>2 DEF HoldersInv, SlotInv, OneApply, Holds
<1> QED
  BY <1>3, <1>4 DEF DepsInv

\* A process starts, or the daemon takes its lock: no row is touched.
LEMMA LaunchInv ==
  ASSUME DepsInv, NEW p \in Pids,
         StartDaemon(p) \/ StartCli(p) \/ StartInit(p) \/ TakeLock(p)
  PROVE  DepsInv'
<1>1. DepsTypeOK /\ UNCHANGED <<runs, boot, faults>>
  BY DEF DepsInv, StartDaemon, StartCli, StartInit, TakeLock
<1>2. /\ proc' \in [Pids -> Procs] /\ ~Holds(p)'
      /\ \A q \in Pids \ {p} : proc'[q] = proc[q]
  <2>1. CASE StartDaemon(p)
    BY <1>1, <2>1, LaunchType DEF DepsTypeOK, StartDaemon
  <2>2. CASE StartCli(p)
    BY <1>1, <2>2, LaunchType DEF DepsTypeOK, StartCli
  <2>3. CASE StartInit(p)
    BY <1>1, <2>3, LaunchType DEF DepsTypeOK, StartInit
  <2>4. CASE TakeLock(p)
    <3>1. proc[p] # Free
      BY <2>4, FreeKind DEF TakeLock, Is
    <3>2. [kind |-> proc[p].kind, at |-> "clear", run |-> 0] \in Procs
      BY <2>4 DEF TakeLock, Is, Procs
    <3> QED
      BY <1>1, <2>4, <3>1, <3>2, GotoType DEF TakeLock, Holds
  <2> QED
    BY <2>1, <2>2, <2>3, <2>4
<1> QED
  BY <1>1, <1>2, KeepInv DEF DepsTypeOK

\* The daemon that clears its own rows is not applying, so no applied row is hit.
LEMMA ClearSelfOwnedInv ==
  ASSUME DepsInv, NEW p \in Pids, ClearSelfOwned(p)
  PROVE  DepsInv'
<1>1. DepsTypeOK /\ boot' = boot /\ faults' \in 0 .. MaxFaults
  BY DEF DepsInv, DepsTypeOK, ClearSelfOwned
<1>2. proc[p] # Free /\ proc[p].at = "clear"
  BY FreeKind DEF ClearSelfOwned, Is
<1>3. /\ proc' \in [Pids -> Procs] /\ ~Holds(p)'
      /\ \A q \in Pids \ {p} : proc'[q] = proc[q]
  <2>1. [kind |-> proc[p].kind, at |-> "claim", run |-> 0] \in Procs
    BY DEF ClearSelfOwned, Is, Procs
  <2> QED
    BY <1>1, <1>2, <2>1, GotoType DEF ClearSelfOwned, Holds
<1>4. \A i \in DOMAIN runs : runs[i] \in Rows
  BY <1>1 DEF DepsTypeOK
<1>5. \A i \in DOMAIN runs :
        runs'[i] = runs[i] \/ (runs'[i] = Settle(runs[i]) /\ runs[i].pid = p)
  BY Zenon DEF ClearSelfOwned
<1>6. runs' \in [DOMAIN runs -> Rows]
  BY <1>4, SettleType DEF ClearSelfOwned
<1>7. runs' \in Seq(Rows) /\ Len(runs') = Len(runs) /\ DOMAIN runs' = DOMAIN runs
  BY <1>1, <1>6, SameRows DEF DepsTypeOK
<1>8. \A i \in DOMAIN runs : runs[i].pid = p =>
        \A q \in Pids : Holds(q)' /\ proc[q].at = "apply" => proc[q].run # i
  BY <1>2, <1>3 DEF DepsInv, OneApply, Holds
<1>9. \A i \in DOMAIN runs :
        /\ runs'[i].pid = runs[i].pid /\ runs'[i].boot = runs[i].boot
        /\ \/ runs'[i].status = runs[i].status
           \/ /\ runs'[i].status = "settled"
              /\ \A q \in Pids : Holds(q)' /\ proc[q].at = "apply" => proc[q].run # i
  BY <1>4, <1>5, <1>8, SettleType
<1> QED
  BY <1>1, <1>3, <1>7, <1>9, KeepInv

\* The claimed row is new, so nobody else acts for it, and it is the only running one.
LEMMA ClaimInv ==
  ASSUME DepsInv, NEW p \in Pids, proc[p] # Free, UNCHANGED <<boot, faults>>,
         NEW owner \in {0, p}, NEW at \in {"spawn", "apply"},
         at = "apply" => owner = p /\ proc[p].kind \in {"daemon", "cli"},
         at = "spawn" => proc[p].kind = "init",
         Claim(p, owner, at)
  PROVE  DepsInv'
<1>1. DepsTypeOK
  BY DEF DepsInv
<1>2. CASE Occupied(Reconciled) \/ Len(runs) = MaxRuns
  <2>1. runs' = Reconciled /\ Done(p)
    BY <1>2 DEF Claim
  <2> QED
    BY <1>1, <2>1, DoneType, ReconciledInv
<1>3. CASE ~(Occupied(Reconciled) \/ Len(runs) = MaxRuns)
  <2> DEFINE new == [status |-> "running", pid |-> owner, boot |-> boot, old |-> FALSE]
             n == Len(runs) + 1
  <2>1. runs' = Append(Reconciled, new) /\ Goto(p, at, n)
    BY <1>3 DEF Claim
  <2>2. new \in Rows
    BY <1>1, PidAssumption DEF Rows, DepsTypeOK, Pids
  <2>3. Len(runs) \in Nat /\ Len(runs) <= MaxRuns /\ DOMAIN runs = 1 .. Len(runs)
    BY <1>1 DEF DepsTypeOK
  <2>4. /\ Reconciled \in Seq(Rows) /\ Len(Reconciled) = Len(runs)
        /\ \A i \in DOMAIN runs :
             /\ Reconciled[i].pid = runs[i].pid /\ Reconciled[i].boot = runs[i].boot
             /\ Reconciled[i].status # "running"
             /\ \/ Reconciled[i].status = runs[i].status
                \/ Reconciled[i].status = "settled" /\ Abandoned(runs[i])
    BY <1>1, <1>3, ReconciledType DEF Occupied
  <2> HIDE DEF new
  <2>5. /\ runs' \in Seq(Rows) /\ Len(runs') = n /\ DOMAIN runs' = 1 .. n
        /\ runs'[n] = new /\ \A i \in DOMAIN runs : runs'[i] = Reconciled[i]
    BY <2>1, <2>2, <2>3, <2>4
  <2>6. /\ proc' \in [Pids -> Procs] /\ proc'[p] # Free
        /\ proc'[p].at = at /\ proc'[p].run = n
        /\ \A q \in Pids \ {p} : proc'[q] = proc[q]
    <3>1. [kind |-> proc[p].kind, at |-> at, run |-> n] \in Procs
      BY <2>3 DEF Procs
    <3> QED
      BY <1>1, <2>1, <3>1, GotoType
  <2>7. DepsTypeOK'
    <3>1. Len(runs) # MaxRuns
      BY <1>3
    <3>2. Len(runs') = Len(runs) + 1
      BY <2>5
    <3>3. \A a, b \in Nat : a <= b /\ a # b => a + 1 <= b
      OBVIOUS
    <3>4. Len(runs') <= MaxRuns
      BY <2>3, <3>1, <3>2, <3>3, RunsAssumption
    <3> QED
      BY <1>1, <2>5, <2>6, <3>4 DEF DepsTypeOK
  <2>8. \A q \in Pids \ {p} : Holds(q)' => Holds(q) /\ proc'[q].run \in DOMAIN runs
    BY <2>6 DEF DepsInv, HoldersInv, Holds
  <2>9. HoldersInv'
    BY <2>3, <2>5, <2>6, <2>8 DEF DepsInv, HoldersInv, Launched, Is
  <2>10. new.status = "running" /\ new.pid = owner /\ new.boot = boot
    BY DEF new
  <2>11. SlotInv'
    <3>1. \A i \in DOMAIN runs' : runs'[i].status = "running" => i = n
      BY <2>3, <2>4, <2>5
    <3>2. \A q \in Pids \ {p} : Holds(q)' /\ proc'[q].at \in {"adopt", "apply"} =>
            runs'[proc'[q].run].pid = q /\ runs'[proc'[q].run].boot = boot
      BY <2>4, <2>5, <2>6, <2>8 DEF DepsInv, SlotInv
    <3>3. proc'[p].at \in {"adopt", "apply"} =>
            runs'[proc'[p].run].pid = p /\ runs'[proc'[p].run].boot = boot
      BY <2>5, <2>6, <2>10
    <3> QED
      BY <3>1, <3>2, <3>3 DEF SlotInv
  <2>12. \A q \in Pids \ {p} : Holds(q) => proc[q].at # "apply"
    BY <2>4, <2>3, ApplierLives DEF DepsInv, OneApply, Holds, HoldersInv
  <2>13. OneApply'
    BY <2>5, <2>6, <2>10, <2>12 DEF OneApply, Holds
  <2> QED
    BY <2>7, <2>9, <2>11, <2>13 DEF DepsInv
<1> QED
  BY <1>2, <1>3

LEMMA ClaimForSelfInv ==
  ASSUME DepsInv, NEW p \in Pids, ClaimForSelf(p)
  PROVE  DepsInv'
  BY FreeKind, ClaimInv DEF ClaimForSelf

LEMMA ClaimForWorkerInv ==
  ASSUME DepsInv, NEW p \in Pids, ClaimForWorker(p)
  PROVE  DepsInv'
  BY FreeKind, ClaimInv DEF ClaimForWorker, Is

\* The end of an apply, recorded or not.
LEMMA FinishInv ==
  ASSUME DepsInv, NEW p \in Pids, Finish(p) \/ FinishUnrecorded(p)
  PROVE  DepsInv'
  BY ReleaseInv, FaultsAssumption DEF DepsInv, DepsTypeOK, Finish, FinishUnrecorded, Fault, Holds

\* A worker that cannot be spawned.
LEMMA SpawnFailsInv ==
  ASSUME DepsInv, NEW p \in Pids, SpawnFails(p) \/ SpawnRefused(p)
  PROVE  DepsInv'
  BY ReleaseInv, FreeKind, FaultsAssumption
     DEF DepsInv, DepsTypeOK, SpawnFails, SpawnRefused, Fault, Holds, Is

\* A process stops between two steps and leaves the rows as they are.
LEMMA LeaveInv ==
  ASSUME DepsInv, NEW p \in Pids, StepFails(p) \/ Die(p)
  PROVE  DepsInv'
<1>1. DepsTypeOK /\ UNCHANGED <<runs, boot>> /\ faults' \in 0 .. MaxFaults
  BY FaultsAssumption DEF DepsInv, DepsTypeOK, StepFails, Die, Fault
<1>2. /\ proc' \in [Pids -> Procs] /\ ~Holds(p)'
      /\ \A q \in Pids \ {p} : proc'[q] = proc[q]
  <2>1. CASE StepFails(p)
    BY <1>1, <2>1, DoneType DEF StepFails
  <2>2. CASE Die(p)
    BY <1>1, <2>2 DEF DepsTypeOK, Die, Procs, Holds
  <2> QED
    BY <2>1, <2>2
<1> QED
  BY <1>1, <1>2, KeepInv DEF DepsTypeOK

LEMMA ReconcileInv ==
  ASSUME DepsInv, NEW p \in Pids, Reconcile(p)
  PROVE  DepsInv'
  BY ReconciledInv DEF DepsInv, DepsTypeOK, Reconcile

LEMMA GraceLapsesInv ==
  ASSUME DepsInv, NEW i \in 1 .. MaxRuns, GraceLapses(i)
  PROVE  DepsInv'
<1>1. DepsTypeOK /\ i \in DOMAIN runs /\ runs[i] \in Rows
  BY DEF DepsInv, DepsTypeOK, GraceLapses, Running
<1>2. UNCHANGED <<proc, boot, faults>> /\ runs' = [runs EXCEPT ![i].old = TRUE]
  BY DEF GraceLapses
<1>3. [runs[i] EXCEPT !.old = TRUE] \in Rows
  BY <1>1 DEF Rows
<1>4. runs' \in [DOMAIN runs -> Rows]
  BY <1>1, <1>2, <1>3 DEF DepsTypeOK
<1>5. runs' \in Seq(Rows) /\ Len(runs') = Len(runs) /\ DOMAIN runs' = DOMAIN runs
  BY <1>1, <1>4, SameRows DEF DepsTypeOK
<1>6. \A j \in DOMAIN runs :
        runs'[j].pid = runs[j].pid /\ runs'[j].boot = runs[j].boot /\ runs'[j].status = runs[j].status
  BY <1>1, <1>2 DEF Rows
<1> QED
  BY <1>1, <1>2, <1>5, <1>6, KeepInv DEF DepsTypeOK

\* After a reboot no process holds anything.
LEMMA RebootInv ==
  ASSUME DepsInv, Reboot
  PROVE  DepsInv'
<1>1. \A q \in Pids : ~Holds(q)'
  BY DEF Reboot, Holds
<1>2. DepsTypeOK'
  BY FaultsAssumption DEF DepsInv, DepsTypeOK, Reboot, Fault, Procs
<1>3. HoldersInv' /\ SlotInv'
  BY <1>1 DEF DepsInv, HoldersInv, SlotInv, Reboot
<1>4. OneApply'
  BY <1>1 DEF OneApply, Holds
<1> QED
  BY <1>2, <1>3, <1>4 DEF DepsInv

\* The launcher hands its row on to the worker it has spawned.
LEMMA SpawnWorkerInv ==
  ASSUME DepsInv, NEW p \in Pids, NEW q \in Pids, SpawnWorker(p, q)
  PROVE  DepsInv'
<1> DEFINE r == proc[p].run
           w == [kind |-> "worker", at |-> "stamp", run |-> r]
           l == [kind |-> "init", at |-> "stamp", run |-> r, child |-> q]
<1>1. /\ DepsTypeOK /\ UNCHANGED <<runs, boot, faults>>
      /\ proc[p].kind = "init" /\ proc[p].at = "spawn" /\ proc[q] = Free
  BY DEF DepsInv, SpawnWorker, Is
<1>2. p # q /\ proc[p] # Free /\ Holds(p) /\ r \in Nat
  BY <1>1, FreeKind, ProcKinds DEF Holds
<1>3. proc' = [proc EXCEPT ![q] = w, ![p] = l]
  BY DEF SpawnWorker
<1>4. w \in Procs /\ l \in Procs
  BY <1>2 DEF Procs
<1>5. /\ w # Free /\ w.kind = "worker" /\ w.at = "stamp" /\ w.run = r
      /\ l # Free /\ l.kind = "init" /\ l.at = "stamp" /\ l.run = r /\ l.child = q
  BY FreeKind
<1> HIDE DEF w, l
<1>6. /\ proc' \in [Pids -> Procs] /\ proc'[q] = w /\ proc'[p] = l
      /\ \A o \in Pids \ {p, q} : proc'[o] = proc[o]
  BY <1>1, <1>2, <1>3, <1>4 DEF DepsTypeOK
<1>7. \A o \in Pids \ {p, q} : Holds(o)' => Holds(o) /\ proc[o].run # r
  BY <1>1, <1>2, <1>6 DEF DepsInv, HoldersInv, Holds, Launched, Is
<1>8. DepsTypeOK'
  BY <1>1, <1>6 DEF DepsTypeOK
<1>9. HoldersInv'
  <2>1. \A o \in Pids : Holds(o)' => proc'[o].run \in DOMAIN runs'
    BY <1>1, <1>2, <1>5, <1>6, <1>7 DEF DepsInv, HoldersInv
  <2>2. Launched(p, q)'
    BY <1>5, <1>6 DEF Launched, Is
  <2>3. \A o \in Pids \ {p, q} : Holds(o)' => proc'[o].run # proc'[p].run /\ proc'[o].run # proc'[q].run
    BY <1>5, <1>6, <1>7
  <2>4. \A o, u \in Pids \ {p, q} : Holds(o)' /\ Holds(u)' /\ proc'[o].run = proc'[u].run =>
          o = u \/ Launched(o, u)' \/ Launched(u, o)'
    BY <1>6, <1>7 DEF DepsInv, HoldersInv, Launched, Is
  <2> QED
    BY <2>1, <2>2, <2>3, <2>4 DEF HoldersInv
<1>10. SlotInv'
  BY <1>1, <1>5, <1>6, <1>7 DEF DepsInv, SlotInv
<1>11. OneApply'
  BY <1>1, <1>5, <1>6 DEF DepsInv, OneApply
<1> QED
  BY <1>8, <1>9, <1>10, <1>11 DEF DepsInv

\* Stamping the row r with the pid c, when c is the only process past its stamp that
\* may act for r, by a process p that lets go or goes on to adopt.
LEMMA StampInv ==
  ASSUME DepsInv, NEW p \in Pids, NEW c \in Pids, Holds(p), UNCHANGED <<boot, faults>>,
         runs' = [runs EXCEPT ![proc[p].run] = Stamped(@, c)],
         proc' \in [Pids -> Procs], \A q \in Pids \ {p} : proc'[q] = proc[q],
         ~Holds(p)' \/ (/\ c = p /\ proc'[p] # Free /\ proc[p].kind = "worker"
                        /\ proc'[p].kind = proc[p].kind
                        /\ proc'[p].run = proc[p].run /\ proc'[p].at = "adopt"),
         \A q \in Pids \ {p} : Holds(q) /\ proc[q].run = proc[p].run /\ proc[q].at \in {"adopt", "apply"} => q = c
  PROVE  DepsInv'
<1> DEFINE r == proc[p].run
<1>1. DepsTypeOK /\ r \in DOMAIN runs /\ runs[r] \in Rows
  BY DEF DepsInv, DepsTypeOK, HoldersInv
<1>2. /\ Stamped(runs[r], c) \in Rows /\ Stamped(runs[r], c).status = runs[r].status
      /\ Stamped(runs[r], c).pid = c /\ Stamped(runs[r], c).boot = boot
  BY <1>1, StampedType DEF DepsTypeOK
<1>3. /\ runs' \in [DOMAIN runs -> Rows] /\ runs'[r] = Stamped(runs[r], c)
      /\ \A i \in DOMAIN runs \ {r} : runs'[i] = runs[i]
  BY <1>1, <1>2 DEF DepsTypeOK
<1>4. runs' \in Seq(Rows) /\ Len(runs') = Len(runs) /\ DOMAIN runs' = DOMAIN runs
  BY <1>1, <1>3, SameRows DEF DepsTypeOK
<1>5. \A i \in DOMAIN runs : runs'[i].status = runs[i].status
  BY <1>2, <1>3
<1>6. /\ runs'[r].pid = c /\ runs'[r].boot = boot
  BY <1>2, <1>3
<1>7. \A q \in Pids : Holds(q)' => Holds(q) /\ proc'[q].run = proc[q].run /\ proc'[q].kind = proc[q].kind
                                 /\ (q # p => proc'[q] = proc[q])
  BY DEF Holds
<1>8. DepsTypeOK'
  BY <1>1, <1>4 DEF DepsTypeOK
<1>9. HoldersInv'
  <2>1. \A q \in Pids : Holds(q)' => proc'[q].run \in DOMAIN runs'
    BY <1>4, <1>7 DEF DepsInv, HoldersInv
  <2>2. \A q, u \in Pids : Holds(q)' /\ Holds(u)' /\ Launched(q, u) => Launched(q, u)'
    BY <1>7 DEF Launched, Is
  <2> QED
    BY <1>7, <2>1, <2>2 DEF DepsInv, HoldersInv
<1>10. \A q \in Pids : Holds(q)' /\ proc'[q].at \in {"adopt", "apply"} =>
         runs'[proc'[q].run].pid = q /\ runs'[proc'[q].run].boot = boot
  <2> SUFFICES ASSUME NEW q \in Pids, Holds(q)', proc'[q].at \in {"adopt", "apply"}
               PROVE  runs'[proc'[q].run].pid = q /\ runs'[proc'[q].run].boot = boot
    OBVIOUS
  <2>1. CASE q = p
    BY <1>6, <2>1
  <2>2. CASE q # p /\ proc[q].run = r
    BY <1>6, <1>7, <2>2
  <2>3. CASE q # p /\ proc[q].run # r
    BY <1>3, <1>7, <2>3 DEF DepsInv, HoldersInv, SlotInv
  <2> QED
    BY <2>1, <2>2, <2>3
<1>11. SlotInv'
  BY <1>4, <1>5, <1>10 DEF DepsInv, SlotInv
<1>12. OneApply'
  <2> SUFFICES ASSUME NEW q \in Pids, Holds(q)', proc'[q].at = "apply"
               PROVE  /\ runs'[proc'[q].run].status = "running"
                      /\ \A u \in Pids \ {q} : proc'[u] # Free => proc'[u].at # "apply"
    BY <1>10 DEF OneApply, Holds
  <2>1. q # p /\ Holds(q) /\ proc[q].at = "apply"
    BY <1>7
  <2>2. runs'[proc'[q].run].status = "running"
    BY <1>5, <1>7, <2>1 DEF DepsInv, OneApply, HoldersInv, Holds
  <2>3. \A u \in Pids \ {q} : proc'[u] # Free => proc'[u].at # "apply"
    BY <2>1 DEF DepsInv, OneApply, Holds
  <2> QED
    BY <2>2, <2>3
<1> QED
  BY <1>8, <1>9, <1>11, <1>12 DEF DepsInv

\* The pid the launcher stamps is the one of the only worker of that row.
LEMMA ParentStampsInv ==
  ASSUME DepsInv, NEW p \in Pids, ParentStamps(p)
  PROVE  DepsInv'
<1>1. /\ DepsTypeOK /\ proc[p] # Free /\ Holds(p) /\ Done(p) /\ UNCHANGED <<boot, faults>>
      /\ proc[p].kind = "init" /\ proc[p].at = "stamp"
      /\ runs' = [runs EXCEPT ![proc[p].run] = Stamped(@, proc[p].child)]
  BY FreeKind DEF DepsInv, ParentStamps, Is, Holds
<1>2. proc[p].child \in Pids
  BY <1>1 DEF DepsTypeOK, Procs, Free
<1>3. \A q \in Pids \ {p} :
        Holds(q) /\ proc[q].run = proc[p].run /\ proc[q].at \in {"adopt", "apply"} => q = proc[p].child
  BY <1>1 DEF DepsInv, HoldersInv, Launched, Is
<1> QED
  BY <1>1, <1>2, <1>3, DoneType, StampInv

LEMMA WorkerStampsInv ==
  ASSUME DepsInv, NEW p \in Pids, WorkerStamps(p)
  PROVE  DepsInv'
<1>1. /\ DepsTypeOK /\ proc[p] # Free /\ Holds(p) /\ UNCHANGED <<boot, faults>>
      /\ proc[p].kind = "worker" /\ proc[p].at = "stamp"
      /\ runs' = [runs EXCEPT ![proc[p].run] = Stamped(@, p)]
      /\ Goto(p, "adopt", proc[p].run)
  BY FreeKind DEF DepsInv, WorkerStamps, Is, Holds
<1>2. proc[p].run \in Nat
  BY <1>1, ProcKinds
<1>3. \A q \in Pids \ {p} :
        Holds(q) /\ proc[q].run = proc[p].run /\ proc[q].at \in {"adopt", "apply"} => q = p
  BY <1>1 DEF DepsInv, HoldersInv, Launched, Is
<1>4. /\ proc' \in [Pids -> Procs]
      /\ \A q \in Pids \ {p} : proc'[q] = proc[q]
      /\ proc'[p] # Free /\ proc'[p].kind = proc[p].kind
      /\ proc'[p].at = "adopt" /\ proc'[p].run = proc[p].run
  <2>1. [kind |-> proc[p].kind, at |-> "adopt", run |-> proc[p].run] \in Procs
    BY <1>1, <1>2 DEF Procs
  <2> QED
    BY <1>1, <2>1, GotoType
<1> QED
  BY <1>1, <1>3, <1>4, StampInv

\* A worker adopts the running row, which names it: nobody else can be applying.
LEMMA AdoptInv ==
  ASSUME DepsInv, NEW p \in Pids, Adopt(p)
  PROVE  DepsInv'
<1>1. /\ DepsTypeOK /\ proc[p] # Free /\ Holds(p) /\ UNCHANGED <<runs, boot, faults>>
      /\ proc[p].kind = "worker" /\ proc[p].at = "adopt"
  BY FreeKind DEF DepsInv, Adopt, Is, Holds
<1>2. proc[p].run \in Nat /\ proc[p].run \in DOMAIN runs
  BY <1>1, ProcKinds DEF DepsInv, HoldersInv
<1>3. CASE runs[proc[p].run].status # "running"
  <2>1. Done(p)
    BY <1>3 DEF Adopt
  <2> QED
    BY <1>1, <2>1, ReleaseInv DEF DepsTypeOK
<1>4. CASE runs[proc[p].run].status = "running"
  <2>1. /\ proc' \in [Pids -> Procs]
        /\ \A q \in Pids \ {p} : proc'[q] = proc[q]
        /\ proc'[p] # Free /\ proc'[p].kind = proc[p].kind
        /\ proc'[p].at = "apply" /\ proc'[p].run = proc[p].run
    <3>1. [kind |-> proc[p].kind, at |-> "apply", run |-> proc[p].run] \in Procs
      BY <1>1, <1>2 DEF Procs
    <3> QED
      BY <1>1, <1>4, <3>1, GotoType DEF Adopt
  <2>2. \A q \in Pids : Holds(q)' => Holds(q) /\ proc'[q].run = proc[q].run /\ proc'[q].kind = proc[q].kind
                                   /\ (q # p => proc'[q] = proc[q])
    BY <1>1, <2>1 DEF Holds
  <2>3. DepsTypeOK'
    BY <1>1, <2>1 DEF DepsTypeOK
  <2>4. HoldersInv'
    <3>1. \A q, u \in Pids : Holds(q)' /\ Holds(u)' /\ Launched(q, u) => Launched(q, u)'
      BY <1>1, <2>2 DEF Launched, Is
    <3> QED
      BY <1>1, <2>2, <3>1 DEF DepsInv, HoldersInv
  <2>5. SlotInv'
    BY <1>1, <2>1, <2>2 DEF DepsInv, SlotInv
  <2>6. runs[proc[p].run].pid = p /\ runs[proc[p].run].boot = boot
    BY <1>1 DEF DepsInv, SlotInv
  <2>7. \A q \in Pids \ {p} : proc[q] # Free => proc[q].at # "apply"
    BY <1>2, <1>4, <2>6 DEF DepsInv, SlotInv, OneApply, HoldersInv, Holds
  <2>8. OneApply'
    BY <1>1, <1>4, <2>1, <2>6, <2>7 DEF OneApply
  <2> QED
    BY <2>3, <2>4, <2>5, <2>8 DEF DepsInv
<1> QED
  BY <1>3, <1>4

-----------------------------------------------------------------------------
(* The invariant and what follows from it *)

LEMMA NextInv == DepsInv /\ [DepsNext]_depsVars => DepsInv'
<1> SUFFICES ASSUME DepsInv, [DepsNext]_depsVars PROVE DepsInv'
  OBVIOUS
<1>1. CASE UNCHANGED depsVars
  BY <1>1, KeepInv DEF depsVars, DepsInv, DepsTypeOK
<1>2. ASSUME NEW p \in Pids, StartDaemon(p) \/ StartCli(p) \/ StartInit(p) \/ TakeLock(p)
      PROVE  DepsInv'
  BY <1>2, LaunchInv
<1>3. ASSUME NEW p \in Pids, Progress(p) PROVE DepsInv'
  BY <1>3, ClearSelfOwnedInv, ClaimForSelfInv, FinishInv, ClaimForWorkerInv, SpawnWorkerInv,
     SpawnFailsInv, ParentStampsInv, WorkerStampsInv, AdoptInv DEF Progress
<1>4. ASSUME NEW p \in Pids,
             FinishUnrecorded(p) \/ SpawnFails(p) \/ StepFails(p) \/ Reconcile(p) \/ Die(p)
      PROVE  DepsInv'
  BY <1>4, FinishInv, SpawnFailsInv, LeaveInv, ReconcileInv
<1>5. ASSUME NEW i \in 1 .. MaxRuns, GraceLapses(i) PROVE DepsInv'
  BY <1>5, GraceLapsesInv
<1>6. CASE Reboot
  BY <1>6, RebootInv
<1> QED
  BY <1>1, <1>2, <1>3, <1>4, <1>5, <1>6 DEF DepsNext

\* The inductive invariant of the apply slot, for any number of pids, rows and faults.
THEOREM Invariance == DepsSpec => []DepsInv
<1>1. DepsInit => DepsInv
  BY InitInv
<1>2. DepsInv /\ [DepsNext]_depsVars => DepsInv'
  BY NextInv
<1> QED
  BY <1>1, <1>2, PTL DEF DepsSpec

\* Type correctness: rows and processes keep their shape.
THEOREM TypeCorrect == DepsSpec => []DepsTypeOK
<1>1. DepsInv => DepsTypeOK
  BY DEF DepsInv
<1> QED
  BY <1>1, Invariance, PTL

\* At most one process installs, and the running row names it (claim_deps_apply_run,
\* row_is_abandoned, the worker's adoption check), whatever dies, is reused, is
\* rebooted or is taken over.
THEOREM SingleApply == DepsSpec => []OneApply
<1>1. DepsInv => OneApply
  BY DEF DepsInv
<1> QED
  BY <1>1, Invariance, PTL

=============================================================================
