------------------------------ MODULE Permissions ------------------------------
(***************************************************************************)
(* The permission service (runtime/mediation/permissions.rs) over its rows *)
(* (state/permissions.rs): an asker raises a request and waits, while      *)
(* operators, session sweeps, the expiry timer and the asker itself race   *)
(* to decide it.                                                           *)
(*                                                                         *)
(* Every write is one atomic step that either commits or fails and leaves  *)
(* nothing: that is the promise DurableWrites states and StateWriter is    *)
(* shown to keep.  A decision is three steps of its own task, because the  *)
(* code awaits between them: commit the row, answer the waiter, publish.   *)
(* Any future the code does not spawn may be dropped at its awaits, any    *)
(* write may fail, and the daemon may crash and come back.                 *)
(***************************************************************************)
EXTENDS Naturals, Sequences

CONSTANTS Requests,    \* requests that may be raised
          Acp,         \* those raised by an agent session; the others guard commands
          Callers,     \* operators and session sweeps
          MaxCrashes   \* bound: daemon crashes in one behaviour

ASSUME AcpAssumption == Acp \subseteq Requests
ASSUME CallersAssumption == Callers \cap {"timer", "owner"} = {}
ASSUME CrashAssumption == MaxCrashes \in Nat

VARIABLES row,        \* permission_requests.status
          decisions,  \* the permission_decisions rows of a request, in order
          waiter,     \* requests whose waiter is in the `pending` map
          answer,     \* what was sent to the request's waiter
          asker,      \* where the future that raised the request stands
          creating,   \* requests whose created event is being written and published
          announced,  \* events of a request published live
          stage,      \* stage of each decision task
          verdict,    \* the outcome each decision task carries
          sweep,      \* requests a session sweep has yet to settle
          swept,      \* requests its last sweep has been through
          config,     \* [permissions] of the running daemon
          up,         \* the daemon serves requests
          crashes     \* crashes so far

rowVars   == <<row, decisions>>
askVars   == <<waiter, answer, asker, creating>>
taskVars  == <<stage, verdict>>
sweepVars == <<sweep, swept>>
bootVars  == <<config, up, crashes>>
permVars  == <<row, decisions, waiter, answer, asker, creating, announced,
               stage, verdict, sweep, swept, config, up, crashes>>

Outcomes == {"approved", "denied", "expired", "cancelled"}
Terminal == Outcomes
Deciders == Callers \cup {"timer", "owner"}
Results  == {"ok", "conflict", "failed"}
Stages   == {"idle", "sleep", "write", "fire", "publish", "fallback"} \cup Results
Configs  == [onTimeout : {"approved", "expired"}, policyApproves : BOOLEAN]

\* Askers that are inside a call of the service and can be dropped there.
Asking == {"insert", "register", "settle", "policy", "waiting", "cancelling", "outraced"}
\* Askers that hold the receiver and can do nothing but wait for the answer.
Parked == {"waiting", "outraced"}
AskerStates == Asking \cup {"idle", "answered", "withdrawn", "failed", "gone"}

Init ==
  /\ row = [p \in Requests |-> "absent"]
  /\ decisions = [p \in Requests |-> <<>>]
  /\ waiter = {}
  /\ answer = [p \in Requests |-> "none"]
  /\ asker = [p \in Requests |-> "idle"]
  /\ creating = {}
  /\ announced = [p \in Requests |-> {}]
  /\ stage = [p \in Requests |-> [d \in Deciders |-> "idle"]]
  /\ verdict = [p \in Requests |-> [d \in Deciders |-> "none"]]
  /\ sweep = [d \in Callers |-> {}]
  /\ swept = [d \in Callers |-> {}]
  /\ config \in Configs
  /\ up = TRUE
  /\ crashes = 0

-----------------------------------------------------------------------------
(* Rows *)

\* transition of a pending row to a terminal status with its decision row
Record(p, o) ==
  /\ row' = [row EXCEPT ![p] = o]
  /\ decisions' = [decisions EXCEPT ![p] = Append(@, o)]

\* mutant: a decision accepted on a row that is already decided
DecidableAlways(p) == row[p] # "absent"

\* decide_permission accepts a decision only while the row is pending
Decidable(p) == row[p] = "pending"

-----------------------------------------------------------------------------
(* Waiters *)

\* remove the waiter from the map and send it an outcome; a no-op without one
Answer(p, o) ==
  /\ waiter' = waiter \ {p}
  /\ answer' = IF p \in waiter THEN [answer EXCEPT ![p] = o] ELSE answer

\* what a waiter registered after the decision is told
Raced(s) == IF s = "approved" THEN "cancelled" ELSE s

-----------------------------------------------------------------------------
(* Decision tasks *)

\* start decide_and_publish as decider d with outcome o
Decide(p, d, o) ==
  /\ stage' = [stage EXCEPT ![p][d] = "write"]
  /\ verdict' = [verdict EXCEPT ![p][d] = o]

\* where a task goes with its result: the timer falls back on a failed write,
\* the asker and a sweep read the result, any other caller just gets it
After(p, d, r) ==
  IF d = "timer" THEN IF r = "failed" THEN "fallback" ELSE "idle"
  ELSE IF d = "owner" THEN r
  ELSE IF p \in sweep[d] THEN r ELSE "idle"

Finish(p, d, r) ==
  /\ stage' = [stage EXCEPT ![p][d] = After(p, d, r)]
  /\ verdict' = [verdict EXCEPT ![p][d] = "none"]

DecideCommit(p, d) ==
  /\ stage[p][d] = "write"
  /\ Decidable(p)
  /\ Record(p, verdict[p][d])
  /\ stage' = [stage EXCEPT ![p][d] = "fire"]
  /\ UNCHANGED <<askVars, announced, verdict, sweepVars, bootVars>>

\* InvalidPermissionTransition: another decider won
DecideConflict(p, d) ==
  /\ stage[p][d] = "write"
  /\ row[p] \in Terminal
  /\ Finish(p, d, "conflict")
  /\ UNCHANGED <<rowVars, askVars, announced, sweepVars, bootVars>>

\* the write failed, or names no row; nothing is stored
DecideFail(p, d) ==
  /\ stage[p][d] = "write"
  /\ Finish(p, d, "failed")
  /\ UNCHANGED <<rowVars, askVars, announced, sweepVars, bootVars>>

DecideFire(p, d) ==
  /\ stage[p][d] = "fire"
  /\ Answer(p, verdict[p][d])
  /\ stage' = [stage EXCEPT ![p][d] = "publish"]
  /\ UNCHANGED <<rowVars, asker, creating, announced, verdict, sweepVars, bootVars>>

DecidePublish(p, d) ==
  /\ stage[p][d] = "publish"
  /\ announced' = [announced EXCEPT ![p] = @ \cup {verdict[p][d]}]
  /\ Finish(p, d, "ok")
  /\ UNCHANGED <<rowVars, askVars, sweepVars, bootVars>>

DecideStep(p, d) ==
  \/ DecideCommit(p, d) \/ DecideConflict(p, d) \/ DecideFail(p, d)
  \/ DecideFire(p, d)   \/ DecidePublish(p, d)

-----------------------------------------------------------------------------
(* The expiry timer of a request *)

TimerElapse(p) ==
  /\ stage[p]["timer"] = "sleep"
  /\ Decide(p, "timer", config.onTimeout)
  /\ UNCHANGED <<rowVars, askVars, announced, sweepVars, bootVars>>

\* mutant: the configured action is applied although its write failed
FallbackByAction == config.onTimeout

FallbackAnswer == "expired"

\* a failed transition answers the waiter and leaves the row to the next restart
TimerFallback(p) ==
  /\ stage[p]["timer"] = "fallback"
  /\ Answer(p, FallbackAnswer)
  /\ stage' = [stage EXCEPT ![p]["timer"] = "idle"]
  /\ UNCHANGED <<rowVars, asker, creating, announced, verdict, sweepVars, bootVars>>

-----------------------------------------------------------------------------
(* request and approve_by_policy *)

Request(p) ==
  /\ up
  /\ asker[p] = "idle"
  /\ asker' = [asker EXCEPT ![p] = "insert"]
  /\ UNCHANGED <<rowVars, waiter, answer, creating, announced, taskVars, sweepVars, bootVars>>

\* agent requests are answered by policy when acp_prompt_action says so
ByPolicy(p) == p \in Acp /\ config.policyApproves

Insert(p) ==
  /\ asker[p] = "insert"
  /\ ~ByPolicy(p)
  /\ row' = [row EXCEPT ![p] = "pending"]
  /\ asker' = [asker EXCEPT ![p] = "register"]
  /\ UNCHANGED <<decisions, waiter, answer, creating, announced, taskVars, sweepVars, bootVars>>

\* mutant: the row is inserted approved and its decision row is left out
PolicyInsertBare(p) ==
  /\ asker[p] = "insert"
  /\ ByPolicy(p)
  /\ row' = [row EXCEPT ![p] = "approved"]
  /\ creating' = creating \cup {p}
  /\ asker' = [asker EXCEPT ![p] = "policy"]
  /\ UNCHANGED <<decisions, waiter, answer, announced, taskVars, sweepVars, bootVars>>

PolicyInsert(p) ==
  /\ asker[p] = "insert"
  /\ ByPolicy(p)
  /\ Record(p, "approved")
  /\ creating' = creating \cup {p}
  /\ asker' = [asker EXCEPT ![p] = "policy"]
  /\ UNCHANGED <<waiter, answer, announced, taskVars, sweepVars, bootVars>>

InsertFail(p) ==
  /\ asker[p] = "insert"
  /\ asker' = [asker EXCEPT ![p] = "failed"]
  /\ UNCHANGED <<rowVars, waiter, answer, creating, announced, taskVars, sweepVars, bootVars>>

Register(p) ==
  /\ asker[p] = "register"
  /\ waiter' = waiter \cup {p}
  /\ creating' = creating \cup {p}
  /\ asker' = [asker EXCEPT ![p] = "settle"]
  /\ UNCHANGED <<rowVars, answer, announced, taskVars, sweepVars, bootVars>>

\* a spawned task: it goes on when its caller is dropped, and publishes live
\* whether or not the event row could be appended
PublishCreated(p) ==
  /\ p \in creating
  /\ creating' = creating \ {p}
  /\ announced' = [announced EXCEPT ![p] = @ \cup {"created"}]
  /\ UNCHANGED <<rowVars, waiter, answer, asker, taskVars, sweepVars, bootVars>>

\* mutant: no re-read of the row once the waiter is registered
SettleNothing(p) == UNCHANGED <<waiter, answer>>

\* mutant: a row still pending is not left alone
SettleUndecided(p) == Answer(p, Raced(row[p]))

\* settle_waiter_if_already_decided.  The re-read and the removal of the waiter
\* are one step: a decided row never changes again, and a decider that fires
\* between the two leaves no waiter to answer.
SettleWaiter(p) ==
  \/ /\ row[p] = "pending"
     /\ UNCHANGED <<waiter, answer>>
  \/ row[p] \in Terminal /\ Answer(p, Raced(row[p]))
  \/ Answer(p, "expired")          \* the re-read failed

\* no await separates the settle from spawn_timer and from the return
Settle(p) ==
  /\ asker[p] = "settle"
  /\ p \notin creating
  /\ SettleWaiter(p)
  /\ stage' = [stage EXCEPT ![p]["timer"] = "sleep"]
  /\ asker' = [asker EXCEPT ![p] = "waiting"]
  /\ UNCHANGED <<rowVars, creating, announced, verdict, sweepVars, bootVars>>

\* the decision event of a policy approval is published unless its write failed
PolicyReturn(p) ==
  /\ asker[p] = "policy"
  /\ p \notin creating
  /\ \/ announced' = [announced EXCEPT ![p] = @ \cup {"approved"}]
     \/ UNCHANGED announced
  /\ asker' = [asker EXCEPT ![p] = "answered"]
  /\ answer' = [answer EXCEPT ![p] = "approved"]
  /\ UNCHANGED <<rowVars, waiter, creating, taskVars, sweepVars, bootVars>>

-----------------------------------------------------------------------------
(* The asker *)

TakeAnswer(p) ==
  /\ asker[p] \in Parked
  /\ answer[p] # "none"
  /\ asker' = [asker EXCEPT ![p] = "answered"]
  /\ UNCHANGED <<rowVars, waiter, answer, creating, announced, taskVars, sweepVars, bootVars>>

\* resolve_acp_permission: the agent cancelled its request while it was parked
OwnerCancel(p) ==
  /\ p \in Acp
  /\ asker[p] = "waiting"
  /\ Decide(p, "owner", "cancelled")
  /\ asker' = [asker EXCEPT ![p] = "cancelling"]
  /\ UNCHANGED <<rowVars, waiter, answer, creating, announced, sweepVars, bootVars>>

\* what cancel_if_pending returned: withdrawn, outraced by another decider, or an error
OwnerCancelled(p) ==
  /\ asker[p] = "cancelling"
  /\ stage[p]["owner"] \in Results
  /\ asker' = [asker EXCEPT ![p] = CASE stage[p]["owner"] = "ok"       -> "withdrawn"
                                     [] stage[p]["owner"] = "conflict" -> "outraced"
                                     [] stage[p]["owner"] = "failed"   -> "failed"]
  /\ stage' = [stage EXCEPT ![p]["owner"] = "idle"]
  /\ UNCHANGED <<rowVars, waiter, answer, creating, announced, verdict, sweepVars, bootVars>>

\* the future that asks is dropped at one of its awaits; the decision event of a policy
\* approval, once spawned, is published all the same
Drop(p) ==
  /\ asker[p] \in Asking
  /\ asker' = [asker EXCEPT ![p] = "gone"]
  /\ \/ UNCHANGED announced
     \/ /\ asker[p] = "policy"
        /\ p \notin creating
        /\ announced' = [announced EXCEPT ![p] = @ \cup {"approved"}]
  /\ UNCHANGED <<rowVars, waiter, answer, creating, taskVars, sweepVars, bootVars>>

\* ... while its insert is with the writer, which runs the job all the same
DropDuringInsert(p) ==
  /\ asker[p] = "insert"
  /\ asker' = [asker EXCEPT ![p] = "gone"]
  /\ IF ByPolicy(p)
     THEN Record(p, "approved")
     ELSE row' = [row EXCEPT ![p] = "pending"] /\ UNCHANGED decisions
  /\ UNCHANGED <<waiter, answer, creating, announced, taskVars, sweepVars, bootVars>>

-----------------------------------------------------------------------------
(* Operators and session sweeps *)

\* approve and deny name any request; sweeping callers are busy
OperatorCall(p, d, o) ==
  /\ up
  /\ o \in {"approved", "denied"}
  /\ sweep[d] = {}
  /\ stage[p][d] = "idle"
  /\ Decide(p, d, o)
  /\ UNCHANGED <<rowVars, askVars, announced, sweepVars, bootVars>>

\* cancel_pending_for_session: the snapshot of the session's pending requests
SweepRead(d) ==
  /\ up
  /\ sweep[d] = {}
  /\ \A p \in Requests : stage[p][d] = "idle"
  /\ sweep' = [sweep EXCEPT ![d] = {p \in Acp : row[p] = "pending"}]
  /\ sweep'[d] # {}
  /\ swept' = [swept EXCEPT ![d] = {}]
  /\ UNCHANGED <<rowVars, askVars, announced, taskVars, bootVars>>

SweepCancel(p, d) ==
  /\ p \in sweep[d]
  /\ \A q \in sweep[d] : stage[q][d] = "idle"
  /\ Decide(p, d, "cancelled")
  /\ UNCHANGED <<rowVars, askVars, announced, sweepVars, bootVars>>

\* mutant: any result counts as settled
SettledByAny(r) == TRUE

\* cancel_if_pending: settled by this call or by another decider
SettledBy(r) == r \in {"ok", "conflict"}

\* go on with the next row, or give up at the first error
SweepAdvance(p, d) ==
  /\ p \in sweep[d]
  /\ stage[p][d] \in Results
  /\ stage' = [stage EXCEPT ![p][d] = "idle"]
  /\ IF SettledBy(stage[p][d])
     THEN /\ sweep' = [sweep EXCEPT ![d] = @ \ {p}]
          /\ swept' = [swept EXCEPT ![d] = @ \cup {p}]
     ELSE /\ sweep' = [sweep EXCEPT ![d] = {}]
          /\ UNCHANGED swept
  /\ UNCHANGED <<rowVars, askVars, announced, verdict, bootVars>>

\* the caller goes away; the decision it had spawned goes on
SweepDrop(d) ==
  /\ sweep[d] # {}
  /\ \A p \in Requests : stage[p][d] \notin Results
  /\ sweep' = [sweep EXCEPT ![d] = {}]
  /\ UNCHANGED <<rowVars, askVars, announced, taskVars, swept, bootVars>>

-----------------------------------------------------------------------------
(* Crash and restart *)

\* everything but the rows and what was seen live is lost
Crash ==
  /\ up
  /\ crashes < MaxCrashes
  /\ up' = FALSE
  /\ crashes' = crashes + 1
  /\ waiter' = {}
  /\ creating' = {}
  /\ answer' = [p \in Requests |-> "none"]
  /\ asker' = [p \in Requests |-> IF asker[p] = "idle" THEN "idle" ELSE "gone"]
  /\ stage' = [p \in Requests |-> [d \in Deciders |-> "idle"]]
  /\ verdict' = [p \in Requests |-> [d \in Deciders |-> "none"]]
  /\ sweep' = [d \in Callers |-> {}]
  /\ swept' = [d \in Callers |-> {}]
  /\ UNCHANGED <<rowVars, announced, config>>

Orphans == {p \in Requests : row[p] = "pending"}

\* agent requests are cancelled, those that guard commands expire
Orphaned(p) == IF p \in Acp THEN "cancelled" ELSE "expired"

\* reconcile_orphaned_permissions, in one transaction
ReconcilePermissions ==
  /\ row' = [p \in Requests |-> IF p \in Orphans THEN Orphaned(p) ELSE row[p]]
  /\ decisions' = [p \in Requests |-> IF p \in Orphans THEN Append(decisions[p], Orphaned(p))
                                                       ELSE decisions[p]]

\* the sweep is best effort: the daemon serves even when it failed
Boot ==
  /\ ~up
  /\ ReconcilePermissions \/ UNCHANGED rowVars
  /\ up' = TRUE
  /\ config' \in Configs
  /\ UNCHANGED <<askVars, announced, taskVars, sweepVars, crashes>>

-----------------------------------------------------------------------------
\* steps of the service's own tasks
ServiceStep(p) ==
  \/ \E d \in Deciders : DecideStep(p, d)
  \/ TimerElapse(p) \/ TimerFallback(p)
  \/ PublishCreated(p)
  \/ \E d \in Callers : SweepCancel(p, d) \/ SweepAdvance(p, d)

\* steps of the future that raises the request
AskerStep(p) ==
  \/ Insert(p) \/ PolicyInsert(p) \/ InsertFail(p)
  \/ Register(p) \/ Settle(p) \/ PolicyReturn(p)
  \/ TakeAnswer(p) \/ OwnerCancelled(p)

\* what may or may not happen
OutsideStep ==
  \/ \E p \in Requests : Request(p) \/ OwnerCancel(p) \/ Drop(p) \/ DropDuringInsert(p)
  \/ \E p \in Requests, d \in Callers, o \in {"approved", "denied"} : OperatorCall(p, d, o)
  \/ \E d \in Callers : SweepRead(d) \/ SweepDrop(d)
  \/ Crash

Next ==
  \/ \E p \in Requests : ServiceStep(p) \/ AskerStep(p)
  \/ OutsideStep
  \/ Boot

\* The runtime polls every task that can go on, a timer elapses, the writer
\* answers every write, and a crashed daemon is started again.
Fairness ==
  /\ \A p \in Requests :
       /\ \A d \in Deciders : WF_permVars(DecideStep(p, d))
       /\ WF_permVars(TimerElapse(p) \/ TimerFallback(p))
       /\ WF_permVars(PublishCreated(p))
       /\ WF_permVars(AskerStep(p))
  /\ \A d \in Callers :
       WF_permVars(\E p \in Requests : SweepCancel(p, d) \/ SweepAdvance(p, d))
  /\ WF_permVars(Boot)

Spec == Init /\ [][Next]_permVars /\ Fairness

-----------------------------------------------------------------------------
(* Properties *)

\* Every variable holds a value of its type; a status and an answer are ones the code has.
TypeOK ==
  /\ row \in [Requests -> {"absent", "pending"} \cup Terminal]
  /\ decisions \in [Requests -> Seq(Outcomes)]
  /\ waiter \in SUBSET Requests
  /\ answer \in [Requests -> {"none"} \cup Outcomes]
  /\ asker \in [Requests -> AskerStates]
  /\ creating \in SUBSET Requests
  /\ announced \in [Requests -> SUBSET ({"created"} \cup Outcomes)]
  /\ stage \in [Requests -> [Deciders -> Stages]]
  /\ verdict \in [Requests -> [Deciders -> {"none"} \cup Outcomes]]
  /\ sweep \in [Callers -> SUBSET Requests]
  /\ swept \in [Callers -> SUBSET Requests]
  /\ config \in Configs
  /\ up \in BOOLEAN
  /\ crashes \in 0..MaxCrashes

\* The audit trail: a terminal request has exactly one decision row, the one its
\* status names, and an undecided request has none, whoever raced to decide it and
\* wherever the daemon crashed (decide_permission, append_approved_permission_request
\* and reconcile_orphaned_permissions).
AuditTrail ==
  \A p \in Requests :
    decisions[p] = IF row[p] \in Terminal THEN <<row[p]>> ELSE <<>>

\* An asker is told "approved" or "denied" only if that is the decision on record, and
\* "cancelled" only if the request was cancelled or the approval came too early to name
\* an option (decide_and_publish and settle_waiter_if_already_decided).
AnswerIsOnRecord ==
  \A p \in Requests :
    /\ answer[p] \in {"approved", "denied"} => row[p] = answer[p]
    /\ answer[p] = "cancelled" => row[p] \in {"cancelled", "approved"}

\* A decision seen live is the decision on record: nothing is published from a write
\* that lost the race or failed (decide_and_publish publishes after the commit).
AnnouncedIsOnRecord ==
  \A p \in Requests : announced[p] \cap Outcomes \subseteq {row[p]}

\* Whoever hears of a decision, the asker or a subscriber, hears of the one on record.
ToldIsOnRecord == AnswerIsOnRecord /\ AnnouncedIsOnRecord

\* Every request a session sweep has been through is settled, by the sweep itself or by
\* a decider that beat it (cancel_pending_for_session, cancel_if_pending).
SweptIsSettled ==
  \A d \in Callers : \A p \in swept[d] : row[p] \in Terminal

\* What the parts above rest on: a request not yet inserted has no row, a committed
\* decision task carries the status it wrote, a finished cancel found the row settled,
\* and an asker answered by policy has an approved row.
TasksInv ==
  \A p \in Requests :
    /\ asker[p] \in {"idle", "insert"} => row[p] = "absent"
    /\ asker[p] = "policy" => row[p] = "approved"
    /\ \A d \in Deciders :
         /\ stage[p][d] = "write" => verdict[p][d] \in Outcomes
         /\ stage[p][d] \in {"fire", "publish"} =>
              verdict[p][d] \in Outcomes /\ row[p] = verdict[p][d]
         /\ stage[p][d] \in {"ok", "conflict"} => row[p] \in Terminal

\* The inductive invariant of the service.
PermInv ==
  /\ TypeOK /\ TasksInv
  /\ AuditTrail /\ AnswerIsOnRecord /\ AnnouncedIsOnRecord /\ SweptIsSettled

\* A decided request is never decided again (the guard of decide_permission, and the
\* status filter of the startup sweep).
DecidedOnce ==
  [][\A p \in Requests : row[p] \in Terminal => row'[p] = row[p]]_permVars

\* An asker parked on a request is answered in the end: by the decider, by the re-read
\* that catches a decision made before the waiter existed, or by the timer, whose
\* fallback covers a failed write.
ParkedIsAnswered ==
  \A p \in Requests : asker[p] \in Parked ~> asker[p] \notin Parked

=============================================================================
