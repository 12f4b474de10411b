----------------------- MODULE CommandGateway_proofs -----------------------
(***************************************************************************)
(* Proofs about the command gateway: GateInv is inductive, so a command    *)
(* runs only with its approval and its row on record, a supervisor that    *)
(* settled leaves nothing behind, and the startup sweep never fails a      *)
(* command whose request it leaves approvable, for any set of commands and *)
(* callers and any number of crashes.  The steps that are steps of the     *)
(* permission service rest on that service's own proofs.                   *)
(***************************************************************************)
EXTENDS CommandGateway, Permissions_proofs

-----------------------------------------------------------------------------
(* The service's invariant under the steps the gateway adds to it *)

\* The part of the service that rows do not enter is left alone.
LEMMA RowsOnlyInv ==
  ASSUME PermInv,
         row' \in [Requests -> {"absent", "pending"} \cup Terminal],
         decisions' \in [Requests -> Seq(Outcomes)],
         AuditTrail',
         \A p \in Requests : row[p] # "pending" => row'[p] = row[p],
         UNCHANGED <<askVars, announced, taskVars, sweepVars, crashes>>,
         config' \in Configs, up' \in BOOLEAN
  PROVE  PermInv'
<1>1. TypeOK'
  BY DEF PermInv, TypeOK, askVars, taskVars, sweepVars
<1>2. TasksInv'
  BY DEF PermInv, TasksInv, Outcomes, Terminal, askVars, taskVars, sweepVars
<1>3. AnswerIsOnRecord'
  BY DEF PermInv, AnswerIsOnRecord, askVars
<1>4. AnnouncedIsOnRecord'
  BY DEF PermInv, AnnouncedIsOnRecord, Outcomes
<1>5. SweptIsSettled'
  BY DEF PermInv, SweptIsSettled, TypeOK, Outcomes, Terminal, askVars, taskVars, sweepVars
<1> QED
  BY <1>1, <1>2, <1>3, <1>4, <1>5 DEF PermInv

\* A decision task started by the supervisor or by a cancel call.
LEMMA DecideInv ==
  ASSUME PermInv, NEW p \in Requests, NEW d \in Deciders, Decide(p, d, "cancelled"),
         UNCHANGED <<rowVars, askVars, announced, sweepVars, bootVars>>
  PROVE  PermInv'
<1>1. TypeOK'
  BY DEF PermInv, TypeOK, Decide, Outcomes, Stages, rowVars, askVars, sweepVars, bootVars
<1>2. TasksInv'
  BY DEF PermInv, TypeOK, TasksInv, Decide, Outcomes, rowVars, askVars
<1>3. AuditTrail' /\ AnswerIsOnRecord' /\ AnnouncedIsOnRecord' /\ SweptIsSettled'
  BY DEF PermInv, AuditTrail, AnswerIsOnRecord, AnnouncedIsOnRecord, SweptIsSettled, rowVars,
     askVars, sweepVars
<1> QED
  BY <1>1, <1>2, <1>3 DEF PermInv

\* The result of a supervisor's cancel is read.
LEMMA ReadResultInv ==
  ASSUME PermInv, NEW p \in Requests, stage' = [stage EXCEPT ![p]["owner"] = "idle"],
         UNCHANGED <<rowVars, askVars, announced, verdict, sweepVars, bootVars>>
  PROVE  PermInv'
<1>1. TypeOK'
  BY DEF PermInv, TypeOK, Stages, rowVars, askVars, sweepVars, bootVars
<1>2. TasksInv'
  BY DEF PermInv, TasksInv, rowVars, askVars
<1>3. AuditTrail' /\ AnswerIsOnRecord' /\ AnnouncedIsOnRecord' /\ SweptIsSettled'
  BY DEF PermInv, AuditTrail, AnswerIsOnRecord, AnnouncedIsOnRecord, SweptIsSettled, rowVars,
     askVars, sweepVars
<1> QED
  BY <1>1, <1>2, <1>3 DEF PermInv

\* The startup sweep of the commands settles the pending requests of those it fails.
LEMMA ReconcileCommandsLemma ==
  ASSUME GateInv, ReconcileCommands
  PROVE  /\ row' \in [Requests -> {"absent", "pending"} \cup Terminal]
         /\ decisions' \in [Requests -> Seq(Outcomes)]
         /\ AuditTrail'
         /\ \A p \in Requests : row[p] # "pending" => row'[p] = row[p]
         /\ \A p \in Requests : row[p] = "pending" /\ p \in Unfinished => row'[p] = "cancelled"
<1> DEFINE Freed == Orphans \cap Unfinished
<1>1. ASSUME NEW p \in Requests, p \in Freed
      PROVE  row'[p] = "cancelled" /\ decisions'[p] = <<"cancelled">>
  <2>1. decisions[p] = <<>>
    BY <1>1 DEF GateInv, PermInv, AuditTrail, Orphans, Outcomes, Terminal
  <2> QED
    BY <1>1, <2>1, FirstDecision DEF ReconcileCommands, Outcomes
<1>2. ASSUME NEW p \in Requests, p \notin Freed
      PROVE  row'[p] = row[p] /\ decisions'[p] = decisions[p]
  BY <1>2 DEF ReconcileCommands
<1>3. \A p \in Requests : p \in Freed <=> row[p] = "pending" /\ p \in Unfinished
  BY DEF Orphans
<1>4. \A p \in Requests : decisions'[p] \in Seq(Outcomes)
  BY <1>1, <1>2, FirstDecision DEF GateInv, PermInv, TypeOK, Outcomes
<1>5. decisions' \in [Requests -> Seq(Outcomes)]
  BY <1>4 DEF ReconcileCommands
<1>6. row' \in [Requests -> {"absent", "pending"} \cup Terminal]
  BY DEF GateInv, PermInv, TypeOK, ReconcileCommands, Outcomes, Terminal
<1>7. AuditTrail'
  BY <1>1, <1>2 DEF GateInv, PermInv, AuditTrail, Outcomes, Terminal
<1> QED
  BY <1>1, <1>2, <1>3, <1>5, <1>6, <1>7

-----------------------------------------------------------------------------
(* The steps of the permission service, seen from the gateway *)

\* A service step leaves the gateway's invariant alone: an approval on record stays, and
\* only a request on its way through submit moves or becomes pending.
LEMMA ServiceFrame ==
  ASSUME GateInv, PermInv', UNCHANGED gateVars, up' = up,
         \A p \in Requests : row[p] = "approved" => row'[p] = "approved",
         \A p \in Requests : row'[p] = "pending" => row[p] = "pending" \/ asker[p] = "insert",
         \A p \in Requests : asker'[p] = asker[p] \/ asker[p] \in {"insert", "register", "settle"}
  PROVE  GateInv'
<1>1. GateTypeOK'
  BY DEF GateInv, GateTypeOK, PermInv, gateVars, cmdVars
<1>2. StartupInv'
  BY DEF GateInv, StartupInv, gateVars, cmdVars
<1>3. RequestedInv'
  BY DEF GateInv, RequestedInv, gateVars, cmdVars, Commands
<1>4. SupervisedInv'
  BY DEF GateInv, SupervisedInv, gateVars, cmdVars, Commands
<1>5. SpawnIsApproved'
  BY DEF GateInv, SpawnIsApproved, gateVars, cmdVars, Commands
<1>6. CleanExit'
  BY DEF GateInv, RequestedInv, CleanExit, Answered, gateVars, cmdVars, Commands
<1> QED
  BY <1>1, <1>2, <1>3, <1>4, <1>5, <1>6 DEF GateInv

\* The conditions of ServiceFrame, for a step of the service that is one of Permissions.
LEMMA ServiceRows ==
  ASSUME PermInv, [Next]_permVars, NEW p \in Requests
  PROVE  row[p] = "approved" => row'[p] = "approved"
  BY DecidedStays DEF Outcomes, Terminal

LEMMA RequestStepInv ==
  ASSUME GateInv, NEW p \in Requests, RequestStep(p)
  PROVE  GateInv'
<1>1. Next /\ PermInv
  BY DEF RequestStep, Next, AskerStep, GateInv
<1>2. PermInv'
  BY <1>1, NextInv
<1>3. /\ up' = up
      /\ \A q \in Requests : row'[q] = "pending" => row[q] = "pending" \/ asker[q] = "insert"
      /\ \A q \in Requests :
           asker'[q] = asker[q] \/ asker[q] \in {"insert", "register", "settle"}
  BY <1>1 DEF RequestStep, Insert, InsertFail, Register, Settle, rowVars, bootVars, PermInv,
     TypeOK
<1> QED
  BY <1>1, <1>2, <1>3, ServiceRows, ServiceFrame DEF RequestStep

LEMMA DecisionStepInv ==
  ASSUME GateInv, NEW p \in Requests, NEW d \in Deciders, DecisionStep(p, d)
  PROVE  GateInv'
<1>1. Next /\ PermInv
  BY DEF DecisionStep, Next, ServiceStep, GateInv
<1>2. PermInv'
  BY <1>1, NextInv
<1>3. \A q \in Requests : row'[q] = "pending" => row[q] = "pending"
  <2>1. CASE DecideCommit(p, d)
    <3>1. verdict[p][d] \in Outcomes
      BY <1>1, <2>1 DEF PermInv, TasksInv, DecideCommit
    <3> QED
      BY <2>1, <3>1 DEF DecideCommit, Record, Outcomes
  <2> QED
    BY <2>1 DEF DecisionStep, DecideStep, DecideConflict, DecideFail, DecideFire,
       DecidePublish, rowVars
<1>4. up' = up /\ asker' = asker
  BY DEF DecisionStep, DecideStep, DecideCommit, DecideConflict, DecideFail, DecideFire,
     DecidePublish, askVars, bootVars
<1> QED
  BY <1>1, <1>2, <1>3, <1>4, ServiceRows, ServiceFrame DEF DecisionStep

LEMMA TimerStepInv ==
  ASSUME GateInv, NEW p \in Requests, TimerStep(p) \/ EventStep(p)
  PROVE  GateInv'
<1>1. Next /\ PermInv
  BY DEF TimerStep, EventStep, Next, ServiceStep, GateInv
<1>2. PermInv'
  BY <1>1, NextInv
<1>3. row' = row /\ asker' = asker /\ up' = up
  BY DEF TimerStep, EventStep, TimerElapse, TimerFallback, PublishCreated, rowVars, askVars,
     bootVars
<1> QED
  BY <1>2, <1>3, ServiceFrame DEF TimerStep, EventStep

LEMMA OperatorStepInv ==
  ASSUME GateInv, NEW d \in Callers, OperatorStep(d)
  PROVE  GateInv'
<1>1. PICK p \in Requests, o \in {"approved", "denied"} : OperatorCall(p, d, o)
  BY DEF OperatorStep
<1>2. PermInv'
  BY <1>1, OperatorCallInv DEF GateInv, Outcomes
<1>3. row' = row /\ asker' = asker /\ up' = up
  BY <1>1 DEF OperatorCall, rowVars, askVars, bootVars
<1> QED
  BY <1>2, <1>3, ServiceFrame DEF OperatorStep

-----------------------------------------------------------------------------
(* The steps of the gateway *)

LEMMA SubmitInv ==
  ASSUME GateInv, NEW c \in Commands, Submit(c)
  PROVE  GateInv'
<1>1. PermInv'
  BY StutterInv DEF GateInv, Submit
<1>2. PermInv /\ TypeOK /\ TypeOK'
  BY <1>1 DEF GateInv, PermInv
<1>3. GateTypeOK'
  BY <1>2 DEF GateInv, GateTypeOK, SupStates, Submit, Submitting, Goto
<1>4. StartupInv'
  BY DEF GateInv, StartupInv, Submit, permVars
<1>5. RequestedInv'
  BY DEF GateInv, RequestedInv, Submit, Goto, permVars
<1>6. SupervisedInv'
  BY DEF GateInv, SupervisedInv, Cleared, Submit, Goto, permVars
<1>7. SpawnIsApproved'
  BY DEF GateInv, SpawnIsApproved, Submit, permVars
<1>8. CleanExit'
  BY DEF GateInv, CleanExit, Submit, Goto, permVars
<1> QED
  BY <1>1, <1>3, <1>4, <1>5, <1>6, <1>7, <1>8 DEF GateInv

LEMMA AppendCommandInv ==
  ASSUME GateInv, NEW c \in Commands, AppendCommand(c)
  PROVE  GateInv'
<1>1. PermInv'
  BY StutterInv DEF GateInv, AppendCommand
<1>2. PermInv /\ TypeOK /\ TypeOK'
  BY <1>1 DEF GateInv, PermInv
<1>3. GateTypeOK'
  BY <1>2 DEF GateInv, GateTypeOK, SupStates, Submitting, AppendCommand, Goto, Store
<1>4. StartupInv'
  BY DEF GateInv, StartupInv, AppendCommand, permVars
<1>5. RequestedInv'
  BY DEF GateInv, GateTypeOK, RequestedInv, AppendCommand, Goto, permVars
<1>6. SupervisedInv'
  BY DEF GateInv, GateTypeOK, SupervisedInv, Cleared, AppendCommand, Goto, Store, permVars
<1>7. SpawnIsApproved'
  BY DEF GateInv, SpawnIsApproved, AppendCommand, permVars
<1>8. CleanExit'
  BY DEF GateInv, GateTypeOK, CleanExit, AppendCommand, Goto, permVars
<1> QED
  BY <1>1, <1>3, <1>4, <1>5, <1>6, <1>7, <1>8 DEF GateInv

LEMMA SubmitFailsInv ==
  ASSUME GateInv, NEW c \in Commands, SubmitFails(c)
  PROVE  GateInv'
<1>1. PermInv'
  BY StutterInv DEF GateInv, SubmitFails
<1>2. PermInv /\ TypeOK /\ TypeOK'
  BY <1>1 DEF GateInv, PermInv
<1>3. GateTypeOK'
  BY <1>2 DEF GateInv, GateTypeOK, SupStates, SubmitFails, Goto
<1>4. StartupInv'
  BY DEF GateInv, StartupInv, SubmitFails, permVars
<1>5. RequestedInv'
  BY DEF GateInv, RequestedInv, Answered, Cleared, Supervising, SubmitFails, Goto, permVars
<1>6. SupervisedInv'
  BY DEF GateInv, SupervisedInv, Cleared, SubmitFails, Goto, permVars
<1>7. SpawnIsApproved'
  BY DEF GateInv, SpawnIsApproved, SubmitFails, permVars
<1>8. CleanExit'
  BY DEF GateInv, CleanExit, SubmitFails, Goto, permVars
<1> QED
  BY <1>1, <1>3, <1>4, <1>5, <1>6, <1>7, <1>8 DEF GateInv

LEMMA SuperviseInv ==
  ASSUME GateInv, NEW c \in Commands, Supervise(c)
  PROVE  GateInv'
<1>1. PermInv'
  BY StutterInv DEF GateInv, Supervise
<1>2. PermInv /\ TypeOK /\ TypeOK'
  BY <1>1 DEF GateInv, PermInv
<1>3. GateTypeOK'
  BY <1>2 DEF GateInv, GateTypeOK, SupStates, Supervising, Supervise, Commands, Goto
<1>4. StartupInv'
  BY DEF GateInv, StartupInv, Supervise, permVars
<1>5. RequestedInv'
  BY DEF GateInv, RequestedInv, Answered, Cleared, Supervise, Goto, permVars
<1>6. SupervisedInv'
  BY DEF GateInv, SupervisedInv, Cleared, Supervise, Goto, permVars
<1>7. SpawnIsApproved'
  BY DEF GateInv, SpawnIsApproved, Supervise, permVars
<1>8. CleanExit'
  BY DEF GateInv, CleanExit, Supervise, Goto, permVars
<1> QED
  BY <1>1, <1>3, <1>4, <1>5, <1>6, <1>7, <1>8 DEF GateInv

LEMMA FinalizeInv ==
  ASSUME GateInv, NEW c \in Commands, Finalize(c)
  PROVE  GateInv'
<1>1. PermInv'
  BY StutterInv DEF GateInv, Finalize
<1>2. PermInv /\ TypeOK /\ TypeOK'
  BY <1>1 DEF GateInv, PermInv
<1>3. GateTypeOK'
  BY <1>2 DEF GateInv, GateTypeOK, SupStates, Supervising, SupervisedInv, Finalize, Goto, Store
<1>4. StartupInv'
  BY DEF GateInv, StartupInv, Finalize, permVars
<1>5. RequestedInv'
  BY DEF GateInv, RequestedInv, Answered, Supervising, Finalize, Goto, permVars
<1>6. SupervisedInv'
  BY DEF GateInv, GateTypeOK, SupervisedInv, Cleared, Finalize, Goto, Store, permVars
<1>7. SpawnIsApproved'
  BY DEF GateInv, SpawnIsApproved, Finalize, permVars
<1>8. CleanExit'
  BY DEF GateInv, CleanExit, Finalize, Goto, permVars
<1> QED
  BY <1>1, <1>3, <1>4, <1>5, <1>6, <1>7, <1>8 DEF GateInv

LEMMA MarkRunningInv ==
  ASSUME GateInv, NEW c \in Commands, MarkRunning(c)
  PROVE  GateInv'
<1>1. PermInv'
  BY StutterInv DEF GateInv, MarkRunning
<1>2. PermInv /\ TypeOK /\ TypeOK'
  BY <1>1 DEF GateInv, PermInv
<1>3. GateTypeOK'
  BY <1>2 DEF GateInv, GateTypeOK, SupStates, Supervising, MarkRunning, Goto, Store
<1>4. StartupInv'
  BY DEF GateInv, StartupInv, MarkRunning, permVars
<1>5. RequestedInv'
  BY DEF GateInv, GateTypeOK, RequestedInv, Answered, Cleared, Supervising, MarkRunning, Goto,
     permVars
<1>6. SupervisedInv'
  BY DEF GateInv, GateTypeOK, SupervisedInv, Cleared, MarkRunning, Goto, Store, permVars
<1>7. SpawnIsApproved'
  BY DEF GateInv, SpawnIsApproved, MarkRunning, permVars
<1>8. CleanExit'
  BY DEF GateInv, GateTypeOK, CleanExit, MarkRunning, Goto, permVars
<1> QED
  BY <1>1, <1>3, <1>4, <1>5, <1>6, <1>7, <1>8 DEF GateInv

LEMMA SpawnInv ==
  ASSUME GateInv, NEW c \in Commands, Spawn(c)
  PROVE  GateInv'
<1>1. PermInv'
  BY StutterInv DEF GateInv, Spawn
<1>2. PermInv /\ TypeOK /\ TypeOK'
  BY <1>1 DEF GateInv, PermInv
<1>3. GateTypeOK'
  BY <1>2 DEF GateInv, GateTypeOK, SupStates, Supervising, Spawn, Goto
<1>4. StartupInv'
  BY DEF GateInv, StartupInv, Spawn, permVars
<1>5. RequestedInv'
  BY DEF GateInv, GateTypeOK, RequestedInv, Answered, Cleared, Supervising, Spawn, Goto,
     permVars
<1>6. SupervisedInv'
  BY DEF GateInv, GateTypeOK, SupervisedInv, Cleared, Spawn, Goto, permVars
<1>7. SpawnIsApproved'
  BY DEF GateInv, GateTypeOK, SupervisedInv, SpawnIsApproved, Cleared, Spawn, permVars
<1>8. CleanExit'
  BY DEF GateInv, GateTypeOK, CleanExit, Spawn, Goto, permVars
<1> QED
  BY <1>1, <1>3, <1>4, <1>5, <1>6, <1>7, <1>8 DEF GateInv

LEMMA RecordSpawnFailureInv ==
  ASSUME GateInv, NEW c \in Commands, RecordSpawnFailure(c)
  PROVE  GateInv'
<1>1. PermInv'
  BY StutterInv DEF GateInv, RecordSpawnFailure
<1>2. PermInv /\ TypeOK /\ TypeOK'
  BY <1>1 DEF GateInv, PermInv
<1>3. GateTypeOK'
  BY <1>2 DEF GateInv, GateTypeOK, SupStates, Supervising, Finished, RecordSpawnFailure, Goto,
     Store
<1>4. StartupInv'
  BY DEF GateInv, StartupInv, RecordSpawnFailure, permVars
<1>5. RequestedInv'
  BY DEF GateInv, RequestedInv, Answered, Cleared, Supervising, RecordSpawnFailure, Goto,
     permVars
<1>6. SupervisedInv'
  BY DEF GateInv, GateTypeOK, SupervisedInv, Cleared, RecordSpawnFailure, Goto, Store, permVars
<1>7. SpawnIsApproved'
  BY DEF GateInv, SpawnIsApproved, RecordSpawnFailure, permVars
<1>8. CleanExit'
  BY DEF GateInv, CleanExit, RecordSpawnFailure, Goto, permVars
<1> QED
  BY <1>1, <1>3, <1>4, <1>5, <1>6, <1>7, <1>8 DEF GateInv

LEMMA ChildExitsInv ==
  ASSUME GateInv, NEW c \in Commands, ChildExits(c)
  PROVE  GateInv'
<1>1. PermInv'
  BY StutterInv DEF GateInv, ChildExits
<1>2. PermInv /\ TypeOK /\ TypeOK'
  BY <1>1 DEF GateInv, PermInv
<1>3. GateTypeOK'
  BY <1>2 DEF GateInv, GateTypeOK, ChildExits
<1>4. StartupInv'
  BY DEF GateInv, StartupInv, ChildExits, permVars
<1>5. RequestedInv'
  BY DEF GateInv, RequestedInv, ChildExits, permVars
<1>6. SupervisedInv'
  BY DEF GateInv, SupervisedInv, ChildExits, permVars
<1>7. SpawnIsApproved'
  BY DEF GateInv, SpawnIsApproved, ChildExits, permVars
<1>8. CleanExit'
  BY DEF GateInv, CleanExit, ChildExits, permVars
<1> QED
  BY <1>1, <1>3, <1>4, <1>5, <1>6, <1>7, <1>8 DEF GateInv

LEMMA PublishStartedInv ==
  ASSUME GateInv, NEW c \in Commands, PublishStarted(c)
  PROVE  GateInv'
<1>1. PermInv'
  BY StutterInv DEF GateInv, PublishStarted
<1>2. PermInv /\ TypeOK /\ TypeOK'
  BY <1>1 DEF GateInv, PermInv
<1>3. GateTypeOK'
  BY <1>2 DEF GateInv, GateTypeOK, SupStates, Supervising, PublishStarted, Goto
<1>4. StartupInv'
  BY DEF GateInv, StartupInv, PublishStarted, permVars
<1>5. RequestedInv'
  BY DEF GateInv, GateTypeOK, RequestedInv, Answered, Cleared, Supervising, PublishStarted,
     Goto, permVars
<1>6. SupervisedInv'
  BY DEF GateInv, GateTypeOK, SupervisedInv, Cleared, PublishStarted, Goto, permVars
<1>7. SpawnIsApproved'
  BY DEF GateInv, SpawnIsApproved, PublishStarted, permVars
<1>8. CleanExit'
  BY DEF GateInv, GateTypeOK, CleanExit, PublishStarted, Goto, permVars
<1> QED
  BY <1>1, <1>3, <1>4, <1>5, <1>6, <1>7, <1>8 DEF GateInv

LEMMA AbortInv ==
  ASSUME GateInv, NEW c \in Commands, Abort(c)
  PROVE  GateInv'
<1>1. PermInv'
  BY StutterInv DEF GateInv, Abort
<1>2. PermInv /\ TypeOK /\ TypeOK'
  BY <1>1 DEF GateInv, PermInv
<1>3. GateTypeOK'
  BY <1>2 DEF GateInv, GateTypeOK, SupStates, Supervising, Finished, Abort, Goto, Store
<1>4. StartupInv'
  BY DEF GateInv, StartupInv, Abort, permVars
<1>5. RequestedInv'
  BY DEF GateInv, RequestedInv, Answered, Cleared, Supervising, Abort, Goto, permVars
<1>6. SupervisedInv'
  BY DEF GateInv, GateTypeOK, SupervisedInv, Cleared, Abort, Goto, Store, permVars
<1>7. SpawnIsApproved'
  BY DEF GateInv, SupervisedInv, SpawnIsApproved, Cleared, Abort, permVars
<1>8. CleanExit'
  BY DEF GateInv, CleanExit, Abort, Goto, permVars
<1> QED
  BY <1>1, <1>3, <1>4, <1>5, <1>6, <1>7, <1>8 DEF GateInv

LEMMA FinishCommandInv ==
  ASSUME GateInv, NEW c \in Commands, FinishCommand(c)
  PROVE  GateInv'
<1>1. PermInv'
  BY StutterInv DEF GateInv, FinishCommand
<1>2. PermInv /\ TypeOK /\ TypeOK'
  BY <1>1 DEF GateInv, PermInv
<1>3. GateTypeOK'
  BY <1>2 DEF GateInv, GateTypeOK, SupStates, Supervising, SupervisedInv, FinishCommand, Goto,
     Store
<1>4. StartupInv'
  BY DEF GateInv, StartupInv, FinishCommand, permVars
<1>5. RequestedInv'
  BY DEF GateInv, RequestedInv, Answered, Supervising, FinishCommand, Goto, permVars
<1>6. SupervisedInv'
  BY DEF GateInv, GateTypeOK, SupervisedInv, Cleared, FinishCommand, Goto, Store, permVars
<1>7. SpawnIsApproved'
  BY DEF GateInv, SpawnIsApproved, FinishCommand, permVars
<1>8. CleanExit'
  BY DEF GateInv, CleanExit, FinishCommand, Goto, permVars
<1> QED
  BY <1>1, <1>3, <1>4, <1>5, <1>6, <1>7, <1>8 DEF GateInv

LEMMA LeaveInv ==
  ASSUME GateInv, NEW c \in Commands,
         LoopCancel(c) \/ LoopTimeout(c) \/ LoopPersistenceError(c) \/ LoopExit(c)
  PROVE  GateInv'
<1>1. PermInv'
  BY StutterInv DEF GateInv, LoopCancel, LoopTimeout, LoopPersistenceError, LoopExit
<1>2. PermInv /\ TypeOK /\ TypeOK'
  BY <1>1 DEF GateInv, PermInv
<1>3. /\ sup[c] = "loop" /\ sup' = [sup EXCEPT ![c] = "finish"]
      /\ child' = [child EXCEPT ![c] = "reaped"]
      /\ \E f \in Finished : fate' = [fate EXCEPT ![c] = f]
      /\ UNCHANGED <<permVars, cmd, running, awaiting>>
  BY DEF LoopCancel, LoopTimeout, LoopPersistenceError, LoopExit, LeaveLoop, Finished, Goto
<1>4. GateTypeOK'
  BY <1>2 DEF GateInv, GateTypeOK, SupStates, Supervising, Finished, LoopCancel, LoopTimeout,
     LoopPersistenceError, LoopExit, LeaveLoop, Goto
<1>5. StartupInv'
  BY DEF GateInv, StartupInv, LoopCancel, LoopTimeout, LoopPersistenceError, LoopExit,
     LeaveLoop, permVars
<1>6. RequestedInv'
  BY <1>3 DEF GateInv, RequestedInv, Answered, Cleared, Supervising, permVars
<1>7. SupervisedInv'
  BY <1>3 DEF GateInv, GateTypeOK, SupervisedInv, Cleared, permVars
<1>8. SpawnIsApproved'
  BY <1>3 DEF GateInv, SupervisedInv, SpawnIsApproved, Cleared, permVars
<1>9. CleanExit'
  BY <1>3 DEF GateInv, CleanExit, permVars
<1> QED
  BY <1>1, <1>4, <1>5, <1>6, <1>7, <1>8, <1>9 DEF GateInv

LEMMA RegisterRunningInv ==
  ASSUME GateInv, NEW c \in Commands, RegisterRunning(c)
  PROVE  GateInv'
<1>1. PermInv'
  BY RequestInv, StutterInv DEF GateInv, RegisterRunning, Commands
<1>2. PermInv /\ TypeOK /\ TypeOK'
  BY <1>1 DEF GateInv, PermInv
<1>3. GateTypeOK'
  BY <1>2 DEF GateInv, GateTypeOK, SupStates, Submitting, Supervising, RegisterRunning, Goto
<1>4. StartupInv'
  BY DEF GateInv, StartupInv, RegisterRunning, Request, permVars, bootVars
<1>5. RequestedInv'
  BY <1>2 DEF GateInv, GateTypeOK, TypeOK, RequestedInv, Answered, Cleared, Supervising,
     RegisterRunning, Request, Commands, Goto, permVars, rowVars, taskVars, sweepVars
<1>6. SupervisedInv'
  BY DEF GateInv, GateTypeOK, TypeOK, RequestedInv, SupervisedInv, Cleared, RegisterRunning,
     Request, Commands, Goto, permVars, rowVars
<1>7. SpawnIsApproved'
  BY <1>2 DEF GateInv, TypeOK, SupervisedInv, SpawnIsApproved, RegisterRunning, Request,
     Commands, permVars, rowVars
<1>8. CleanExit'
  BY DEF GateInv, GateTypeOK, CleanExit, RegisterRunning, Request, Goto, permVars, rowVars
<1> QED
  BY <1>1, <1>3, <1>4, <1>5, <1>6, <1>7, <1>8 DEF GateInv

LEMMA DropSubmitInv ==
  ASSUME GateInv, NEW c \in Commands, DropSubmit(c)
  PROVE  GateInv'
<1>1. PermInv'
  BY DropInv, DropDuringInsertInv, StutterInv DEF GateInv, DropSubmit, Commands
<1>2. PermInv /\ TypeOK /\ TypeOK'
  BY <1>1 DEF GateInv, PermInv
<1>3. /\ sup' = [sup EXCEPT ![c] = "gone"]
      /\ cmd' = cmd \/ (sup[c] = "append" /\ cmd' = [cmd EXCEPT ![c] = "pending"])
      /\ UNCHANGED <<fate, child, running, awaiting>>
      /\ sup[c] \in {"append", "register", "request"}
  BY DEF DropSubmit, Submitting, Goto, Store
<1>4. \A q \in Requests :
        /\ asker'[q] = asker[q] \/ (q = c /\ asker[q] # "idle")
        /\ row'[q] = row[q] \/ (q = c /\ row[q] = "absent")
  <2>1. CASE UNCHANGED permVars
    BY <2>1 DEF permVars
  <2>2. CASE Drop(c)
    BY <2>2 DEF Drop, Asking, rowVars
  <2>3. CASE DropDuringInsert(c)
    <3>1. row[c] = "absent"
      BY <1>2, <2>3 DEF PermInv, TasksInv, DropDuringInsert, Commands
    <3> QED
      BY <1>2, <2>3, <3>1, GuardedAssumption DEF TypeOK, DropDuringInsert, ByPolicy
  <2> QED
    BY <2>1, <2>2, <2>3 DEF DropSubmit
<1>5. GateTypeOK'
  BY <1>2 DEF GateInv, GateTypeOK, SupStates, DropSubmit, Goto, Store
<1>6. StartupInv'
  BY DEF GateInv, StartupInv, DropSubmit, Drop, DropDuringInsert, Goto, permVars, bootVars
<1>7. RequestedInv'
  BY <1>3, <1>4 DEF GateInv, RequestedInv, Answered, Cleared, Supervising, Commands
<1>8. SupervisedInv'
  BY <1>3, <1>4 DEF GateInv, GateTypeOK, SupervisedInv, Cleared, Commands
<1>9. SpawnIsApproved'
  BY <1>2, <1>3, <1>4 DEF GateInv, SupervisedInv, SpawnIsApproved, Commands
<1>10. CleanExit'
  BY <1>3, <1>4 DEF GateInv, CleanExit, Commands
<1> QED
  BY <1>1, <1>5, <1>6, <1>7, <1>8, <1>9, <1>10 DEF GateInv

LEMMA AwaitAnswerInv ==
  ASSUME GateInv, NEW c \in Commands, AwaitAnswer(c)
  PROVE  GateInv'
<1>1. PermInv'
  BY TakeAnswerInv DEF GateInv, AwaitAnswer, Commands
<1>2. PermInv /\ TypeOK /\ TypeOK'
  BY <1>1 DEF GateInv, PermInv
<1>3. answer[c] = "approved" => row[c] = "approved"
  BY <1>2 DEF PermInv, AnswerIsOnRecord, Commands
<1>4. GateTypeOK'
  BY <1>2 DEF GateInv, GateTypeOK, SupStates, Supervising, Finished, AwaitAnswer, Refusal, Goto
<1>5. StartupInv'
  BY DEF GateInv, StartupInv, AwaitAnswer, TakeAnswer, bootVars
<1>6. RequestedInv'
  BY DEF GateInv, GateTypeOK, TypeOK, RequestedInv, Supervising, AwaitAnswer, TakeAnswer, Goto
<1>7. SupervisedInv'
  BY <1>3 DEF GateInv, GateTypeOK, SupervisedInv, Cleared, Finished, AwaitAnswer, TakeAnswer,
     Granted, Refusal, Goto, rowVars
<1>8. SpawnIsApproved'
  BY DEF GateInv, RequestedInv, SpawnIsApproved, AwaitAnswer, TakeAnswer, rowVars
<1>9. CleanExit'
  BY DEF GateInv, GateTypeOK, CleanExit, AwaitAnswer, TakeAnswer, Goto, rowVars
<1> QED
  BY <1>1, <1>4, <1>5, <1>6, <1>7, <1>8, <1>9 DEF GateInv

LEMMA AwaitCancelInv ==
  ASSUME GateInv, NEW c \in Commands, AwaitCancel(c)
  PROVE  GateInv'
<1>1. PermInv'
  BY DropInv DEF GateInv, AwaitCancel, Commands
<1>2. PermInv /\ TypeOK /\ TypeOK'
  BY <1>1 DEF GateInv, PermInv
<1>3. GateTypeOK'
  BY <1>2 DEF GateInv, GateTypeOK, SupStates, Supervising, Finished, AwaitCancel, Goto
<1>4. StartupInv'
  BY DEF GateInv, StartupInv, AwaitCancel, Drop, bootVars
<1>5. RequestedInv'
  BY DEF GateInv, GateTypeOK, TypeOK, RequestedInv, Supervising, AwaitCancel, Drop, Goto
<1>6. SupervisedInv'
  BY DEF GateInv, GateTypeOK, SupervisedInv, Cleared, Finished, AwaitCancel, Drop, Goto,
     rowVars
<1>7. SpawnIsApproved'
  BY DEF GateInv, RequestedInv, SpawnIsApproved, AwaitCancel, Drop, rowVars
<1>8. CleanExit'
  BY DEF GateInv, CleanExit, AwaitCancel, Drop, Goto, rowVars
<1> QED
  BY <1>1, <1>3, <1>4, <1>5, <1>6, <1>7, <1>8 DEF GateInv

LEMMA DeregisterInv ==
  ASSUME GateInv, NEW c \in Commands, Deregister(c)
  PROVE  GateInv'
<1>1. PermInv'
  <2>1. CASE c \in awaiting
    BY <2>1, DecideInv DEF GateInv, Deregister, Deciders, Commands
  <2>2. CASE c \notin awaiting
    BY <2>2, StutterInv DEF GateInv, Deregister
  <2> QED
    BY <2>1, <2>2
<1>2. PermInv /\ TypeOK /\ TypeOK'
  BY <1>1 DEF GateInv, PermInv
<1>3. row' = row /\ asker' = asker
  BY DEF Deregister, permVars, rowVars, askVars
<1>4. GateTypeOK'
  BY <1>2 DEF GateInv, GateTypeOK, SupStates, Supervising, Deregister, Goto
<1>5. StartupInv'
  BY DEF GateInv, StartupInv, Deregister, permVars, bootVars
<1>6. RequestedInv'
  BY <1>3 DEF GateInv, GateTypeOK, RequestedInv, Answered, Supervising, Deregister, Goto
<1>7. SupervisedInv'
  BY <1>3 DEF GateInv, GateTypeOK, SupervisedInv, Cleared, Deregister, Goto
<1>8. SpawnIsApproved'
  BY <1>3 DEF GateInv, SpawnIsApproved, Deregister
<1>9. CleanExit'
  <2>1. c \notin awaiting => row[c] = "absent"
    BY DEF GateInv, RequestedInv, PermInv, TasksInv, Supervising, Deregister, Commands
  <2> QED
    BY <1>3, <2>1 DEF GateInv, GateTypeOK, SupervisedInv, CleanExit, Deregister, Goto
<1> QED
  BY <1>1, <1>4, <1>5, <1>6, <1>7, <1>8, <1>9 DEF GateInv

LEMMA DeregisteredInv ==
  ASSUME GateInv, NEW c \in Commands, Deregistered(c)
  PROVE  GateInv'
<1>1. PermInv'
  BY ReadResultInv DEF GateInv, Deregistered, Commands
<1>2. PermInv /\ TypeOK /\ TypeOK'
  BY <1>1 DEF GateInv, PermInv
<1>3. GateTypeOK'
  BY <1>2 DEF GateInv, GateTypeOK, SupStates, Deregistered, Goto
<1>4. StartupInv'
  BY DEF GateInv, StartupInv, Deregistered, bootVars
<1>5. RequestedInv'
  BY DEF GateInv, RequestedInv, Answered, Supervising, Deregistered, Goto, askVars
<1>6. SupervisedInv'
  BY DEF GateInv, SupervisedInv, Cleared, Deregistered, Goto, rowVars, askVars
<1>7. SpawnIsApproved'
  BY DEF GateInv, SpawnIsApproved, Deregistered, rowVars, askVars
<1>8. CleanExit'
  <2>1. stage[c]["owner"] # "failed" => row[c] # "pending"
    BY <1>2 DEF PermInv, TasksInv, Deregistered, Results, Deciders, Outcomes, Terminal,
       Commands
  <2> QED
    BY <2>1 DEF GateInv, SupervisedInv, CleanExit, Deregistered, Goto, rowVars
<1> QED
  BY <1>1, <1>3, <1>4, <1>5, <1>6, <1>7, <1>8 DEF GateInv

LEMMA CancelCallInv ==
  ASSUME GateInv, NEW d \in Callers, NEW c \in Commands, CancelCall(d, c)
  PROVE  GateInv'
<1>1. PermInv'
  <2>1. CASE c \in awaiting
    BY <2>1, DecideInv DEF GateInv, CancelCall, Deciders, Commands
  <2>2. CASE c \notin awaiting
    BY <2>2, StutterInv DEF GateInv, CancelCall
  <2> QED
    BY <2>1, <2>2
<1>2. PermInv /\ TypeOK /\ TypeOK'
  BY <1>1 DEF GateInv, PermInv
<1>3. row' = row /\ asker' = asker /\ up' = up
  BY DEF CancelCall, permVars, rowVars, askVars, bootVars
<1>4. GateTypeOK'
  BY <1>2 DEF GateInv, GateTypeOK, CancelCall, cmdVars
<1>5. StartupInv'
  BY <1>3 DEF GateInv, StartupInv, CancelCall, cmdVars
<1>6. RequestedInv'
  BY <1>3 DEF GateInv, RequestedInv, CancelCall, cmdVars
<1>7. SupervisedInv'
  BY <1>3 DEF GateInv, SupervisedInv, CancelCall, cmdVars
<1>8. SpawnIsApproved'
  BY <1>3 DEF GateInv, SpawnIsApproved, CancelCall, cmdVars
<1>9. CleanExit'
  BY <1>3 DEF GateInv, CleanExit, CancelCall, cmdVars
<1> QED
  BY <1>1, <1>4, <1>5, <1>6, <1>7, <1>8, <1>9 DEF GateInv

LEMMA CancelEndInv ==
  ASSUME GateInv, NEW d \in Callers, CancelSignal(d) \/ CancelDrop(d)
  PROVE  GateInv'
<1>1. PermInv'
  BY StutterInv DEF GateInv, CancelSignal, CancelDrop
<1>2. PermInv /\ TypeOK /\ TypeOK'
  BY <1>1 DEF GateInv, PermInv
<1>3. GateTypeOK'
  BY <1>2 DEF GateInv, GateTypeOK, CancelSignal, CancelDrop, cmdVars
<1>4. StartupInv'
  BY DEF GateInv, StartupInv, CancelSignal, CancelDrop, cmdVars, permVars
<1>5. RequestedInv'
  BY DEF GateInv, RequestedInv, CancelSignal, CancelDrop, cmdVars, permVars
<1>6. SupervisedInv'
  BY DEF GateInv, SupervisedInv, CancelSignal, CancelDrop, cmdVars, permVars
<1>7. SpawnIsApproved'
  BY DEF GateInv, SpawnIsApproved, CancelSignal, CancelDrop, cmdVars, permVars
<1>8. CleanExit'
  BY DEF GateInv, CleanExit, CancelSignal, CancelDrop, cmdVars, permVars
<1> QED
  BY <1>1, <1>3, <1>4, <1>5, <1>6, <1>7, <1>8 DEF GateInv

LEMMA GateCrashInv ==
  ASSUME GateInv, GateCrash
  PROVE  GateInv'
<1>1. PermInv'
  BY CrashInv DEF GateInv, GateCrash
<1>2. PermInv /\ TypeOK /\ TypeOK'
  BY <1>1 DEF GateInv, PermInv
<1>3. GateTypeOK'
  BY <1>2 DEF GateInv, GateTypeOK, SupStates, GateCrash
<1>4. StartupInv'
  BY DEF StartupInv, GateCrash, Crash
<1>5. RequestedInv'
  BY DEF GateInv, RequestedInv, Supervising, GateCrash, Crash, Commands
<1>6. SupervisedInv'
  BY DEF GateInv, SupervisedInv, Cleared, GateCrash
<1>7. SpawnIsApproved'
  BY DEF GateInv, SpawnIsApproved, GateCrash, Crash, Commands, rowVars
<1>8. CleanExit'
  BY DEF CleanExit, GateCrash
<1> QED
  BY <1>1, <1>3, <1>4, <1>5, <1>6, <1>7, <1>8 DEF GateInv

LEMMA BootCrashInv ==
  ASSUME GateInv, BootCrash
  PROVE  GateInv'
<1>1. crashes' \in 0..MaxCrashes
  BY CrashAssumption DEF GateInv, PermInv, TypeOK, BootCrash
<1>2. PermInv'
  BY <1>1 DEF GateInv, PermInv, TypeOK, TasksInv, AuditTrail, AnswerIsOnRecord,
     AnnouncedIsOnRecord, SweptIsSettled, BootCrash, rowVars, askVars, taskVars, sweepVars
<1>3. GateTypeOK'
  BY <1>2 DEF GateInv, GateTypeOK, PermInv, BootCrash, cmdVars
<1>4. StartupInv' /\ RequestedInv' /\ SupervisedInv' /\ SpawnIsApproved' /\ CleanExit'
  BY DEF GateInv, StartupInv, RequestedInv, SupervisedInv, SpawnIsApproved, CleanExit,
     BootCrash, cmdVars, rowVars, askVars
<1> QED
  BY <1>2, <1>3, <1>4 DEF GateInv

\* A startup sweep finds no submit and no supervisor, and takes back no approval.
LEMMA SweepFrame ==
  ASSUME GateInv, PermInv', boot # "serving",
         cmd' \in [Commands -> {"absent", "pending", "running"} \cup Finished],
         \A p \in Requests : row[p] # "pending" => row'[p] = row[p],
         boot' \in {"serving", "commands"}, up' <=> boot' = "serving",
         UNCHANGED <<asker, sup, fate, child, running, awaiting, signal, canceling>>
  PROVE  GateInv'
<1>1. GateTypeOK'
  BY DEF GateInv, GateTypeOK, PermInv
<1>2. StartupInv'
  BY DEF GateInv, StartupInv
<1>3. RequestedInv'
  BY DEF GateInv, RequestedInv
<1>4. \A c \in Commands : sup[c] \in {"idle", "gone"}
  BY DEF GateInv, StartupInv
<1>5. SupervisedInv'
  BY <1>4 DEF GateInv, SupervisedInv, Commands
<1>6. SpawnIsApproved'
  BY DEF GateInv, SpawnIsApproved, Commands
<1>7. CleanExit'
  BY <1>4 DEF CleanExit
<1> QED
  BY <1>1, <1>2, <1>3, <1>5, <1>6, <1>7 DEF GateInv

LEMMA SweepPermissionsInv ==
  ASSUME GateInv, SweepPermissions
  PROVE  GateInv'
<1>1. PermInv /\ up \in BOOLEAN /\ config \in Configs
  BY DEF GateInv, PermInv, TypeOK
<1>2. /\ row' \in [Requests -> {"absent", "pending"} \cup Terminal]
      /\ decisions' \in [Requests -> Seq(Outcomes)]
      /\ AuditTrail'
      /\ \A p \in Requests : row[p] # "pending" => row'[p] = row[p]
  <2>1. CASE ReconcilePermissions
    BY <1>1, <2>1, ReconcileLemma
  <2>2. CASE UNCHANGED rowVars
    BY <1>1, <2>2 DEF PermInv, TypeOK, AuditTrail, rowVars
  <2> QED
    BY <2>1, <2>2 DEF SweepPermissions
<1>3. PermInv'
  BY <1>1, <1>2, RowsOnlyInv DEF SweepPermissions, bootVars
<1>4. ~up /\ cmd \in [Commands -> {"absent", "pending", "running"} \cup Finished]
  BY DEF GateInv, StartupInv, GateTypeOK, SweepPermissions
<1> QED
  BY <1>2, <1>3, <1>4, SweepFrame DEF SweepPermissions, askVars, bootVars, cmdVars

LEMMA SweepCommandsInv ==
  ASSUME GateInv, SweepCommands
  PROVE  GateInv'
<1>1. PermInv /\ cmd \in [Commands -> {"absent", "pending", "running"} \cup Finished]
  BY DEF GateInv, GateTypeOK
<1>2. /\ row' \in [Requests -> {"absent", "pending"} \cup Terminal]
      /\ decisions' \in [Requests -> Seq(Outcomes)]
      /\ AuditTrail'
      /\ \A p \in Requests : row[p] # "pending" => row'[p] = row[p]
      /\ cmd' \in [Commands -> {"absent", "pending", "running"} \cup Finished]
  <2>1. CASE ReconcileCommands
    <3>1. cmd' \in [Commands -> {"absent", "pending", "running"} \cup Finished]
      BY <1>1, <2>1 DEF ReconcileCommands, Finished
    <3> QED
      BY <2>1, <3>1, ReconcileCommandsLemma
  <2>2. CASE UNCHANGED <<cmd, rowVars>>
    BY <1>1, <2>2 DEF PermInv, TypeOK, AuditTrail, rowVars
  <2> QED
    BY <2>1, <2>2 DEF SweepCommands
<1>3. up' = TRUE /\ config' \in Configs /\ boot = "commands" /\ boot' = "serving"
  BY DEF SweepCommands
<1>4. PermInv'
  BY <1>1, <1>2, RowsOnlyInv DEF SweepCommands
<1> QED
  BY <1>2, <1>4, SweepFrame DEF SweepCommands, askVars

-----------------------------------------------------------------------------
(* The steps together *)

LEMMA GateInitInv == GateInit => GateInv
<1> SUFFICES ASSUME GateInit PROVE GateInv
  OBVIOUS
<1>1. PermInv
  BY InitInv DEF GateInit
<1>2. GateTypeOK
  BY <1>1 DEF PermInv, GateInit, GateTypeOK, SupStates
<1>3. StartupInv /\ RequestedInv /\ SupervisedInv /\ SpawnIsApproved /\ CleanExit
  BY DEF GateInit, Init, StartupInv, RequestedInv, SupervisedInv, SpawnIsApproved, CleanExit,
     Commands
<1> QED
  BY <1>1, <1>2, <1>3 DEF GateInv

LEMMA SupervisorStepInv ==
  ASSUME GateInv, NEW c \in Commands, SupervisorStep(c)
  PROVE  GateInv'
<1>1. CASE AppendCommand(c) \/ RegisterRunning(c) \/ SubmitFails(c) \/ Supervise(c)
  BY <1>1, AppendCommandInv, RegisterRunningInv, SubmitFailsInv, SuperviseInv
<1>2. CASE AwaitAnswer(c) \/ AwaitCancel(c) \/ Finalize(c) \/ MarkRunning(c) \/ Spawn(c)
             \/ RecordSpawnFailure(c)
  BY <1>2, AwaitAnswerInv, AwaitCancelInv, FinalizeInv, MarkRunningInv, SpawnInv,
     RecordSpawnFailureInv
<1>3. CASE PublishStarted(c) \/ Abort(c) \/ LoopCancel(c) \/ LoopTimeout(c)
             \/ LoopPersistenceError(c) \/ LoopExit(c)
  BY <1>3, PublishStartedInv, AbortInv, LeaveInv
<1>4. CASE FinishCommand(c) \/ Deregister(c) \/ Deregistered(c)
  BY <1>4, FinishCommandInv, DeregisterInv, DeregisteredInv
<1> QED
  BY <1>1, <1>2, <1>3, <1>4 DEF SupervisorStep

LEMMA GateNextInv ==
  ASSUME GateInv, [GateNext]_allVars
  PROVE  GateInv'
<1>1. ASSUME NEW c \in Commands,
             Submit(c) \/ DropSubmit(c) \/ SupervisorStep(c) \/ ChildExits(c)
      PROVE  GateInv'
  BY <1>1, SubmitInv, DropSubmitInv, SupervisorStepInv, ChildExitsInv
<1>2. ASSUME NEW p \in Requests,
             \/ RequestStep(p) \/ TimerStep(p) \/ EventStep(p)
             \/ \E d \in Deciders : DecisionStep(p, d)
      PROVE  GateInv'
  BY <1>2, RequestStepInv, TimerStepInv, DecisionStepInv
<1>3. ASSUME NEW d \in Callers,
             \/ OperatorStep(d) \/ CancelSignal(d) \/ CancelDrop(d)
             \/ \E c \in Commands : CancelCall(d, c)
      PROVE  GateInv'
  BY <1>3, OperatorStepInv, CancelEndInv, CancelCallInv
<1>4. CASE UNCHANGED allVars
  <2>1. PermInv'
    BY <1>4, StutterInv DEF GateInv, allVars
  <2>2. /\ GateTypeOK' /\ StartupInv' /\ RequestedInv'
        /\ SupervisedInv' /\ SpawnIsApproved' /\ CleanExit'
    BY <1>4, <2>1 DEF allVars, permVars, GateInv, PermInv, GateTypeOK, StartupInv,
       RequestedInv, SupervisedInv, SpawnIsApproved, CleanExit
  <2> QED
    BY <2>1, <2>2 DEF GateInv
<1> QED
  BY <1>1, <1>2, <1>3, <1>4, GateCrashInv, BootCrashInv, SweepPermissionsInv, SweepCommandsInv
     DEF GateNext

\* The gateway's inductive invariant holds throughout: submissions, supervisors, cancels,
\* the permission service below them, crashes and startup sweeps keep each other right.
THEOREM GateInvariance == GateSpec => []GateInv
<1>1. GateInv /\ [GateNext]_allVars => GateInv'
  BY GateNextInv
<1> QED
  BY <1>1, GateInitInv, PTL DEF GateSpec

\* Type correctness of the gateway.
THEOREM GateTypeCorrect == GateSpec => []GateTypeOK
<1>1. GateInv => GateTypeOK
  BY DEF GateInv
<1> QED
  BY <1>1, GateInvariance, PTL

\* A command runs only with its approval and its row on record (mark_running comes before
\* the spawn, and the spawn after the answer).
THEOREM ChildrenAreAuthorised == GateSpec => []ChildIsAuthorised
<1>1. GateInv => ChildIsAuthorised
  BY DEF GateInv, SupervisedInv, ChildIsAuthorised, ChildIsOnRecord
<1> QED
  BY <1>1, GateInvariance, PTL

\* A supervisor that ended and settled its request leaves no registry entry, no live child
\* and no approvable request behind (deregister).
THEOREM ExitsAreClean == GateSpec => []CleanExit
<1>1. GateInv => CleanExit
  BY DEF GateInv
<1> QED
  BY <1>1, GateInvariance, PTL

-----------------------------------------------------------------------------
(* The startup sweep *)

\* Between the sweeps no command's row is written but by the sweep of the commands.
LEMMA SweepOnly ==
  ASSUME GateInv, [GateNext]_allVars, boot = "commands", NEW c \in Requests, cmd'[c] # cmd[c]
  PROVE  row'[c] # "pending"
<1>1. \A k \in Commands : sup[k] \in {"idle", "gone"} /\ ~up
  BY DEF GateInv, StartupInv
<1>2. ASSUME NEW k \in Commands,
             Submit(k) \/ DropSubmit(k) \/ SupervisorStep(k) \/ ChildExits(k)
      PROVE  cmd' = cmd
  BY <1>1, <1>2 DEF Submit, DropSubmit, SupervisorStep, ChildExits, AppendCommand,
     RegisterRunning, SubmitFails, Supervise, AwaitAnswer, AwaitCancel, Finalize, MarkRunning,
     Spawn, RecordSpawnFailure, PublishStarted, Abort, LoopCancel, LoopTimeout,
     LoopPersistenceError, LoopExit, FinishCommand, Deregister, Deregistered
<1>3. ASSUME NEW p \in Requests,
             \/ RequestStep(p) \/ TimerStep(p) \/ EventStep(p)
             \/ \E d \in Deciders : DecisionStep(p, d)
      PROVE  cmd' = cmd
  BY <1>3 DEF RequestStep, TimerStep, EventStep, DecisionStep, gateVars, cmdVars
<1>4. ASSUME NEW d \in Callers,
             \/ OperatorStep(d) \/ CancelSignal(d) \/ CancelDrop(d)
             \/ \E k \in Commands : CancelCall(d, k)
      PROVE  cmd' = cmd
  BY <1>4 DEF OperatorStep, CancelSignal, CancelDrop, CancelCall, gateVars, cmdVars
<1>5. CASE GateCrash \/ BootCrash \/ SweepPermissions \/ UNCHANGED allVars
  BY <1>5 DEF GateCrash, BootCrash, SweepPermissions, allVars, cmdVars
<1>6. CASE SweepCommands
  <2>1. ReconcileCommands
    BY <1>6 DEF SweepCommands
  <2>2. c \in Unfinished
    BY <2>1 DEF ReconcileCommands, Commands
  <2> QED
    BY <2>1, <2>2, ReconcileCommandsLemma
<1> QED
  BY <1>2, <1>3, <1>4, <1>5, <1>6 DEF GateNext

\* The startup sweep never fails a command while leaving its request approvable, in
\* whichever order the best-effort sweeps succeed (reconcile_orphaned_commands).
THEOREM SweepsFreePermissions == GateSpec => SweepFreesPermission
<1>1. GateInv /\ [GateNext]_allVars
        => [\A c \in Requests :
              boot = "commands" /\ cmd'[c] # cmd[c] => row'[c] # "pending"]_allVars
  BY SweepOnly
<1> QED
  BY <1>1, GateInvariance, PTL DEF GateSpec, SweepFreesPermission

-----------------------------------------------------------------------------
(* The permission service under the gateway *)

\* What the service promises on its own holds under the gateway too, whose supervisors,
\* cancel calls and second startup sweep decide requests as well: one decision on record,
\* and nobody is told of another.
THEOREM RecordUnderGateway == GateSpec => [](AuditTrail /\ ToldIsOnRecord)
<1>1. GateInv => AuditTrail /\ ToldIsOnRecord
  BY DEF GateInv, PermInv, ToldIsOnRecord
<1> QED
  BY <1>1, GateInvariance, PTL

\* No step of the gateway rewrites a decided row: not a cancel call, not a supervisor's
\* exit, not the sweep of the commands.
LEMMA GateDecidedStays ==
  ASSUME GateInv, [GateNext]_allVars, NEW p \in Requests, row[p] \in Terminal
  PROVE  row'[p] = row[p]
<1>1. PermInv /\ row[p] \notin {"absent", "pending"}
  BY DEF GateInv, Outcomes, Terminal
<1>2. ASSUME [Next]_permVars PROVE row'[p] = row[p]
  BY <1>1, <1>2, DecidedStays
<1>3. ASSUME NEW c \in Commands, DropSubmit(c) PROVE row'[p] = row[p]
  <2>1. CASE Drop(c) \/ DropDuringInsert(c)
    BY <1>2, <2>1 DEF Next, OutsideStep, Commands
  <2> QED
    BY <1>3, <2>1 DEF DropSubmit, permVars
<1>4. ASSUME NEW c \in Commands, SupervisorStep(c) PROVE row'[p] = row[p]
  <2>1. CASE RegisterRunning(c) \/ AwaitAnswer(c) \/ AwaitCancel(c)
    BY <2>1 DEF RegisterRunning, AwaitAnswer, AwaitCancel, Request, TakeAnswer, Drop, permVars,
         rowVars
  <2>2. CASE Deregister(c) \/ Deregistered(c)
    BY <2>2 DEF Deregister, Deregistered, permVars, rowVars
  <2>3. CASE AppendCommand(c) \/ SubmitFails(c) \/ Supervise(c) \/ Finalize(c) \/ MarkRunning(c)
               \/ Spawn(c) \/ RecordSpawnFailure(c) \/ PublishStarted(c) \/ Abort(c)
               \/ LoopCancel(c) \/ LoopTimeout(c) \/ LoopPersistenceError(c) \/ LoopExit(c)
               \/ FinishCommand(c)
    BY <2>3 DEF AppendCommand, SubmitFails, Supervise, Finalize, MarkRunning, Spawn,
         RecordSpawnFailure, PublishStarted, Abort, LoopCancel, LoopTimeout,
         LoopPersistenceError, LoopExit, FinishCommand, permVars
  <2> QED
    BY <1>4, <2>1, <2>2, <2>3 DEF SupervisorStep
<1>5. ASSUME NEW q \in Requests,
             \/ RequestStep(q) \/ TimerStep(q) \/ EventStep(q)
             \/ \E d \in Deciders : DecisionStep(q, d)
      PROVE  row'[p] = row[p]
  BY <1>2, <1>5 DEF RequestStep, TimerStep, EventStep, DecisionStep, Next, AskerStep, ServiceStep
<1>6. ASSUME NEW d \in Callers,
             \/ OperatorStep(d) \/ CancelSignal(d) \/ CancelDrop(d)
             \/ \E c \in Commands : CancelCall(d, c)
      PROVE  row'[p] = row[p]
  BY <1>6 DEF OperatorStep, OperatorCall, CancelSignal, CancelDrop, CancelCall, permVars, rowVars
<1>7. CASE GateCrash \/ BootCrash
  BY <1>7 DEF GateCrash, Crash, BootCrash, rowVars
<1>8. CASE SweepPermissions \/ SweepCommands
  BY <1>1, <1>8, ReconcileLemma, ReconcileCommandsLemma
     DEF SweepPermissions, SweepCommands, rowVars
<1>9. ASSUME NEW c \in Commands, Submit(c) \/ ChildExits(c) PROVE row'[p] = row[p]
  BY <1>9 DEF Submit, ChildExits, permVars
<1>10. CASE UNCHANGED allVars
  BY <1>10 DEF allVars, permVars
<1> QED
  BY <1>3, <1>4, <1>5, <1>6, <1>7, <1>8, <1>9, <1>10 DEF GateNext

\* A decision is final under the gateway: a command's approval cannot be taken back nor its
\* refusal overturned, by any of the gateway's own deciders.
THEOREM DecidedOnceUnderGateway == GateSpec => DecidedOnce
<1>1. GateInv /\ [GateNext]_allVars
        => [\A p \in Requests : row[p] \in Terminal => row'[p] = row[p]]_permVars
  BY GateDecidedStays
<1> QED
  BY <1>1, GateInvariance, PTL DEF GateSpec, DecidedOnce

=============================================================================
