------------------------- MODULE Permissions_proofs -------------------------
(***************************************************************************)
(* Machine-checked proofs about Permissions, for any set of requests, any  *)
(* set of callers and any number of crashes.                               *)
(***************************************************************************)
EXTENDS Permissions, TLAPS

-----------------------------------------------------------------------------
(* Decision rows *)

\* The decision rows of a request that had none.
LEMMA FirstDecision ==
  ASSUME NEW o \in Outcomes
  PROVE  Append(<<>>, o) = <<o>> /\ <<o>> \in Seq(Outcomes)
  OBVIOUS

\* Recording the first decision of a request keeps the audit trail.
LEMMA RecordLemma ==
  ASSUME PermInv, NEW p \in Requests, NEW o \in Outcomes, row[p] \notin Terminal, Record(p, o)
  PROVE  /\ row' \in [Requests -> {"absent", "pending"} \cup Terminal]
         /\ decisions' \in [Requests -> Seq(Outcomes)]
         /\ AuditTrail'
<1>1. row' \in [Requests -> {"absent", "pending"} \cup Terminal]
  BY DEF PermInv, TypeOK, Record, Terminal
<1>2. decisions[p] = <<>>
  BY DEF PermInv, AuditTrail
<1>3. decisions' = [decisions EXCEPT ![p] = <<o>>]
  BY <1>2, FirstDecision DEF PermInv, TypeOK, Record
<1>4. decisions' \in [Requests -> Seq(Outcomes)]
  BY <1>3, FirstDecision DEF PermInv, TypeOK
<1>5. AuditTrail'
  BY <1>3 DEF PermInv, TypeOK, AuditTrail, Record, Terminal
<1> QED
  BY <1>1, <1>4, <1>5

-----------------------------------------------------------------------------
(* Each action preserves the invariant *)

LEMMA InitInv == Init => PermInv
<1> SUFFICES ASSUME Init PROVE PermInv
  OBVIOUS
<1>1. TypeOK
  <2>1. decisions \in [Requests -> Seq(Outcomes)]
    BY DEF Init
  <2>2. up \in BOOLEAN /\ crashes \in 0..MaxCrashes
    BY CrashAssumption DEF Init
  <2> QED
    BY <2>1, <2>2 DEF Init, TypeOK, Stages, AskerStates
<1>2. TasksInv /\ AuditTrail /\ AnswerIsOnRecord /\ AnnouncedIsOnRecord /\ SweptIsSettled
  BY DEF Init, TasksInv, AuditTrail, AnswerIsOnRecord, AnnouncedIsOnRecord, SweptIsSettled,
         Outcomes, Terminal
<1> QED
  BY <1>1, <1>2 DEF PermInv

LEMMA DecideCommitInv ==
  ASSUME PermInv, NEW p \in Requests, NEW d \in Deciders, DecideCommit(p, d)
  PROVE  PermInv'
<1> USE DEF rowVars, askVars, taskVars, sweepVars, bootVars
<1>1. TypeOK'
  <2>1. verdict[p][d] \in Outcomes /\ row[p] \notin Terminal
    BY DEF PermInv, TasksInv, DecideCommit, Decidable, Outcomes, Terminal
  <2>2. /\ row' \in [Requests -> {"absent", "pending"} \cup Terminal]
        /\ decisions' \in [Requests -> Seq(Outcomes)]
    BY <2>1, RecordLemma DEF DecideCommit
  <2>3. stage' \in [Requests -> [Deciders -> Stages]]
    BY DEF PermInv, TypeOK, DecideCommit, Stages
  <2> QED
    BY <2>2, <2>3 DEF PermInv, TypeOK, DecideCommit
<1>2. TasksInv'
  BY DEF PermInv, TypeOK, TasksInv, DecideCommit, Outcomes, Terminal, Decidable, Record
<1>3. AuditTrail'
  <2>1. verdict[p][d] \in Outcomes /\ row[p] \notin Terminal
    BY DEF PermInv, TasksInv, DecideCommit, Decidable, Outcomes, Terminal
  <2> QED
    BY <2>1, RecordLemma DEF DecideCommit
<1>4. AnswerIsOnRecord'
  BY DEF PermInv, TypeOK, AnswerIsOnRecord, TasksInv, DecideCommit, Outcomes, Terminal,
          Decidable, Record
<1>5. AnnouncedIsOnRecord'
  BY DEF PermInv, TypeOK, AnnouncedIsOnRecord, TasksInv, DecideCommit, Outcomes, Decidable,
          Record
<1>6. SweptIsSettled'
  BY DEF PermInv, TypeOK, SweptIsSettled, DecideCommit, Outcomes, Terminal, Decidable,
          Record
<1> QED
  BY <1>1, <1>2, <1>3, <1>4, <1>5, <1>6 DEF PermInv

LEMMA DecideConflictInv ==
  ASSUME PermInv, NEW p \in Requests, NEW d \in Deciders, DecideConflict(p, d)
  PROVE  PermInv'
<1> USE DEF rowVars, askVars, taskVars, sweepVars, bootVars
<1>1. TypeOK'
  BY DEF PermInv, TypeOK, DecideConflict, Finish, After, Outcomes, Terminal, Stages,
          Results, AskerStates, Asking
<1>2. TasksInv'
  BY DEF PermInv, TypeOK, TasksInv, DecideConflict, Finish, After, Outcomes, Terminal
<1>3. AuditTrail'
  BY DEF PermInv, TypeOK, AuditTrail, DecideConflict, Finish, After, Outcomes, Terminal
<1>4. AnswerIsOnRecord'
  BY DEF PermInv, TypeOK, AnswerIsOnRecord, DecideConflict, Finish, After, Outcomes,
          Terminal
<1>5. AnnouncedIsOnRecord'
  BY DEF PermInv, TypeOK, AnnouncedIsOnRecord, DecideConflict, Finish, After, Outcomes
<1>6. SweptIsSettled'
  BY DEF PermInv, TypeOK, SweptIsSettled, DecideConflict, Finish, After, Outcomes, Terminal
<1> QED
  BY <1>1, <1>2, <1>3, <1>4, <1>5, <1>6 DEF PermInv

LEMMA DecideFailInv ==
  ASSUME PermInv, NEW p \in Requests, NEW d \in Deciders, DecideFail(p, d)
  PROVE  PermInv'
<1> USE DEF rowVars, askVars, taskVars, sweepVars, bootVars
<1>1. TypeOK'
  BY DEF PermInv, TypeOK, DecideFail, Finish, After, Outcomes, Terminal, Stages, Results,
          AskerStates, Asking
<1>2. TasksInv'
  BY DEF PermInv, TypeOK, TasksInv, DecideFail, Finish, After, Outcomes, Terminal
<1>3. AuditTrail'
  BY DEF PermInv, TypeOK, AuditTrail, DecideFail, Finish, After, Outcomes, Terminal
<1>4. AnswerIsOnRecord'
  BY DEF PermInv, TypeOK, AnswerIsOnRecord, DecideFail, Finish, After, Outcomes, Terminal
<1>5. AnnouncedIsOnRecord'
  BY DEF PermInv, TypeOK, AnnouncedIsOnRecord, DecideFail, Finish, After, Outcomes
<1>6. SweptIsSettled'
  BY DEF PermInv, TypeOK, SweptIsSettled, DecideFail, Finish, After, Outcomes, Terminal
<1> QED
  BY <1>1, <1>2, <1>3, <1>4, <1>5, <1>6 DEF PermInv

LEMMA DecideFireInv ==
  ASSUME PermInv, NEW p \in Requests, NEW d \in Deciders, DecideFire(p, d)
  PROVE  PermInv'
<1> USE DEF rowVars, askVars, taskVars, sweepVars, bootVars
<1>1. TypeOK'
  BY DEF PermInv, TypeOK, TasksInv, DecideFire, Answer, Outcomes, Terminal, Stages,
          Results, AskerStates, Asking
<1>2. TasksInv'
  BY DEF PermInv, TypeOK, TasksInv, DecideFire, Answer, Outcomes, Terminal
<1>3. AuditTrail'
  BY DEF PermInv, TypeOK, AuditTrail, DecideFire, Answer, Outcomes, Terminal
<1>4. AnswerIsOnRecord'
  BY DEF PermInv, TypeOK, AnswerIsOnRecord, TasksInv, DecideFire, Answer, Outcomes, Terminal
<1>5. AnnouncedIsOnRecord'
  BY DEF PermInv, TypeOK, AnnouncedIsOnRecord, DecideFire, Answer, Outcomes
<1>6. SweptIsSettled'
  BY DEF PermInv, TypeOK, SweptIsSettled, DecideFire, Answer, Outcomes, Terminal
<1> QED
  BY <1>1, <1>2, <1>3, <1>4, <1>5, <1>6 DEF PermInv

LEMMA DecidePublishInv ==
  ASSUME PermInv, NEW p \in Requests, NEW d \in Deciders, DecidePublish(p, d)
  PROVE  PermInv'
<1> USE DEF rowVars, askVars, taskVars, sweepVars, bootVars
<1>1. TypeOK'
  BY DEF PermInv, TypeOK, TasksInv, DecidePublish, Finish, After, Outcomes, Terminal,
          Stages, Results, AskerStates, Asking
<1>2. TasksInv'
  BY DEF PermInv, TypeOK, TasksInv, DecidePublish, Finish, After, Outcomes, Terminal
<1>3. AuditTrail'
  BY DEF PermInv, TypeOK, AuditTrail, DecidePublish, Finish, After, Outcomes, Terminal
<1>4. AnswerIsOnRecord'
  BY DEF PermInv, TypeOK, AnswerIsOnRecord, DecidePublish, Finish, After, Outcomes, Terminal
<1>5. AnnouncedIsOnRecord'
  BY DEF PermInv, TypeOK, AnnouncedIsOnRecord, TasksInv, DecidePublish, Finish, After,
          Outcomes
<1>6. SweptIsSettled'
  BY DEF PermInv, TypeOK, SweptIsSettled, DecidePublish, Finish, After, Outcomes, Terminal
<1> QED
  BY <1>1, <1>2, <1>3, <1>4, <1>5, <1>6 DEF PermInv

LEMMA TimerElapseInv ==
  ASSUME PermInv, NEW p \in Requests, TimerElapse(p)
  PROVE  PermInv'
<1> USE DEF rowVars, askVars, taskVars, sweepVars, bootVars
<1>1. TypeOK'
  BY DEF PermInv, TypeOK, TimerElapse, Decide, Configs, Outcomes, Terminal, Stages,
          Results, AskerStates, Asking, Deciders
<1>2. TasksInv'
  BY DEF PermInv, TypeOK, TasksInv, TimerElapse, Decide, Configs, Outcomes, Terminal,
          Deciders
<1>3. AuditTrail'
  BY DEF PermInv, TypeOK, AuditTrail, TimerElapse, Decide, Configs, Outcomes, Terminal
<1>4. AnswerIsOnRecord'
  BY DEF PermInv, TypeOK, AnswerIsOnRecord, TimerElapse, Decide, Configs, Outcomes, Terminal
<1>5. AnnouncedIsOnRecord'
  BY DEF PermInv, TypeOK, AnnouncedIsOnRecord, TimerElapse, Decide, Configs, Outcomes
<1>6. SweptIsSettled'
  BY DEF PermInv, TypeOK, SweptIsSettled, TimerElapse, Decide, Configs, Outcomes, Terminal
<1> QED
  BY <1>1, <1>2, <1>3, <1>4, <1>5, <1>6 DEF PermInv

LEMMA TimerFallbackInv ==
  ASSUME PermInv, NEW p \in Requests, TimerFallback(p)
  PROVE  PermInv'
<1> USE DEF rowVars, askVars, taskVars, sweepVars, bootVars
<1>1. TypeOK'
  BY DEF PermInv, TypeOK, TimerFallback, Answer, FallbackAnswer, Outcomes, Terminal,
          Stages, Results, AskerStates, Asking, Deciders
<1>2. TasksInv'
  BY DEF PermInv, TypeOK, TasksInv, TimerFallback, Answer, FallbackAnswer, Outcomes,
          Terminal, Deciders
<1>3. AuditTrail'
  BY DEF PermInv, TypeOK, AuditTrail, TimerFallback, Answer, FallbackAnswer, Outcomes,
          Terminal
<1>4. AnswerIsOnRecord'
  BY DEF PermInv, TypeOK, AnswerIsOnRecord, TimerFallback, Answer, FallbackAnswer,
          Outcomes, Terminal
<1>5. AnnouncedIsOnRecord'
  BY DEF PermInv, TypeOK, AnnouncedIsOnRecord, TimerFallback, Answer, FallbackAnswer,
          Outcomes
<1>6. SweptIsSettled'
  BY DEF PermInv, TypeOK, SweptIsSettled, TimerFallback, Answer, FallbackAnswer, Outcomes,
          Terminal
<1> QED
  BY <1>1, <1>2, <1>3, <1>4, <1>5, <1>6 DEF PermInv

LEMMA RequestInv ==
  ASSUME PermInv, NEW p \in Requests, Request(p)
  PROVE  PermInv'
<1> USE DEF rowVars, askVars, taskVars, sweepVars, bootVars
<1>1. TypeOK'
  BY DEF PermInv, TypeOK, Request, Outcomes, Terminal, Stages, Results, AskerStates, Asking
<1>2. TasksInv'
  BY DEF PermInv, TypeOK, TasksInv, Request, Outcomes, Terminal
<1>3. AuditTrail'
  BY DEF PermInv, TypeOK, AuditTrail, Request, Outcomes, Terminal
<1>4. AnswerIsOnRecord'
  BY DEF PermInv, TypeOK, AnswerIsOnRecord, Request, Outcomes, Terminal
<1>5. AnnouncedIsOnRecord'
  BY DEF PermInv, TypeOK, AnnouncedIsOnRecord, Request, Outcomes
<1>6. SweptIsSettled'
  BY DEF PermInv, TypeOK, SweptIsSettled, Request, Outcomes, Terminal
<1> QED
  BY <1>1, <1>2, <1>3, <1>4, <1>5, <1>6 DEF PermInv

LEMMA InsertInv ==
  ASSUME PermInv, NEW p \in Requests, Insert(p)
  PROVE  PermInv'
<1> USE DEF rowVars, askVars, taskVars, sweepVars, bootVars
<1>1. TypeOK'
  BY DEF PermInv, TypeOK, Insert, Outcomes, Terminal, Stages, Results, AskerStates, Asking
<1>2. TasksInv'
  BY DEF PermInv, TypeOK, TasksInv, Insert, Outcomes, Terminal
<1>3. AuditTrail'
  BY DEF PermInv, TypeOK, AuditTrail, TasksInv, Insert, Outcomes, Terminal
<1>4. AnswerIsOnRecord'
  BY DEF PermInv, TypeOK, AnswerIsOnRecord, TasksInv, Insert, Outcomes, Terminal
<1>5. AnnouncedIsOnRecord'
  BY DEF PermInv, TypeOK, AnnouncedIsOnRecord, TasksInv, Insert, Outcomes
<1>6. SweptIsSettled'
  BY DEF PermInv, TypeOK, SweptIsSettled, TasksInv, Insert, Outcomes, Terminal
<1> QED
  BY <1>1, <1>2, <1>3, <1>4, <1>5, <1>6 DEF PermInv

LEMMA PolicyInsertInv ==
  ASSUME PermInv, NEW p \in Requests, PolicyInsert(p)
  PROVE  PermInv'
<1> USE DEF rowVars, askVars, taskVars, sweepVars, bootVars
<1>1. TypeOK'
  <2>1. row[p] \notin Terminal
    BY DEF PermInv, TasksInv, PolicyInsert, Outcomes, Terminal
  <2>2. /\ row' \in [Requests -> {"absent", "pending"} \cup Terminal]
        /\ decisions' \in [Requests -> Seq(Outcomes)]
    BY <2>1, RecordLemma DEF PolicyInsert, Outcomes
  <2>3. asker' \in [Requests -> AskerStates]
    BY DEF PermInv, TypeOK, PolicyInsert, AskerStates, Asking
  <2>4. creating' \in SUBSET Requests
    BY DEF PermInv, TypeOK, PolicyInsert
  <2> QED
    BY <2>2, <2>3, <2>4 DEF PermInv, TypeOK, PolicyInsert
<1>2. TasksInv'
  BY DEF PermInv, TypeOK, TasksInv, PolicyInsert, Outcomes, Terminal, Record
<1>3. AuditTrail'
  <2>1. row[p] \notin Terminal
    BY DEF PermInv, TasksInv, PolicyInsert, Outcomes, Terminal
  <2> QED
    BY <2>1, RecordLemma DEF PolicyInsert, Outcomes
<1>4. AnswerIsOnRecord'
  BY DEF PermInv, TypeOK, AnswerIsOnRecord, TasksInv, PolicyInsert, Outcomes, Terminal,
          Record
<1>5. AnnouncedIsOnRecord'
  BY DEF PermInv, TypeOK, AnnouncedIsOnRecord, TasksInv, PolicyInsert, Outcomes, Record
<1>6. SweptIsSettled'
  BY DEF PermInv, TypeOK, SweptIsSettled, PolicyInsert, Outcomes, Terminal, Record
<1> QED
  BY <1>1, <1>2, <1>3, <1>4, <1>5, <1>6 DEF PermInv

LEMMA InsertFailInv ==
  ASSUME PermInv, NEW p \in Requests, InsertFail(p)
  PROVE  PermInv'
<1> USE DEF rowVars, askVars, taskVars, sweepVars, bootVars
<1>1. TypeOK'
  BY DEF PermInv, TypeOK, InsertFail, Outcomes, Terminal, Stages, Results, AskerStates,
          Asking
<1>2. TasksInv'
  BY DEF PermInv, TypeOK, TasksInv, InsertFail, Outcomes, Terminal
<1>3. AuditTrail'
  BY DEF PermInv, TypeOK, AuditTrail, InsertFail, Outcomes, Terminal
<1>4. AnswerIsOnRecord'
  BY DEF PermInv, TypeOK, AnswerIsOnRecord, InsertFail, Outcomes, Terminal
<1>5. AnnouncedIsOnRecord'
  BY DEF PermInv, TypeOK, AnnouncedIsOnRecord, InsertFail, Outcomes
<1>6. SweptIsSettled'
  BY DEF PermInv, TypeOK, SweptIsSettled, InsertFail, Outcomes, Terminal
<1> QED
  BY <1>1, <1>2, <1>3, <1>4, <1>5, <1>6 DEF PermInv

LEMMA RegisterInv ==
  ASSUME PermInv, NEW p \in Requests, Register(p)
  PROVE  PermInv'
<1> USE DEF rowVars, askVars, taskVars, sweepVars, bootVars
<1>1. TypeOK'
  <2>1. waiter' \in SUBSET Requests /\ creating' \in SUBSET Requests
    BY DEF PermInv, TypeOK, Register
  <2>2. asker' \in [Requests -> AskerStates]
    BY DEF PermInv, TypeOK, Register, AskerStates, Asking
  <2> QED
    BY <2>1, <2>2 DEF PermInv, TypeOK, Register
<1>2. TasksInv'
  BY DEF PermInv, TypeOK, TasksInv, Register, Outcomes, Terminal
<1>3. AuditTrail'
  BY DEF PermInv, TypeOK, AuditTrail, Register, Outcomes, Terminal
<1>4. AnswerIsOnRecord'
  BY DEF PermInv, TypeOK, AnswerIsOnRecord, Register, Outcomes, Terminal
<1>5. AnnouncedIsOnRecord'
  BY DEF PermInv, TypeOK, AnnouncedIsOnRecord, Register, Outcomes
<1>6. SweptIsSettled'
  BY DEF PermInv, TypeOK, SweptIsSettled, Register, Outcomes, Terminal
<1> QED
  BY <1>1, <1>2, <1>3, <1>4, <1>5, <1>6 DEF PermInv

LEMMA PublishCreatedInv ==
  ASSUME PermInv, NEW p \in Requests, PublishCreated(p)
  PROVE  PermInv'
<1> USE DEF rowVars, askVars, taskVars, sweepVars, bootVars
<1>1. TypeOK'
  BY DEF PermInv, TypeOK, PublishCreated, Outcomes, Terminal, Stages, Results, AskerStates,
          Asking
<1>2. TasksInv'
  BY DEF PermInv, TypeOK, TasksInv, PublishCreated, Outcomes, Terminal
<1>3. AuditTrail'
  BY DEF PermInv, TypeOK, AuditTrail, PublishCreated, Outcomes, Terminal
<1>4. AnswerIsOnRecord'
  BY DEF PermInv, TypeOK, AnswerIsOnRecord, PublishCreated, Outcomes, Terminal
<1>5. AnnouncedIsOnRecord'
  BY DEF PermInv, TypeOK, AnnouncedIsOnRecord, PublishCreated, Outcomes
<1>6. SweptIsSettled'
  BY DEF PermInv, TypeOK, SweptIsSettled, PublishCreated, Outcomes, Terminal
<1> QED
  BY <1>1, <1>2, <1>3, <1>4, <1>5, <1>6 DEF PermInv

LEMMA SettleInv ==
  ASSUME PermInv, NEW p \in Requests, Settle(p)
  PROVE  PermInv'
<1> USE DEF rowVars, askVars, taskVars, sweepVars, bootVars
<1>1. TypeOK'
  <2>1. waiter' \in SUBSET Requests
    BY DEF PermInv, TypeOK, Settle, SettleWaiter, Answer
  <2>2. answer' \in [Requests -> {"none"} \cup Outcomes]
    BY DEF PermInv, TypeOK, Settle, SettleWaiter, Answer, Raced, Outcomes, Terminal
  <2>3. asker' \in [Requests -> AskerStates]
    BY DEF PermInv, TypeOK, Settle, AskerStates, Asking
  <2>4. stage' \in [Requests -> [Deciders -> Stages]]
    BY DEF PermInv, TypeOK, Settle, Stages
  <2> QED
    BY <2>1, <2>2, <2>3, <2>4 DEF PermInv, TypeOK, Settle
<1>2. TasksInv'
  BY DEF PermInv, TypeOK, TasksInv, Settle, SettleWaiter, Answer, Raced, Outcomes,
          Terminal, Deciders
<1>3. AuditTrail'
  BY DEF PermInv, TypeOK, AuditTrail, Settle, SettleWaiter, Answer, Raced, Outcomes,
          Terminal
<1>4. AnswerIsOnRecord'
  BY DEF PermInv, TypeOK, AnswerIsOnRecord, Settle, SettleWaiter, Answer, Raced, Outcomes,
          Terminal
<1>5. AnnouncedIsOnRecord'
  BY DEF PermInv, TypeOK, AnnouncedIsOnRecord, Settle, SettleWaiter, Answer, Raced, Outcomes
<1>6. SweptIsSettled'
  BY DEF PermInv, TypeOK, SweptIsSettled, Settle, SettleWaiter, Answer, Raced, Outcomes,
          Terminal
<1> QED
  BY <1>1, <1>2, <1>3, <1>4, <1>5, <1>6 DEF PermInv

LEMMA PolicyReturnInv ==
  ASSUME PermInv, NEW p \in Requests, PolicyReturn(p)
  PROVE  PermInv'
<1> USE DEF rowVars, askVars, taskVars, sweepVars, bootVars
<1>1. TypeOK'
  <2>1. announced' \in [Requests -> SUBSET ({"created"} \cup Outcomes)]
    <3>1. CASE announced' = [announced EXCEPT ![p] = @ \cup {"approved"}]
      BY <3>1 DEF PermInv, TypeOK, Outcomes
    <3>2. CASE UNCHANGED announced
      BY <3>2 DEF PermInv, TypeOK
    <3> QED
      BY <3>1, <3>2 DEF PolicyReturn
  <2>2. asker' \in [Requests -> AskerStates]
    BY DEF PermInv, TypeOK, PolicyReturn, AskerStates, Asking
  <2>3. answer' \in [Requests -> {"none"} \cup Outcomes]
    BY DEF PermInv, TypeOK, PolicyReturn, Outcomes
  <2> QED
    BY <2>1, <2>2, <2>3 DEF PermInv, TypeOK, PolicyReturn
<1>2. TasksInv'
  BY DEF PermInv, TypeOK, TasksInv, PolicyReturn, Outcomes, Terminal
<1>3. AuditTrail'
  BY DEF PermInv, TypeOK, AuditTrail, PolicyReturn, Outcomes, Terminal
<1>4. AnswerIsOnRecord'
  BY DEF PermInv, TypeOK, AnswerIsOnRecord, TasksInv, PolicyReturn, Outcomes, Terminal
<1>5. AnnouncedIsOnRecord'
  <2>1. row' = row /\ row[p] = "approved"
    BY DEF PermInv, TasksInv, PolicyReturn
  <2>2. CASE announced' = [announced EXCEPT ![p] = @ \cup {"approved"}]
    BY <2>1, <2>2 DEF PermInv, TypeOK, AnnouncedIsOnRecord
  <2>3. CASE UNCHANGED announced
    BY <2>1, <2>3 DEF PermInv, AnnouncedIsOnRecord
  <2> QED
    BY <2>2, <2>3 DEF PolicyReturn
<1>6. SweptIsSettled'
  BY DEF PermInv, TypeOK, SweptIsSettled, PolicyReturn, Outcomes, Terminal
<1> QED
  BY <1>1, <1>2, <1>3, <1>4, <1>5, <1>6 DEF PermInv

LEMMA TakeAnswerInv ==
  ASSUME PermInv, NEW p \in Requests, TakeAnswer(p)
  PROVE  PermInv'
<1> USE DEF rowVars, askVars, taskVars, sweepVars, bootVars
<1>1. TypeOK'
  BY DEF PermInv, TypeOK, TakeAnswer, Outcomes, Terminal, Stages, Results, AskerStates,
          Asking, Parked
<1>2. TasksInv'
  BY DEF PermInv, TypeOK, TasksInv, TakeAnswer, Outcomes, Terminal, Parked
<1>3. AuditTrail'
  BY DEF PermInv, TypeOK, AuditTrail, TakeAnswer, Outcomes, Terminal
<1>4. AnswerIsOnRecord'
  BY DEF PermInv, TypeOK, AnswerIsOnRecord, TakeAnswer, Outcomes, Terminal
<1>5. AnnouncedIsOnRecord'
  BY DEF PermInv, TypeOK, AnnouncedIsOnRecord, TakeAnswer, Outcomes
<1>6. SweptIsSettled'
  BY DEF PermInv, TypeOK, SweptIsSettled, TakeAnswer, Outcomes, Terminal
<1> QED
  BY <1>1, <1>2, <1>3, <1>4, <1>5, <1>6 DEF PermInv

LEMMA OwnerCancelInv ==
  ASSUME PermInv, NEW p \in Requests, OwnerCancel(p)
  PROVE  PermInv'
<1> USE DEF rowVars, askVars, taskVars, sweepVars, bootVars
<1>1. TypeOK'
  BY DEF PermInv, TypeOK, OwnerCancel, Decide, Outcomes, Terminal, Stages, Results,
          AskerStates, Asking, Deciders
<1>2. TasksInv'
  BY DEF PermInv, TypeOK, TasksInv, OwnerCancel, Decide, Outcomes, Terminal, Deciders
<1>3. AuditTrail'
  BY DEF PermInv, TypeOK, AuditTrail, OwnerCancel, Decide, Outcomes, Terminal
<1>4. AnswerIsOnRecord'
  BY DEF PermInv, TypeOK, AnswerIsOnRecord, OwnerCancel, Decide, Outcomes, Terminal
<1>5. AnnouncedIsOnRecord'
  BY DEF PermInv, TypeOK, AnnouncedIsOnRecord, OwnerCancel, Decide, Outcomes
<1>6. SweptIsSettled'
  BY DEF PermInv, TypeOK, SweptIsSettled, OwnerCancel, Decide, Outcomes, Terminal
<1> QED
  BY <1>1, <1>2, <1>3, <1>4, <1>5, <1>6 DEF PermInv

LEMMA OwnerCancelledInv ==
  ASSUME PermInv, NEW p \in Requests, OwnerCancelled(p)
  PROVE  PermInv'
<1> USE DEF rowVars, askVars, taskVars, sweepVars, bootVars
<1>1. TypeOK'
  BY DEF PermInv, TypeOK, OwnerCancelled, Outcomes, Terminal, Stages, Results, AskerStates,
          Asking, Deciders
<1>2. TasksInv'
  BY DEF PermInv, TypeOK, TasksInv, OwnerCancelled, Outcomes, Terminal, Deciders, Results
<1>3. AuditTrail'
  BY DEF PermInv, TypeOK, AuditTrail, OwnerCancelled, Outcomes, Terminal
<1>4. AnswerIsOnRecord'
  BY DEF PermInv, TypeOK, AnswerIsOnRecord, OwnerCancelled, Outcomes, Terminal
<1>5. AnnouncedIsOnRecord'
  BY DEF PermInv, TypeOK, AnnouncedIsOnRecord, OwnerCancelled, Outcomes
<1>6. SweptIsSettled'
  BY DEF PermInv, TypeOK, SweptIsSettled, OwnerCancelled, Outcomes, Terminal
<1> QED
  BY <1>1, <1>2, <1>3, <1>4, <1>5, <1>6 DEF PermInv

LEMMA DropInv ==
  ASSUME PermInv, NEW p \in Requests, Drop(p)
  PROVE  PermInv'
<1> USE DEF rowVars, askVars, taskVars, sweepVars, bootVars
<1>1. TypeOK'
  <2>1. announced' \in [Requests -> SUBSET ({"created"} \cup Outcomes)]
    <3>1. CASE announced' = [announced EXCEPT ![p] = @ \cup {"approved"}]
      BY <3>1 DEF PermInv, TypeOK, Outcomes
    <3>2. CASE UNCHANGED announced
      BY <3>2 DEF PermInv, TypeOK
    <3> QED
      BY <3>1, <3>2 DEF Drop
  <2>2. asker' \in [Requests -> AskerStates]
    BY DEF PermInv, TypeOK, Drop, AskerStates
  <2> QED
    BY <2>1, <2>2 DEF PermInv, TypeOK, Drop
<1>2. TasksInv'
  BY DEF PermInv, TypeOK, TasksInv, Drop, Outcomes, Terminal
<1>3. AuditTrail'
  BY DEF PermInv, TypeOK, AuditTrail, Drop, Outcomes, Terminal
<1>4. AnswerIsOnRecord'
  BY DEF PermInv, TypeOK, AnswerIsOnRecord, Drop, Outcomes, Terminal
<1>5. AnnouncedIsOnRecord'
  <2>1. row' = row
    BY DEF Drop
  <2>2. CASE UNCHANGED announced
    BY <2>1, <2>2 DEF PermInv, AnnouncedIsOnRecord
  <2>3. CASE asker[p] = "policy" /\ announced' = [announced EXCEPT ![p] = @ \cup {"approved"}]
    <3>1. row[p] = "approved"
      BY <2>3 DEF PermInv, TasksInv
    <3> QED
      BY <2>1, <2>3, <3>1 DEF PermInv, TypeOK, AnnouncedIsOnRecord
  <2> QED
    BY <2>2, <2>3 DEF Drop
<1>6. SweptIsSettled'
  BY DEF PermInv, TypeOK, SweptIsSettled, Drop, Outcomes, Terminal
<1> QED
  BY <1>1, <1>2, <1>3, <1>4, <1>5, <1>6 DEF PermInv

LEMMA DropDuringInsertInv ==
  ASSUME PermInv, NEW p \in Requests, DropDuringInsert(p)
  PROVE  PermInv'
<1> USE DEF rowVars, askVars, taskVars, sweepVars, bootVars
<1>1. row[p] = "absent" /\ row[p] \notin Terminal
  BY DEF PermInv, TasksInv, DropDuringInsert, Outcomes, Terminal
<1>2. /\ row' \in [Requests -> {"absent", "pending"} \cup Terminal]
      /\ decisions' \in [Requests -> Seq(Outcomes)]
      /\ AuditTrail'
      /\ row' = [row EXCEPT ![p] = row'[p]]
  <2>1. CASE ByPolicy(p)
    <3>1. Record(p, "approved") /\ "approved" \in Outcomes
      BY <2>1 DEF DropDuringInsert, Outcomes
    <3>2. row' = [row EXCEPT ![p] = row'[p]]
      BY <3>1 DEF PermInv, TypeOK, Record
    <3> QED
      BY <1>1, <3>1, <3>2, RecordLemma
  <2>2. CASE ~ByPolicy(p)
    <3>1. row' = [row EXCEPT ![p] = "pending"] /\ decisions' = decisions
      BY <2>2 DEF DropDuringInsert
    <3>2. row' \in [Requests -> {"absent", "pending"} \cup Terminal] /\ row'[p] = "pending"
      BY <3>1 DEF PermInv, TypeOK
    <3>3. AuditTrail'
      BY <1>1, <3>1 DEF PermInv, TypeOK, AuditTrail, Outcomes, Terminal
    <3> QED
      BY <3>1, <3>2, <3>3 DEF PermInv, TypeOK
  <2> QED
    BY <2>1, <2>2
<1>3. asker' \in [Requests -> AskerStates]
  BY DEF PermInv, TypeOK, DropDuringInsert, AskerStates
<1>4. TypeOK'
  BY <1>2, <1>3 DEF PermInv, TypeOK, DropDuringInsert
<1>5. TasksInv'
  BY <1>1, <1>2 DEF PermInv, TypeOK, TasksInv, DropDuringInsert, Outcomes, Terminal
<1>6. AnswerIsOnRecord'
  BY <1>1, <1>2 DEF PermInv, TypeOK, AnswerIsOnRecord, DropDuringInsert
<1>7. AnnouncedIsOnRecord'
  BY <1>1, <1>2 DEF PermInv, TypeOK, AnnouncedIsOnRecord, DropDuringInsert, Outcomes
<1>8. SweptIsSettled'
  BY <1>1, <1>2 DEF PermInv, TypeOK, SweptIsSettled, DropDuringInsert
<1> QED
  BY <1>2, <1>4, <1>5, <1>6, <1>7, <1>8 DEF PermInv

LEMMA OperatorCallInv ==
  ASSUME PermInv, NEW p \in Requests, NEW c \in Callers, NEW o \in Outcomes, OperatorCall(p, c, o)
  PROVE  PermInv'
<1> USE DEF rowVars, askVars, taskVars, sweepVars, bootVars
<1>1. TypeOK'
  BY DEF PermInv, TypeOK, OperatorCall, Decide, Outcomes, Terminal, Stages, Results,
          AskerStates, Asking, Deciders
<1>2. TasksInv'
  BY DEF PermInv, TypeOK, TasksInv, OperatorCall, Decide, Outcomes, Terminal, Deciders
<1>3. AuditTrail'
  BY DEF PermInv, TypeOK, AuditTrail, OperatorCall, Decide, Outcomes, Terminal
<1>4. AnswerIsOnRecord'
  BY DEF PermInv, TypeOK, AnswerIsOnRecord, OperatorCall, Decide, Outcomes, Terminal
<1>5. AnnouncedIsOnRecord'
  BY DEF PermInv, TypeOK, AnnouncedIsOnRecord, OperatorCall, Decide, Outcomes
<1>6. SweptIsSettled'
  BY DEF PermInv, TypeOK, SweptIsSettled, OperatorCall, Decide, Outcomes, Terminal
<1> QED
  BY <1>1, <1>2, <1>3, <1>4, <1>5, <1>6 DEF PermInv

LEMMA SweepReadInv ==
  ASSUME PermInv, NEW c \in Callers, SweepRead(c)
  PROVE  PermInv'
<1> USE DEF rowVars, askVars, taskVars, sweepVars, bootVars
<1>1. TypeOK'
  <2>1. {p \in Acp : row[p] = "pending"} \in SUBSET Requests
    BY AcpAssumption
  <2>2. sweep' \in [Callers -> SUBSET Requests]
    BY <2>1 DEF PermInv, TypeOK, SweepRead
  <2>3. swept' \in [Callers -> SUBSET Requests]
    BY DEF PermInv, TypeOK, SweepRead
  <2> QED
    BY <2>2, <2>3 DEF PermInv, TypeOK, SweepRead
<1>2. TasksInv'
  BY DEF PermInv, TypeOK, TasksInv, SweepRead, Outcomes, Terminal, Deciders
<1>3. AuditTrail'
  BY DEF PermInv, TypeOK, AuditTrail, SweepRead, Outcomes, Terminal
<1>4. AnswerIsOnRecord'
  BY DEF PermInv, TypeOK, AnswerIsOnRecord, SweepRead, Outcomes, Terminal
<1>5. AnnouncedIsOnRecord'
  BY DEF PermInv, TypeOK, AnnouncedIsOnRecord, SweepRead, Outcomes
<1>6. SweptIsSettled'
  BY DEF PermInv, TypeOK, SweptIsSettled, SweepRead, Outcomes, Terminal
<1> QED
  BY <1>1, <1>2, <1>3, <1>4, <1>5, <1>6 DEF PermInv

LEMMA SweepCancelInv ==
  ASSUME PermInv, NEW p \in Requests, NEW c \in Callers, SweepCancel(p, c)
  PROVE  PermInv'
<1> USE DEF rowVars, askVars, taskVars, sweepVars, bootVars
<1>1. TypeOK'
  BY DEF PermInv, TypeOK, SweepCancel, Decide, Outcomes, Terminal, Stages, Results,
          AskerStates, Asking, Deciders
<1>2. TasksInv'
  BY DEF PermInv, TypeOK, TasksInv, SweepCancel, Decide, Outcomes, Terminal, Deciders
<1>3. AuditTrail'
  BY DEF PermInv, TypeOK, AuditTrail, SweepCancel, Decide, Outcomes, Terminal
<1>4. AnswerIsOnRecord'
  BY DEF PermInv, TypeOK, AnswerIsOnRecord, SweepCancel, Decide, Outcomes, Terminal
<1>5. AnnouncedIsOnRecord'
  BY DEF PermInv, TypeOK, AnnouncedIsOnRecord, SweepCancel, Decide, Outcomes
<1>6. SweptIsSettled'
  BY DEF PermInv, TypeOK, SweptIsSettled, SweepCancel, Decide, Outcomes, Terminal
<1> QED
  BY <1>1, <1>2, <1>3, <1>4, <1>5, <1>6 DEF PermInv

LEMMA SweepAdvanceInv ==
  ASSUME PermInv, NEW p \in Requests, NEW c \in Callers, SweepAdvance(p, c)
  PROVE  PermInv'
<1> USE DEF rowVars, askVars, taskVars, sweepVars, bootVars
<1>1. TypeOK'
  <2>1. stage' \in [Requests -> [Deciders -> Stages]]
    BY DEF PermInv, TypeOK, SweepAdvance, Stages, Deciders
  <2>2. sweep' \in [Callers -> SUBSET Requests] /\ swept' \in [Callers -> SUBSET Requests]
    <3>1. CASE SettledBy(stage[p][c])
      <4>1. sweep[c] \ {p} \in SUBSET Requests /\ swept[c] \cup {p} \in SUBSET Requests
        BY DEF PermInv, TypeOK
      <4> QED
        BY <3>1, <4>1 DEF PermInv, TypeOK, SweepAdvance
    <3>2. CASE ~SettledBy(stage[p][c])
      BY <3>2 DEF PermInv, TypeOK, SweepAdvance
    <3> QED
      BY <3>1, <3>2
  <2> QED
    BY <2>1, <2>2 DEF PermInv, TypeOK, SweepAdvance
<1>2. TasksInv'
  BY DEF PermInv, TypeOK, TasksInv, SweepAdvance, SettledBy, Outcomes, Terminal, Deciders
<1>3. AuditTrail'
  BY DEF PermInv, TypeOK, AuditTrail, SweepAdvance, SettledBy, Outcomes, Terminal
<1>4. AnswerIsOnRecord'
  BY DEF PermInv, TypeOK, AnswerIsOnRecord, SweepAdvance, SettledBy, Outcomes, Terminal
<1>5. AnnouncedIsOnRecord'
  BY DEF PermInv, TypeOK, AnnouncedIsOnRecord, SweepAdvance, SettledBy, Outcomes
<1>6. SweptIsSettled'
  <2>1. row' = row
    BY DEF SweepAdvance
  <2>2. CASE SettledBy(stage[p][c])
    <3>1. row[p] \in Terminal
      BY <2>2 DEF PermInv, TasksInv, SettledBy, Deciders
    <3>2. swept' = [swept EXCEPT ![c] = swept[c] \cup {p}]
      BY <2>2 DEF SweepAdvance
    <3>3. \A e \in Callers : \A q \in swept'[e] : q \in swept[e] \/ q = p
      BY <3>2 DEF PermInv, TypeOK
    <3> QED
      BY <2>1, <3>1, <3>3 DEF PermInv, SweptIsSettled
  <2>3. CASE ~SettledBy(stage[p][c])
    BY <2>1, <2>3 DEF PermInv, SweptIsSettled, SweepAdvance
  <2> QED
    BY <2>2, <2>3
<1> QED
  BY <1>1, <1>2, <1>3, <1>4, <1>5, <1>6 DEF PermInv

LEMMA SweepDropInv ==
  ASSUME PermInv, NEW c \in Callers, SweepDrop(c)
  PROVE  PermInv'
<1> USE DEF rowVars, askVars, taskVars, sweepVars, bootVars
<1>1. TypeOK'
  BY DEF PermInv, TypeOK, SweepDrop, Outcomes, Terminal, Stages, Results, AskerStates,
          Asking, Deciders
<1>2. TasksInv'
  BY DEF PermInv, TypeOK, TasksInv, SweepDrop, Outcomes, Terminal, Deciders
<1>3. AuditTrail'
  BY DEF PermInv, TypeOK, AuditTrail, SweepDrop, Outcomes, Terminal
<1>4. AnswerIsOnRecord'
  BY DEF PermInv, TypeOK, AnswerIsOnRecord, SweepDrop, Outcomes, Terminal
<1>5. AnnouncedIsOnRecord'
  BY DEF PermInv, TypeOK, AnnouncedIsOnRecord, SweepDrop, Outcomes
<1>6. SweptIsSettled'
  BY DEF PermInv, TypeOK, SweptIsSettled, SweepDrop, Outcomes, Terminal
<1> QED
  BY <1>1, <1>2, <1>3, <1>4, <1>5, <1>6 DEF PermInv

LEMMA CrashInv ==
  ASSUME PermInv, Crash
  PROVE  PermInv'
<1> USE DEF rowVars, askVars, taskVars, sweepVars, bootVars
<1>1. TypeOK'
  <2>1. crashes' \in 0..MaxCrashes
    BY CrashAssumption DEF PermInv, TypeOK, Crash
  <2>2. asker' \in [Requests -> AskerStates]
    BY DEF PermInv, TypeOK, Crash, AskerStates
  <2>3. /\ stage' \in [Requests -> [Deciders -> Stages]]
        /\ verdict' \in [Requests -> [Deciders -> {"none"} \cup Outcomes]]
    BY DEF Crash, Stages
  <2>4. /\ waiter' \in SUBSET Requests /\ creating' \in SUBSET Requests
        /\ answer' \in [Requests -> {"none"} \cup Outcomes]
        /\ sweep' \in [Callers -> SUBSET Requests] /\ swept' \in [Callers -> SUBSET Requests]
    BY DEF Crash
  <2>5. up' \in BOOLEAN
    BY DEF Crash
  <2> QED
    BY <2>1, <2>2, <2>3, <2>4, <2>5 DEF PermInv, TypeOK, Crash
<1>2. TasksInv'
  BY DEF PermInv, TypeOK, TasksInv, Crash, Outcomes, Terminal
<1>3. AuditTrail'
  BY DEF PermInv, TypeOK, AuditTrail, Crash, Outcomes, Terminal
<1>4. AnswerIsOnRecord'
  BY DEF PermInv, TypeOK, AnswerIsOnRecord, Crash, Outcomes, Terminal
<1>5. AnnouncedIsOnRecord'
  BY DEF PermInv, TypeOK, AnnouncedIsOnRecord, Crash, Outcomes
<1>6. SweptIsSettled'
  BY DEF PermInv, TypeOK, SweptIsSettled, Crash, Outcomes, Terminal
<1> QED
  BY <1>1, <1>2, <1>3, <1>4, <1>5, <1>6 DEF PermInv

LEMMA ReconcileLemma ==
  ASSUME PermInv, ReconcilePermissions
  PROVE  /\ row' \in [Requests -> {"absent", "pending"} \cup Terminal]
         /\ decisions' \in [Requests -> Seq(Outcomes)]
         /\ AuditTrail'
         /\ \A p \in Requests : row[p] # "pending" => row'[p] = row[p]
         /\ \A p \in Requests : row[p] = "pending" => row'[p] \in Terminal
<1>1. \A p \in Requests : Orphaned(p) \in Outcomes
  BY DEF Orphaned, Outcomes
<1>2. ASSUME NEW p \in Requests, p \in Orphans
      PROVE  row'[p] = Orphaned(p) /\ decisions'[p] = <<Orphaned(p)>>
  <2>1. decisions[p] = <<>>
    BY <1>2 DEF PermInv, AuditTrail, Orphans, Outcomes, Terminal
  <2> QED
    BY <1>1, <1>2, <2>1, FirstDecision DEF ReconcilePermissions
<1>3. ASSUME NEW p \in Requests, p \notin Orphans
      PROVE  row'[p] = row[p] /\ decisions'[p] = decisions[p]
  BY <1>3 DEF ReconcilePermissions
<1>4. \A p \in Requests : p \in Orphans <=> row[p] = "pending"
  BY DEF Orphans
<1>5. \A p \in Requests : decisions'[p] \in Seq(Outcomes)
  BY <1>1, <1>2, <1>3, FirstDecision DEF PermInv, TypeOK
<1>6. decisions' \in [Requests -> Seq(Outcomes)]
  BY <1>5 DEF ReconcilePermissions
<1>7. row' \in [Requests -> {"absent", "pending"} \cup Terminal]
  BY <1>1 DEF PermInv, TypeOK, ReconcilePermissions, Terminal
<1>8. AuditTrail'
  BY <1>1, <1>2, <1>3 DEF PermInv, AuditTrail, Terminal
<1> QED
  BY <1>1, <1>2, <1>3, <1>4, <1>6, <1>7, <1>8 DEF Terminal

LEMMA BootInv ==
  ASSUME PermInv, Boot
  PROVE  PermInv'
<1> USE DEF askVars, taskVars, sweepVars
<1>1. /\ row' \in [Requests -> {"absent", "pending"} \cup Terminal]
      /\ decisions' \in [Requests -> Seq(Outcomes)]
      /\ AuditTrail'
      /\ \A p \in Requests : row[p] # "pending" => row'[p] = row[p]
      /\ \A p \in Requests : row[p] = "pending" => row'[p] \in {"pending"} \cup Terminal
  <2>1. CASE ReconcilePermissions
    BY <2>1, ReconcileLemma
  <2>2. CASE UNCHANGED rowVars
    BY <2>2 DEF PermInv, TypeOK, AuditTrail, rowVars
  <2> QED
    BY <2>1, <2>2 DEF Boot
<1>2. up' \in BOOLEAN
  BY DEF Boot
<1>3. TypeOK'
  BY <1>1, <1>2 DEF PermInv, TypeOK, Boot
<1>4. TasksInv'
  BY <1>1 DEF PermInv, TasksInv, Boot, Outcomes, Terminal
<1>5. AnswerIsOnRecord'
  BY <1>1 DEF PermInv, AnswerIsOnRecord, Boot
<1>6. AnnouncedIsOnRecord'
  BY <1>1 DEF PermInv, AnnouncedIsOnRecord, Boot, Outcomes
<1>7. SweptIsSettled'
  BY <1>1 DEF PermInv, SweptIsSettled, TypeOK, Boot, Outcomes, Terminal
<1> QED
  BY <1>1, <1>3, <1>4, <1>5, <1>6, <1>7 DEF PermInv

-----------------------------------------------------------------------------
(* The steps together *)

LEMMA StutterInv ==
  ASSUME PermInv, UNCHANGED permVars
  PROVE  PermInv'
  BY DEF permVars, PermInv, TypeOK, TasksInv, AuditTrail, AnswerIsOnRecord,
         AnnouncedIsOnRecord, SweptIsSettled

LEMMA ServiceInv ==
  ASSUME PermInv, NEW p \in Requests, ServiceStep(p)
  PROVE  PermInv'
<1>1. ASSUME NEW d \in Deciders, DecideStep(p, d) PROVE PermInv'
  BY <1>1, DecideCommitInv, DecideConflictInv, DecideFailInv, DecideFireInv, DecidePublishInv
     DEF DecideStep
<1>2. CASE TimerElapse(p) \/ TimerFallback(p)
  BY <1>2, TimerElapseInv, TimerFallbackInv
<1>3. CASE PublishCreated(p)
  BY <1>3, PublishCreatedInv
<1>4. ASSUME NEW d \in Callers, SweepCancel(p, d) \/ SweepAdvance(p, d) PROVE PermInv'
  BY <1>4, SweepCancelInv, SweepAdvanceInv
<1> QED
  BY <1>1, <1>2, <1>3, <1>4 DEF ServiceStep

LEMMA AskerInv ==
  ASSUME PermInv, NEW p \in Requests, AskerStep(p)
  PROVE  PermInv'
  BY InsertInv, PolicyInsertInv, InsertFailInv, RegisterInv, SettleInv, PolicyReturnInv,
     TakeAnswerInv, OwnerCancelledInv DEF AskerStep

LEMMA OutsideInv ==
  ASSUME PermInv, OutsideStep
  PROVE  PermInv'
<1>1. ASSUME NEW p \in Requests, Request(p) \/ OwnerCancel(p) \/ Drop(p) \/ DropDuringInsert(p)
      PROVE  PermInv'
  BY <1>1, RequestInv, OwnerCancelInv, DropInv, DropDuringInsertInv
<1>2. ASSUME NEW p \in Requests, NEW d \in Callers, NEW o \in {"approved", "denied"},
             OperatorCall(p, d, o)
      PROVE  PermInv'
  <2>1. o \in Outcomes
    BY DEF Outcomes
  <2> QED
    BY <1>2, <2>1, OperatorCallInv
<1>3. ASSUME NEW d \in Callers, SweepRead(d) \/ SweepDrop(d) PROVE PermInv'
  BY <1>3, SweepReadInv, SweepDropInv
<1> QED
  BY <1>1, <1>2, <1>3, CrashInv DEF OutsideStep

LEMMA NextInv ==
  ASSUME PermInv, [Next]_permVars
  PROVE  PermInv'
  BY ServiceInv, AskerInv, OutsideInv, BootInv, StutterInv DEF Next

\* The inductive invariant holds throughout: the service's parts keep each other right
\* in every interleaving of deciders, sweeps, timers, dropped askers and crashes.
THEOREM Invariance == Spec => []PermInv
<1>1. PermInv /\ [Next]_permVars => PermInv'
  BY NextInv
<1> QED
  BY <1>1, InitInv, PTL DEF Spec

\* Type correctness of the service.
THEOREM TypeCorrect == Spec => []TypeOK
<1>1. PermInv => TypeOK
  BY DEF PermInv
<1> QED
  BY <1>1, Invariance, PTL

\* A terminal request has exactly one decision row, whoever raced to decide it
\* (decide_permission, append_approved_permission_request, reconcile_orphaned_permissions).
THEOREM OneDecisionOnRecord == Spec => []AuditTrail
<1>1. PermInv => AuditTrail
  BY DEF PermInv
<1> QED
  BY <1>1, Invariance, PTL

\* No asker is told of an approval or a denial that is not on record
\* (decide_and_publish, settle_waiter_if_already_decided, the timer's fallback).
THEOREM AnswersAreOnRecord == Spec => []AnswerIsOnRecord
<1>1. PermInv => AnswerIsOnRecord
  BY DEF PermInv
<1> QED
  BY <1>1, Invariance, PTL

\* No decision is published live that is not on record (decide_and_publish).
THEOREM AnnouncementsAreOnRecord == Spec => []AnnouncedIsOnRecord
<1>1. PermInv => AnnouncedIsOnRecord
  BY DEF PermInv
<1> QED
  BY <1>1, Invariance, PTL

\* Askers and subscribers hear of the decision on record, and of no other.
THEOREM OneTruth == Spec => []ToldIsOnRecord
<1>1. AnswerIsOnRecord /\ AnnouncedIsOnRecord => ToldIsOnRecord
  BY DEF ToldIsOnRecord
<1> QED
  BY <1>1, AnswersAreOnRecord, AnnouncementsAreOnRecord, PTL

\* A session sweep settles every request it has been through, however many there are
\* (cancel_pending_for_session).
THEOREM SweepsSettle == Spec => []SweptIsSettled
<1>1. PermInv => SweptIsSettled
  BY DEF PermInv
<1> QED
  BY <1>1, Invariance, PTL

-----------------------------------------------------------------------------
(* No step changes a decided row *)

\* One step of the service changes no decided row: the guard of decide_permission, the
\* fresh id of an insert and the status filter of the startup sweep.
LEMMA DecidedStays ==
  ASSUME PermInv, [Next]_permVars, NEW p \in Requests, row[p] \in Terminal
  PROVE  row'[p] = row[p]
<1> USE DEF rowVars, permVars
<1>1. ASSUME NEW q \in Requests, ServiceStep(q) PROVE row'[p] = row[p]
  BY <1>1 DEF ServiceStep, DecideStep, DecideCommit, DecideConflict, DecideFail, DecideFire,
       DecidePublish, Decidable, Record, TimerElapse, TimerFallback, PublishCreated,
       SweepCancel, SweepAdvance, PermInv, TypeOK, Outcomes, Terminal
<1>2. ASSUME NEW q \in Requests, AskerStep(q) PROVE row'[p] = row[p]
  BY <1>2 DEF AskerStep, Insert, PolicyInsert, Record, InsertFail, Register, Settle,
       PolicyReturn, TakeAnswer, OwnerCancelled, PermInv, TypeOK, TasksInv, Outcomes, Terminal
<1>3. CASE OutsideStep
  BY <1>3 DEF OutsideStep, Request, OwnerCancel, Drop, DropDuringInsert, Record, OperatorCall,
       SweepRead, SweepDrop, Crash, PermInv, TypeOK, TasksInv, Outcomes, Terminal
<1>4. CASE Boot
  <2>1. row[p] # "pending"
    BY DEF Outcomes, Terminal
  <2> QED
    BY <1>4, <2>1, ReconcileLemma DEF Boot
<1> QED
  BY <1>1, <1>2, <1>3, <1>4 DEF Next

\* A decided request is never decided again, in any step of any behaviour.
THEOREM DecisionsAreFinal == Spec => DecidedOnce
<1>1. PermInv /\ [Next]_permVars
        => [\A p \in Requests : row[p] \in Terminal => row'[p] = row[p]]_permVars
  BY DecidedStays
<1> QED
  BY <1>1, Invariance, PTL DEF Spec, DecidedOnce

=============================================================================
