------------------------- MODULE PromptTurns_proofs -------------------------
(***************************************************************************)
(* Machine-checked proofs about prompt turns, for any sessions, prompts    *)
(* and bridges and any number of interventions and faults.                 *)
(***************************************************************************)
EXTENDS PromptTurns, TLAPS

-----------------------------------------------------------------------------
(* Each action preserves the invariant *)

\* The end of a cancel request leaves its state well typed.
LEMMA CancelResetType ==
  ASSUME TurnTypeOK, NEW s \in Sessions, CancelReset(s)
  PROVE  /\ cancel' \in [Sessions -> {"none", "waiting", "ok"}]
         /\ waited' \in [Sessions -> SUBSET Prompts]
         /\ seen' \in [Sessions -> [Prompts -> {"none"} \cup Terminal]]
<1>1. [p \in Prompts |-> "none"] \in [Prompts -> {"none"} \cup Terminal]
  OBVIOUS
<1>2. seen' \in [Sessions -> [Prompts -> {"none"} \cup Terminal]]
  BY Zenon DEF TurnTypeOK, CancelReset
<1> QED
  BY DEF TurnTypeOK, CancelReset

LEMMA SubmitCheckInv ==
  ASSUME TurnInv, NEW p \in Prompts, SubmitCheck(p)
  PROVE  TurnInv'
<1>1. TurnTypeOK'
  BY DEF TurnInv, TurnTypeOK, LifeTypeOK, Stops, SubmitStates, SubmitCheck, SubmitTo,
     Submitting, lifeVars, sessVars, taskVars, cancelVars
<1>2. BridgesInv'
  BY DEF TurnInv, BridgesInv, SubmitCheck, lifeVars
<1>3. StepsInv'
  BY DEF TurnInv, StepsInv, SubmitCheck, SubmitTo, taskVars
<1>4. RegistryInv'
  BY DEF TurnInv, StepsInv, RegistryInv, Driven, SubmitCheck, SubmitTo, lifeVars, taskVars
<1>5. LockInv'
  BY DEF TurnInv, RegistryInv, LockInv, Driven, SubmitCheck, SubmitTo, MayDispatch, Of, Live,
     Submitting, lifeVars, taskVars
<1>6. OneDriven'
  BY DEF TurnInv, RegistryInv, OneDriven, Driven, SubmitCheck, SubmitTo, MayDispatch, Of, Live,
     Submitting, lifeVars, taskVars
<1>7. SeenInv' /\ CancelTellsTheTruth'
  BY DEF TurnInv, SeenInv, CancelTellsTheTruth, SubmitCheck, cancelVars
<1> QED
  BY <1>1, <1>2, <1>3, <1>4, <1>5, <1>6, <1>7 DEF TurnInv

LEMMA SubmitWarmInv ==
  ASSUME TurnInv, NEW p \in Prompts, SubmitWarm(p)
  PROVE  TurnInv'
<1>1. TurnTypeOK'
  BY DEF TurnInv, TurnTypeOK, LifeTypeOK, Submitting, SubmitStates, SubmitWarm, SubmitTo,
     lifeVars, sessVars, taskVars, cancelVars
<1>2. BridgesInv'
  BY DEF TurnInv, BridgesInv, SubmitWarm, lifeVars
<1>3. StepsInv'
  BY DEF TurnInv, StepsInv, SubmitWarm, SubmitTo, taskVars
<1>4. RegistryInv'
  BY DEF TurnInv, RegistryInv, Driven, SubmitWarm, SubmitTo, lifeVars, taskVars
<1>5. LockInv'
  BY DEF TurnInv, LockInv, Driven, Submitting, SubmitWarm, SubmitTo, lifeVars, taskVars
<1>6. OneDriven'
  BY DEF TurnInv, OneDriven, Driven, SubmitWarm, SubmitTo, lifeVars, taskVars
<1>7. SeenInv' /\ CancelTellsTheTruth'
  BY DEF TurnInv, SeenInv, CancelTellsTheTruth, SubmitWarm, cancelVars
<1> QED
  BY <1>1, <1>2, <1>3, <1>4, <1>5, <1>6, <1>7 DEF TurnInv

LEMMA SubmitReattachInv ==
  ASSUME TurnInv, NEW p \in Prompts, SubmitReattach(p)
  PROVE  TurnInv'
<1>1. TurnTypeOK'
  BY DEF TurnInv, TurnTypeOK, LifeTypeOK, Stops, Submitting, SubmitStates, SubmitReattach,
     SubmitTo, lifeVars, sessVars, taskVars, cancelVars
<1>2. BridgesInv'
  BY DEF TurnInv, BridgesInv, SubmitReattach, lifeVars
<1>3. StepsInv'
  BY DEF TurnInv, StepsInv, SubmitReattach, SubmitTo, taskVars
<1>4. RegistryInv'
  BY DEF TurnInv, RegistryInv, Driven, SubmitReattach, SubmitTo, lifeVars, taskVars
<1>5. LockInv'
  BY DEF TurnInv, LockInv, Driven, Submitting, SubmitReattach, SubmitTo, lifeVars, taskVars
<1>6. OneDriven'
  BY DEF TurnInv, OneDriven, Driven, SubmitReattach, SubmitTo, lifeVars, taskVars
<1>7. SeenInv' /\ CancelTellsTheTruth'
  BY DEF TurnInv, SeenInv, CancelTellsTheTruth, SubmitReattach, cancelVars
<1> QED
  BY <1>1, <1>2, <1>3, <1>4, <1>5, <1>6, <1>7 DEF TurnInv

LEMMA SubmitAttachedInv ==
  ASSUME TurnInv, NEW p \in Prompts, SubmitAttached(p)
  PROVE  TurnInv'
<1>1. TurnTypeOK'
  BY BridgesAssumption, SessionOfAssumption DEF TurnInv, TurnTypeOK, LifeTypeOK, Prompts,
     Submitting, SubmitStates, SubmitAttached, SubmitTo, lifeVars, taskVars, cancelVars
<1>2. BridgesInv'
  BY DEF TurnInv, TurnTypeOK, LifeTypeOK, BridgesInv, SubmitAttached, lifeVars
<1>3. StepsInv'
  BY DEF TurnInv, StepsInv, SubmitAttached, SubmitTo, taskVars
<1>4. RegistryInv'
  BY DEF TurnInv, RegistryInv, Driven, SubmitAttached, SubmitTo, lifeVars, taskVars
<1>5. LockInv'
  BY DEF TurnInv, LockInv, Driven, Submitting, SubmitAttached, SubmitTo, lifeVars, taskVars
<1>6. OneDriven'
  BY DEF TurnInv, OneDriven, Driven, SubmitAttached, SubmitTo, lifeVars, taskVars
<1>7. SeenInv' /\ CancelTellsTheTruth'
  BY DEF TurnInv, SeenInv, CancelTellsTheTruth, SubmitAttached, cancelVars
<1> QED
  BY <1>1, <1>2, <1>3, <1>4, <1>5, <1>6, <1>7 DEF TurnInv

LEMMA SubmitActivateInv ==
  ASSUME TurnInv, NEW p \in Prompts, SubmitActivate(p)
  PROVE  TurnInv'
<1>1. TurnTypeOK'
  BY SessionOfAssumption DEF TurnInv, TurnTypeOK, LifeTypeOK, Prompts, Submitting,
     SubmitStates, SubmitActivate, SubmitTo, lifeVars, taskVars, cancelVars
<1>2. BridgesInv'
  BY DEF TurnInv, BridgesInv, SubmitActivate, lifeVars
<1>3. StepsInv'
  BY DEF TurnInv, StepsInv, SubmitActivate, SubmitTo, taskVars
<1>4. RegistryInv'
  BY DEF TurnInv, RegistryInv, Driven, SubmitActivate, SubmitTo, lifeVars, taskVars
<1>5. LockInv'
  BY DEF TurnInv, LockInv, Driven, Submitting, SubmitActivate, SubmitTo, lifeVars, taskVars
<1>6. OneDriven'
  BY DEF TurnInv, OneDriven, Driven, SubmitActivate, SubmitTo, lifeVars, taskVars
<1>7. SeenInv' /\ CancelTellsTheTruth'
  BY DEF TurnInv, SeenInv, CancelTellsTheTruth, SubmitActivate, cancelVars
<1> QED
  BY <1>1, <1>2, <1>3, <1>4, <1>5, <1>6, <1>7 DEF TurnInv

LEMMA SubmitInsertInv ==
  ASSUME TurnInv, NEW p \in Prompts, SubmitInsert(p)
  PROVE  TurnInv'
<1>1. TurnTypeOK'
  BY DEF TurnInv, TurnTypeOK, LifeTypeOK, Stops, InFlight, Submitting, SubmitStates,
     SubmitInsert, SubmitTo, lifeVars, sessVars, taskVars, cancelVars
<1>2. BridgesInv'
  BY DEF TurnInv, BridgesInv, SubmitInsert, lifeVars
<1>3. StepsInv'
  BY DEF TurnInv, TurnTypeOK, StepsInv, SubmitInsert, SubmitTo, taskVars
<1>4. RegistryInv'
  BY DEF TurnInv, StepsInv, RegistryInv, Driven, SubmitInsert, SubmitTo, lifeVars, taskVars
<1>5. LockInv'
  BY DEF TurnInv, LockInv, Driven, Submitting, SubmitInsert, SubmitTo, lifeVars, taskVars
<1>6. OneDriven'
  BY DEF TurnInv, LockInv, OneDriven, Driven, Submitting, SubmitInsert, SubmitTo, lifeVars,
     taskVars
<1>7. SeenInv' /\ CancelTellsTheTruth'
  BY DEF TurnInv, StepsInv, SeenInv, CancelTellsTheTruth, SubmitInsert, cancelVars
<1> QED
  BY <1>1, <1>2, <1>3, <1>4, <1>5, <1>6, <1>7 DEF TurnInv

LEMMA SubmitSpawnInv ==
  ASSUME TurnInv, NEW p \in Prompts, SubmitSpawn(p)
  PROVE  TurnInv'
<1>1. TurnTypeOK'
  BY DEF TurnInv, TurnTypeOK, LifeTypeOK, SubmitStates, Submitting, TaskStates, SubmitSpawn,
     SubmitTo, lifeVars, sessVars, cancelVars
<1>2. BridgesInv'
  BY DEF TurnInv, BridgesInv, SubmitSpawn, lifeVars
<1>3. StepsInv'
  BY DEF TurnInv, TurnTypeOK, StepsInv, SubmitSpawn, SubmitTo
<1>4. RegistryInv'
  BY DEF TurnInv, TurnTypeOK, RegistryInv, Driven, SubmitSpawn, SubmitTo, lifeVars
<1>5. LockInv'
  BY DEF TurnInv, LockInv, Driven, Submitting, SubmitSpawn, SubmitTo, lifeVars
<1>6. OneDriven'
  BY DEF TurnInv, LockInv, OneDriven, Driven, Submitting, SubmitSpawn, SubmitTo, lifeVars
<1>7. SeenInv' /\ CancelTellsTheTruth'
  BY DEF TurnInv, SeenInv, CancelTellsTheTruth, SubmitSpawn, cancelVars
<1> QED
  BY <1>1, <1>2, <1>3, <1>4, <1>5, <1>6, <1>7 DEF TurnInv

LEMMA SubmitRegisterInv ==
  ASSUME TurnInv, NEW p \in Prompts, SubmitRegister(p)
  PROVE  TurnInv'
<1>1. TurnTypeOK'
  BY DEF TurnInv, TurnTypeOK, LifeTypeOK, SubmitStates, SubmitRegister, SubmitTo, lifeVars,
     sessVars, cancelVars
<1>2. BridgesInv'
  BY DEF TurnInv, BridgesInv, SubmitRegister, lifeVars
<1>3. StepsInv'
  BY DEF TurnInv, StepsInv, SubmitRegister, SubmitTo
<1>4. RegistryInv'
  BY DEF TurnInv, RegistryInv, Driven, SubmitRegister, SubmitTo, lifeVars
<1>5. LockInv'
  BY DEF TurnInv, LockInv, Driven, Submitting, SubmitRegister, SubmitTo, lifeVars
<1>6. OneDriven'
  BY DEF TurnInv, OneDriven, Driven, SubmitRegister, SubmitTo, lifeVars
<1>7. SeenInv' /\ CancelTellsTheTruth'
  BY DEF TurnInv, SeenInv, CancelTellsTheTruth, SubmitRegister, cancelVars
<1> QED
  BY <1>1, <1>2, <1>3, <1>4, <1>5, <1>6, <1>7 DEF TurnInv

LEMMA SubmitRefusedInv ==
  ASSUME TurnInv, NEW p \in Prompts, SubmitRefused(p)
  PROVE  TurnInv'
<1>1. TurnTypeOK'
  BY BridgesAssumption DEF TurnInv, TurnTypeOK, LifeTypeOK, SubmitStates, SubmitRefused,
     SubmitEnds, SubmitTo, lifeVars, sessVars, taskVars, cancelVars
<1>2. BridgesInv'
  BY DEF TurnInv, TurnTypeOK, LifeTypeOK, BridgesInv, SubmitRefused, SubmitEnds, lifeVars
<1>3. StepsInv'
  BY DEF TurnInv, StepsInv, SubmitRefused, SubmitEnds, SubmitTo, taskVars
<1>4. RegistryInv'
  BY DEF TurnInv, StepsInv, RegistryInv, Driven, SubmitRefused, SubmitEnds, SubmitTo, lifeVars,
     taskVars
<1>5. LockInv'
  BY DEF TurnInv, LockInv, Driven, Submitting, SubmitRefused, SubmitEnds, SubmitTo, lifeVars,
     taskVars
<1>6. OneDriven'
  BY DEF TurnInv, LockInv, OneDriven, Driven, Submitting, SubmitRefused, SubmitEnds, SubmitTo,
     lifeVars, taskVars
<1>7. SeenInv' /\ CancelTellsTheTruth'
  BY DEF TurnInv, SeenInv, CancelTellsTheTruth, SubmitRefused, SubmitEnds, cancelVars
<1> QED
  BY <1>1, <1>2, <1>3, <1>4, <1>5, <1>6, <1>7 DEF TurnInv

LEMMA SubmitAbortsInv ==
  ASSUME TurnInv, NEW p \in Prompts, SubmitAborts(p)
  PROVE  TurnInv'
<1>1. TurnTypeOK'
  BY BridgesAssumption, EventsAssumption DEF TurnInv, TurnTypeOK, LifeTypeOK, SubmitStates,
     SubmitAborts, SubmitEnds, SubmitTo, Event, lifeVars, sessVars, taskVars, cancelVars
<1>2. BridgesInv'
  BY DEF TurnInv, TurnTypeOK, LifeTypeOK, BridgesInv, SubmitAborts, SubmitEnds, lifeVars
<1>3. StepsInv'
  BY DEF TurnInv, StepsInv, SubmitAborts, SubmitEnds, SubmitTo, taskVars
<1>4. RegistryInv'
  BY DEF TurnInv, StepsInv, RegistryInv, Driven, Submitting, SubmitAborts, SubmitEnds,
     SubmitTo, lifeVars, taskVars
<1>5. LockInv'
  BY DEF TurnInv, LockInv, Driven, SubmitAborts, SubmitEnds, SubmitTo, lifeVars, taskVars
<1>6. OneDriven'
  BY DEF TurnInv, LockInv, OneDriven, Driven, SubmitAborts, SubmitEnds, SubmitTo, lifeVars,
     taskVars
<1>7. SeenInv' /\ CancelTellsTheTruth'
  BY DEF TurnInv, SeenInv, CancelTellsTheTruth, SubmitAborts, SubmitEnds, cancelVars
<1> QED
  BY <1>1, <1>2, <1>3, <1>4, <1>5, <1>6, <1>7 DEF TurnInv

LEMMA TaskRunningInv ==
  ASSUME TurnInv, NEW p \in Prompts, TaskRunning(p)
  PROVE  TurnInv'
<1>1. TurnTypeOK'
  BY DEF TurnInv, TurnTypeOK, LifeTypeOK, Bridges, Stops, InFlight, Terminal, TaskStates,
     Teardowns, TaskRunning, TaskTo, lifeVars, sessVars, subVars, cancelVars
<1>2. BridgesInv'
  BY DEF TurnInv, BridgesInv, TaskRunning, lifeVars, subVars
<1>3. StepsInv'
  BY DEF TurnInv, TurnTypeOK, StepsInv, TaskRunning, TaskTo, subVars
<1>4. RegistryInv'
  BY DEF TurnInv, TurnTypeOK, RegistryInv, Driven, InFlight, TaskRunning, TaskTo, lifeVars,
     subVars
<1>5. LockInv'
  BY DEF TurnInv, TurnTypeOK, LockInv, Driven, InFlight, TaskRunning, TaskTo, lifeVars, subVars
<1>6. OneDriven'
  BY DEF TurnInv, TurnTypeOK, OneDriven, Driven, InFlight, TaskRunning, TaskTo, lifeVars,
     subVars
<1>7. SeenInv' /\ CancelTellsTheTruth'
  BY DEF TurnInv, TurnTypeOK, SeenInv, CancelTellsTheTruth, InFlight, TaskRunning, cancelVars
<1> QED
  BY <1>1, <1>2, <1>3, <1>4, <1>5, <1>6, <1>7 DEF TurnInv

LEMMA TaskAnsweredInv ==
  ASSUME TurnInv, NEW p \in Prompts, NEW o \in Verdicts, TaskAnswered(p, o)
  PROVE  TurnInv'
<1>1. TurnTypeOK'
  BY DEF TurnInv, TurnTypeOK, LifeTypeOK, TaskStates, TaskAnswered, TaskTo, lifeVars, sessVars,
     subVars, cancelVars
<1>2. BridgesInv'
  BY DEF TurnInv, BridgesInv, TaskAnswered, lifeVars, subVars
<1>3. StepsInv'
  BY DEF TurnInv, StepsInv, TaskAnswered, TaskTo, subVars
<1>4. RegistryInv'
  BY DEF TurnInv, RegistryInv, Driven, TaskAnswered, TaskTo, lifeVars, subVars
<1>5. LockInv'
  BY DEF TurnInv, LockInv, Driven, TaskAnswered, TaskTo, lifeVars, subVars
<1>6. OneDriven'
  BY DEF TurnInv, OneDriven, Driven, TaskAnswered, TaskTo, lifeVars, subVars
<1>7. SeenInv' /\ CancelTellsTheTruth'
  BY DEF TurnInv, SeenInv, CancelTellsTheTruth, TaskAnswered, cancelVars
<1> QED
  BY <1>1, <1>2, <1>3, <1>4, <1>5, <1>6, <1>7 DEF TurnInv

LEMMA TaskCancelledInv ==
  ASSUME TurnInv, NEW p \in Prompts, TaskCancelled(p)
  PROVE  TurnInv'
<1>1. TurnTypeOK'
  BY DEF TurnInv, TurnTypeOK, LifeTypeOK, TaskStates, TaskCancelled, TaskTo, lifeVars,
     sessVars, subVars, cancelVars
<1>2. BridgesInv'
  BY DEF TurnInv, BridgesInv, TaskCancelled, lifeVars, subVars
<1>3. StepsInv'
  BY DEF TurnInv, StepsInv, TaskCancelled, TaskTo, subVars
<1>4. RegistryInv'
  BY DEF TurnInv, RegistryInv, Driven, TaskCancelled, TaskTo, lifeVars, subVars
<1>5. LockInv'
  BY DEF TurnInv, LockInv, Driven, TaskCancelled, TaskTo, lifeVars, subVars
<1>6. OneDriven'
  BY DEF TurnInv, OneDriven, Driven, TaskCancelled, TaskTo, lifeVars, subVars
<1>7. SeenInv' /\ CancelTellsTheTruth'
  BY DEF TurnInv, SeenInv, CancelTellsTheTruth, TaskCancelled, cancelVars
<1> QED
  BY <1>1, <1>2, <1>3, <1>4, <1>5, <1>6, <1>7 DEF TurnInv

LEMMA TaskSettleInv ==
  ASSUME TurnInv, NEW p \in Prompts, TaskSettle(p)
  PROVE  TurnInv'
<1>0. /\ task[p] \in Verdicts \cup {"token"} /\ TerminalOutcome(p) \in Terminal /\ task[p] # "none"
      /\ row' = row \/ row' = [row EXCEPT ![p] = TerminalOutcome(p)]
  BY DEF TaskSettle, TerminalOutcome, Terminal, Verdicts
<1>1. TurnTypeOK'
  <2>1. row' \in [Prompts -> {"none", "deleted"} \cup InFlight \cup Terminal]
    BY <1>0 DEF TurnInv, TurnTypeOK
  <2>2. task' \in [Prompts -> TaskStates] /\ via' \in [Prompts -> 0 .. MaxBridges]
    BY BridgesAssumption DEF TurnInv, TurnTypeOK, TaskSettle, TaskEnds, TaskTo, TaskStates
  <2> QED
    BY <2>1, <2>2 DEF TurnInv, TurnTypeOK, LifeTypeOK, TaskSettle, TaskEnds, lifeVars,
       sessVars, cancelVars
<1>2. BridgesInv'
  BY DEF TurnInv, TurnTypeOK, LifeTypeOK, BridgesInv, TaskSettle, TaskEnds, lifeVars
<1>3. StepsInv'
  BY <1>0 DEF TurnInv, TurnTypeOK, StepsInv, TaskSettle, TaskEnds, TaskTo
<1>4. RegistryInv'
  BY DEF TurnInv, TurnTypeOK, RegistryInv, Driven, TaskSettle, TaskEnds, TaskTo, lifeVars
<1>5. LockInv'
  BY DEF TurnInv, TurnTypeOK, LockInv, Driven, TaskSettle, TaskEnds, TaskTo, lifeVars
<1>6. OneDriven'
  BY DEF TurnInv, TurnTypeOK, OneDriven, Driven, TaskSettle, TaskEnds, TaskTo, lifeVars
<1>7. SeenInv' /\ CancelTellsTheTruth'
  BY DEF TurnInv, TurnTypeOK, SeenInv, CancelTellsTheTruth, InFlight, TaskSettle, TaskEnds,
     Settles, ReplacesStall, TerminalOutcome, cancelVars
<1> QED
  BY <1>1, <1>2, <1>3, <1>4, <1>5, <1>6, <1>7 DEF TurnInv

LEMMA TaskSettleFailsInv ==
  ASSUME TurnInv, NEW p \in Prompts, TaskSettleFails(p)
  PROVE  TurnInv'
<1>1. TurnTypeOK'
  BY BridgesAssumption, EventsAssumption DEF TurnInv, TurnTypeOK, LifeTypeOK, TaskStates,
     TaskSettleFails, TaskEnds, TaskTo, Event, lifeVars, sessVars, cancelVars
<1>2. BridgesInv'
  BY DEF TurnInv, TurnTypeOK, LifeTypeOK, BridgesInv, TaskSettleFails, TaskEnds, lifeVars
<1>3. StepsInv'
  BY DEF TurnInv, StepsInv, Verdicts, TaskSettleFails, TaskEnds, TaskTo
<1>4. RegistryInv'
  BY DEF TurnInv, TurnTypeOK, RegistryInv, Driven, TaskSettleFails, TaskEnds, TaskTo, lifeVars
<1>5. LockInv'
  BY DEF TurnInv, BridgesInv, LockInv, Driven, TaskSettleFails, TaskEnds, TaskTo, lifeVars
<1>6. OneDriven'
  BY DEF TurnInv, BridgesInv, OneDriven, Driven, TaskSettleFails, TaskEnds, TaskTo, lifeVars
<1>7. SeenInv' /\ CancelTellsTheTruth'
  BY DEF TurnInv, SeenInv, CancelTellsTheTruth, TaskSettleFails, cancelVars
<1> QED
  BY <1>1, <1>2, <1>3, <1>4, <1>5, <1>6, <1>7 DEF TurnInv

LEMMA SweepStalledInv ==
  ASSUME TurnInv, NEW p \in Prompts, SweepStalled(p)
  PROVE  TurnInv'
<1>1. TurnTypeOK'
  BY DEF TurnInv, TurnTypeOK, LifeTypeOK, Stops, Terminal, SweepStalled, lifeVars, sessVars,
     subVars, taskVars, cancelVars
<1>2. BridgesInv'
  BY DEF TurnInv, BridgesInv, SweepStalled, lifeVars, subVars
<1>3. StepsInv'
  BY DEF TurnInv, StepsInv, InFlight, SweepStalled, Sweepable, subVars, taskVars
<1>4. RegistryInv'
  BY DEF TurnInv, RegistryInv, Driven, SweepStalled, Sweepable, lifeVars, subVars, taskVars
<1>5. LockInv'
  BY DEF TurnInv, LockInv, Driven, SweepStalled, Sweepable, lifeVars, subVars, taskVars
<1>6. OneDriven'
  BY DEF TurnInv, OneDriven, Driven, SweepStalled, Sweepable, lifeVars, subVars, taskVars
<1>7. SeenInv' /\ CancelTellsTheTruth'
  BY DEF TurnInv, SeenInv, CancelTellsTheTruth, InFlight, SweepStalled, Sweepable, cancelVars
<1> QED
  BY <1>1, <1>2, <1>3, <1>4, <1>5, <1>6, <1>7 DEF TurnInv

LEMMA CancelBeginInv ==
  ASSUME TurnInv, NEW s \in Sessions, CancelBegin(s)
  PROVE  TurnInv'
<1>1. TurnTypeOK'
  BY EventsAssumption DEF TurnInv, TurnTypeOK, LifeTypeOK, CancelBegin, Live, Event, lifeVars,
     sessVars, subVars, taskVars
<1>2. BridgesInv'
  BY DEF TurnInv, BridgesInv, CancelBegin, lifeVars, subVars
<1>3. StepsInv'
  BY DEF TurnInv, StepsInv, CancelBegin, subVars, taskVars
<1>4. RegistryInv'
  BY DEF TurnInv, RegistryInv, Driven, CancelBegin, lifeVars, subVars, taskVars
<1>5. LockInv'
  BY DEF TurnInv, LockInv, Driven, CancelBegin, lifeVars, subVars, taskVars
<1>6. OneDriven'
  BY DEF TurnInv, OneDriven, Driven, CancelBegin, lifeVars, subVars, taskVars
<1>7. SeenInv' /\ CancelTellsTheTruth'
  BY DEF TurnInv, SeenInv, CancelTellsTheTruth, CancelBegin
<1> QED
  BY <1>1, <1>2, <1>3, <1>4, <1>5, <1>6, <1>7 DEF TurnInv

LEMMA CancelReturnsInv ==
  ASSUME TurnInv, NEW s \in Sessions, CancelReturns(s)
  PROVE  TurnInv'
<1>1. TurnTypeOK'
  BY CancelResetType DEF TurnInv, TurnTypeOK, LifeTypeOK, CancelReturns, lifeVars, sessVars,
     subVars, taskVars
<1>2. BridgesInv'
  BY DEF TurnInv, BridgesInv, CancelReturns, lifeVars, subVars
<1>3. StepsInv'
  BY DEF TurnInv, StepsInv, CancelReturns, subVars, taskVars
<1>4. RegistryInv'
  BY DEF TurnInv, RegistryInv, Driven, CancelReturns, lifeVars, subVars, taskVars
<1>5. LockInv'
  BY DEF TurnInv, LockInv, Driven, CancelReturns, lifeVars, subVars, taskVars
<1>6. OneDriven'
  BY DEF TurnInv, OneDriven, Driven, CancelReturns, lifeVars, subVars, taskVars
<1>7. SeenInv' /\ CancelTellsTheTruth'
  BY DEF TurnInv, SeenInv, CancelTellsTheTruth, CancelReturns, CancelReset
<1> QED
  BY <1>1, <1>2, <1>3, <1>4, <1>5, <1>6, <1>7 DEF TurnInv

LEMMA TeardownBeginInv ==
  ASSUME TurnInv, NEW s \in Sessions, NEW k \in {"closing", "deleting"}, TeardownBegin(s, k)
  PROVE  TurnInv'
<1>1. TurnTypeOK'
  BY EventsAssumption DEF TurnInv, TurnTypeOK, LifeTypeOK, Teardowns, TeardownBegin, Event,
     lifeVars, subVars, taskVars, cancelVars
<1>2. BridgesInv'
  BY DEF TurnInv, BridgesInv, TeardownBegin, lifeVars, subVars
<1>3. StepsInv'
  BY DEF TurnInv, StepsInv, TeardownBegin, subVars, taskVars
<1>4. RegistryInv'
  BY DEF TurnInv, RegistryInv, Driven, TeardownBegin, lifeVars, subVars, taskVars
<1>5. LockInv'
  BY DEF TurnInv, LockInv, Driven, TeardownBegin, lifeVars, subVars, taskVars
<1>6. OneDriven'
  BY DEF TurnInv, OneDriven, Driven, TeardownBegin, lifeVars, subVars, taskVars
<1>7. SeenInv' /\ CancelTellsTheTruth'
  BY DEF TurnInv, SeenInv, CancelTellsTheTruth, TeardownBegin, cancelVars
<1> QED
  BY <1>1, <1>2, <1>3, <1>4, <1>5, <1>6, <1>7 DEF TurnInv

LEMMA TeardownFireInv ==
  ASSUME TurnInv, NEW s \in Sessions, TeardownFire(s)
  PROVE  TurnInv'
<1>1. TurnTypeOK'
  BY DEF TurnInv, TurnTypeOK, LifeTypeOK, Teardowns, TeardownFire, lifeVars, sessVars, subVars,
     cancelVars
<1>2. BridgesInv'
  BY DEF TurnInv, BridgesInv, TeardownFire, lifeVars, subVars
<1>3. StepsInv'
  BY DEF TurnInv, StepsInv, TeardownFire, subVars
<1>4. RegistryInv'
  BY DEF TurnInv, RegistryInv, Driven, TeardownFire, lifeVars, subVars
<1>5. LockInv'
  BY DEF TurnInv, LockInv, Driven, TeardownFire, lifeVars, subVars
<1>6. OneDriven'
  BY DEF TurnInv, OneDriven, Driven, TeardownFire, lifeVars, subVars
<1>7. SeenInv' /\ CancelTellsTheTruth'
  BY DEF TurnInv, SeenInv, CancelTellsTheTruth, TeardownFire, cancelVars
<1> QED
  BY <1>1, <1>2, <1>3, <1>4, <1>5, <1>6, <1>7 DEF TurnInv

LEMMA CloseWriteInv ==
  ASSUME TurnInv, NEW s \in Sessions, CloseWrite(s)
  PROVE  TurnInv'
<1>1. TurnTypeOK'
  BY DEF TurnInv, TurnTypeOK, LifeTypeOK, Teardowns, CloseWrite, lifeVars, subVars, taskVars,
     cancelVars
<1>2. BridgesInv'
  BY DEF TurnInv, BridgesInv, CloseWrite, lifeVars, subVars
<1>3. StepsInv'
  BY DEF TurnInv, StepsInv, CloseWrite, subVars, taskVars
<1>4. RegistryInv'
  BY DEF TurnInv, RegistryInv, Driven, CloseWrite, lifeVars, subVars, taskVars
<1>5. LockInv'
  BY DEF TurnInv, LockInv, Driven, CloseWrite, lifeVars, subVars, taskVars
<1>6. OneDriven'
  BY DEF TurnInv, OneDriven, Driven, CloseWrite, lifeVars, subVars, taskVars
<1>7. SeenInv' /\ CancelTellsTheTruth'
  BY DEF TurnInv, SeenInv, CancelTellsTheTruth, CloseWrite, cancelVars
<1> QED
  BY <1>1, <1>2, <1>3, <1>4, <1>5, <1>6, <1>7 DEF TurnInv

LEMMA DeleteWriteInv ==
  ASSUME TurnInv, NEW s \in Sessions, DeleteWrite(s)
  PROVE  TurnInv'
<1>1. TurnTypeOK'
  BY DEF TurnInv, TurnTypeOK, LifeTypeOK, Teardowns, DeleteWrite, lifeVars, subVars, taskVars,
     cancelVars
<1>2. BridgesInv'
  BY DEF TurnInv, BridgesInv, DeleteWrite, lifeVars, subVars
<1>3. StepsInv'
  BY DEF TurnInv, StepsInv, DeleteWrite, subVars, taskVars
<1>4. RegistryInv'
  BY DEF TurnInv, RegistryInv, Driven, InFlight, DeleteWrite, lifeVars, subVars, taskVars
<1>5. LockInv'
  BY DEF TurnInv, LockInv, Driven, InFlight, DeleteWrite, lifeVars, subVars, taskVars
<1>6. OneDriven'
  BY DEF TurnInv, OneDriven, Driven, InFlight, DeleteWrite, lifeVars, subVars, taskVars
<1>7. SeenInv' /\ CancelTellsTheTruth'
  BY DEF TurnInv, TurnTypeOK, SeenInv, CancelTellsTheTruth, DeleteWrite, cancelVars
<1> QED
  BY <1>1, <1>2, <1>3, <1>4, <1>5, <1>6, <1>7 DEF TurnInv

LEMMA TeardownAbortsInv ==
  ASSUME TurnInv, NEW s \in Sessions, TeardownAborts(s)
  PROVE  TurnInv'
<1>1. TurnTypeOK'
  <2>1. teardown' \in [Sessions -> Teardowns]
    BY DEF TurnInv, TurnTypeOK, TeardownAborts, Teardowns
  <2> QED
    BY <2>1, EventsAssumption DEF TurnInv, TurnTypeOK, LifeTypeOK, TeardownAborts, Event,
       lifeVars, sessVars, subVars, taskVars, cancelVars
<1>2. BridgesInv'
  BY DEF TurnInv, BridgesInv, TeardownAborts, lifeVars, subVars
<1>3. StepsInv'
  BY DEF TurnInv, StepsInv, TeardownAborts, subVars, taskVars
<1>4. RegistryInv'
  BY DEF TurnInv, RegistryInv, Driven, TeardownAborts, lifeVars, subVars, taskVars
<1>5. LockInv'
  BY DEF TurnInv, LockInv, Driven, TeardownAborts, lifeVars, subVars, taskVars
<1>6. OneDriven'
  BY DEF TurnInv, OneDriven, Driven, TeardownAborts, lifeVars, subVars, taskVars
<1>7. SeenInv' /\ CancelTellsTheTruth'
  BY DEF TurnInv, SeenInv, CancelTellsTheTruth, TeardownAborts, cancelVars
<1> QED
  BY <1>1, <1>2, <1>3, <1>4, <1>5, <1>6, <1>7 DEF TurnInv

LEMMA SweepIdleInv ==
  ASSUME TurnInv, NEW s \in Sessions, SweepIdle(s)
  PROVE  TurnInv'
<1>1. TurnTypeOK'
  BY DEF TurnInv, TurnTypeOK, LifeTypeOK, SweepIdle, lifeVars, subVars, taskVars, cancelVars
<1>2. BridgesInv'
  BY DEF TurnInv, BridgesInv, SweepIdle, lifeVars, subVars
<1>3. StepsInv'
  BY DEF TurnInv, StepsInv, SweepIdle, subVars, taskVars
<1>4. RegistryInv'
  BY DEF TurnInv, RegistryInv, Driven, SweepIdle, lifeVars, subVars, taskVars
<1>5. LockInv'
  BY DEF TurnInv, LockInv, Driven, SweepIdle, lifeVars, subVars, taskVars
<1>6. OneDriven'
  BY DEF TurnInv, OneDriven, Driven, SweepIdle, lifeVars, subVars, taskVars
<1>7. SeenInv' /\ CancelTellsTheTruth'
  BY DEF TurnInv, SeenInv, CancelTellsTheTruth, SweepIdle, cancelVars
<1> QED
  BY <1>1, <1>2, <1>3, <1>4, <1>5, <1>6, <1>7 DEF TurnInv

LEMMA TurnStopInv ==
  ASSUME TurnInv, TurnStop
  PROVE  TurnInv'
<1>1. TurnTypeOK'
  BY BridgesAssumption, EventsAssumption DEF TurnInv, TurnTypeOK, LifeTypeOK, Stops, TurnStop,
     LifeStop, Event, turnVars
<1>2. BridgesInv'
  BY DEF TurnInv, TurnTypeOK, LifeTypeOK, BridgesInv, TurnStop, LifeStop, turnVars
<1>3. StepsInv'
  BY DEF TurnInv, StepsInv, TurnStop, turnVars
<1>4. RegistryInv'
  BY DEF RegistryInv, TurnStop, LifeStop
<1>5. LockInv'
  BY DEF TurnInv, LockInv, Driven, TurnStop, LifeStop, turnVars
<1>6. OneDriven'
  BY DEF TurnInv, OneDriven, Driven, TurnStop, LifeStop, turnVars
<1>7. SeenInv' /\ CancelTellsTheTruth'
  BY DEF TurnInv, SeenInv, CancelTellsTheTruth, TurnStop, turnVars
<1> QED
  BY <1>1, <1>2, <1>3, <1>4, <1>5, <1>6, <1>7 DEF TurnInv

LEMMA TurnFaultInv ==
  ASSUME TurnInv, TurnFault
  PROVE  TurnInv'
<1>1. TurnTypeOK'
  <2>1. LifeTypeOK'
    BY DEF TurnInv, TurnTypeOK, LifeTypeOK, TurnFault, LifeExit, LifeDrop, Stops
  <2> QED
    BY <2>1, EventsAssumption DEF TurnInv, TurnTypeOK, TurnFault, Event, turnVars
<1>2. BridgesInv'
  BY DEF TurnInv, TurnTypeOK, LifeTypeOK, BridgesInv, TurnFault, LifeExit, LifeDrop,
     turnVars
<1>3. StepsInv'
  BY DEF TurnInv, StepsInv, TurnFault, turnVars
<1>4. RegistryInv'
  BY DEF TurnInv, RegistryInv, Driven, TurnFault, LifeExit, LifeDrop, turnVars
<1>5. LockInv'
  BY DEF TurnInv, LockInv, Driven, TurnFault, LifeExit, LifeDrop, turnVars
<1>6. OneDriven'
  BY DEF TurnInv, OneDriven, Driven, TurnFault, LifeExit, LifeDrop, turnVars
<1>7. SeenInv' /\ CancelTellsTheTruth'
  BY DEF TurnInv, SeenInv, CancelTellsTheTruth, TurnFault, turnVars
<1> QED
  BY <1>1, <1>2, <1>3, <1>4, <1>5, <1>6, <1>7 DEF TurnInv

LEMMA TurnDrainInv ==
  ASSUME TurnInv, TurnDrain
  PROVE  TurnInv'
<1>1. TurnTypeOK'
  BY DEF TurnInv, TurnTypeOK, LifeTypeOK, Stops, TurnDrain, LifeDrain, sessVars, subVars,
     cancelVars
<1>2. BridgesInv'
  BY DEF TurnInv, BridgesInv, TurnDrain, LifeDrain, subVars
<1>3. StepsInv'
  BY DEF TurnInv, StepsInv, TurnDrain, subVars
<1>4. RegistryInv'
  BY DEF TurnInv, BridgesInv, RegistryInv, TurnDrain, LifeDrain
<1>5. LockInv'
  BY DEF TurnInv, LockInv, Driven, TurnDrain, LifeDrain, subVars
<1>6. OneDriven'
  BY DEF TurnInv, OneDriven, Driven, TurnDrain, LifeDrain, subVars
<1>7. SeenInv' /\ CancelTellsTheTruth'
  BY DEF TurnInv, SeenInv, CancelTellsTheTruth, TurnDrain, cancelVars
<1> QED
  BY <1>1, <1>2, <1>3, <1>4, <1>5, <1>6, <1>7 DEF TurnInv

LEMMA TurnDemoteInv ==
  ASSUME TurnInv, TurnDemote
  PROVE  TurnInv'
<1>1. TurnTypeOK'
  <2>1. LifeTypeOK'
    BY DEF TurnInv, TurnTypeOK, LifeTypeOK, TurnDemote, LifeDemote, LifeCrashDemote, Stops
  <2>2. sess' \in [Sessions -> {"active", "available", "closed", "deleted"}]
    BY DEF TurnInv, TurnTypeOK, TurnDemote, DemoteSessions
  <2> QED
    BY <2>1, <2>2 DEF TurnInv, TurnTypeOK, TurnDemote, subVars, taskVars, cancelVars
<1>2. BridgesInv'
  BY DEF TurnInv, TurnTypeOK, LifeTypeOK, BridgesInv, TurnDemote, LifeDemote, LifeCrashDemote,
     DemoteSessions, subVars, taskVars, cancelVars
<1>3. StepsInv'
  BY DEF TurnInv, StepsInv, TurnDemote, subVars, taskVars
<1>4. RegistryInv'
  BY DEF TurnInv, RegistryInv, Driven, TurnDemote, LifeDemote, LifeCrashDemote, subVars,
     taskVars
<1>5. LockInv'
  BY DEF TurnInv, LockInv, Driven, TurnDemote, LifeDemote, LifeCrashDemote, subVars, taskVars
<1>6. OneDriven'
  BY DEF TurnInv, OneDriven, Driven, TurnDemote, LifeDemote, LifeCrashDemote, subVars, taskVars
<1>7. SeenInv' /\ CancelTellsTheTruth'
  BY DEF TurnInv, SeenInv, CancelTellsTheTruth, TurnDemote, cancelVars
<1> QED
  BY <1>1, <1>2, <1>3, <1>4, <1>5, <1>6, <1>7 DEF TurnInv

LEMMA TurnAgentInv ==
  ASSUME TurnInv, TurnAgent
  PROVE  TurnInv'
<1>1. TurnTypeOK'
  <2>1. CASE LifeSpawn
    BY <2>1, BridgesAssumption DEF TurnInv, TurnTypeOK, LifeTypeOK, LifeSpawn, Bridges,
       TurnAgent, turnVars
  <2>2. CASE LifeCrash
    BY <2>2, BridgesAssumption DEF TurnInv, TurnTypeOK, LifeTypeOK, LifeCrash, TurnAgent,
       turnVars
  <2>3. CASE LifeTeardown
    BY <2>3 DEF TurnInv, TurnTypeOK, LifeTypeOK, LifeTeardown, Stops, TurnAgent, turnVars
  <2> QED
    BY <2>1, <2>2, <2>3 DEF TurnAgent
<1>2. BridgesInv'
  <2>1. CASE LifeSpawn
    BY <2>1 DEF TurnInv, TurnTypeOK, LifeTypeOK, BridgesInv, TurnAgent, LifeSpawn, turnVars
  <2>2. CASE LifeCrash
    BY <2>2 DEF TurnInv, TurnTypeOK, LifeTypeOK, BridgesInv, TurnAgent, LifeCrash, turnVars
  <2>3. CASE LifeTeardown
    BY <2>3 DEF TurnInv, TurnTypeOK, LifeTypeOK, BridgesInv, TurnAgent, LifeTeardown, turnVars
  <2> QED
    BY <2>1, <2>2, <2>3 DEF TurnAgent
<1>3. StepsInv'
  BY DEF TurnInv, StepsInv, TurnAgent, turnVars
<1>4. RegistryInv'
  BY DEF TurnInv, TurnTypeOK, LifeTypeOK, BridgesInv, RegistryInv, Driven, TurnAgent,
     LifeSpawn, LifeCrash, LifeTeardown, turnVars
<1>5. LockInv'
  BY DEF TurnInv, TurnTypeOK, LifeTypeOK, BridgesInv, LockInv, Driven, TurnAgent, LifeSpawn,
     LifeCrash, LifeTeardown, turnVars
<1>6. OneDriven'
  BY DEF TurnInv, TurnTypeOK, LifeTypeOK, BridgesInv, OneDriven, Driven, TurnAgent, LifeSpawn,
     LifeCrash, LifeTeardown, turnVars
<1>7. SeenInv' /\ CancelTellsTheTruth'
  BY DEF TurnInv, SeenInv, CancelTellsTheTruth, TurnAgent, turnVars
<1> QED
  BY <1>1, <1>2, <1>3, <1>4, <1>5, <1>6, <1>7 DEF TurnInv

LEMMA RebootInv ==
  ASSUME TurnInv, Reboot
  PROVE  TurnInv'
<1>1. TurnTypeOK'
  BY BridgesAssumption, EventsAssumption DEF TurnInv, TurnTypeOK, LifeTypeOK, Stops, Terminal,
     Verdicts, SubmitStates, TaskStates, Teardowns, Reboot, Event, Reconciled, DemoteSessions
<1>2. BridgesInv'
  BY DEF TurnInv, TurnTypeOK, LifeTypeOK, BridgesInv, Reboot
<1>3. StepsInv'
  BY DEF TurnInv, TurnTypeOK, StepsInv, InFlight, Reboot, Reconciled
<1>4. RegistryInv'
  BY DEF RegistryInv, Reboot
<1>5. LockInv'
  BY DEF LockInv, Submitting, Reboot
<1>6. OneDriven'
  BY DEF OneDriven, Driven, Reboot
<1>7. SeenInv' /\ CancelTellsTheTruth'
  BY DEF SeenInv, CancelTellsTheTruth, Reboot
<1> QED
  BY <1>1, <1>2, <1>3, <1>4, <1>5, <1>6, <1>7 DEF TurnInv

\* A pass of a cancel over the rows.  It takes turns out of the registry only once
\* every row it waited for is cancelled.
LEMMA CancelPollInv ==
  ASSUME TurnInv, NEW s \in Sessions, CancelPoll(s)
  PROVE  TurnInv'
<1> DEFINE read == [p \in Prompts |-> IF p \in Unseen(s) /\ row[p] \in Terminal
                                      THEN row[p] ELSE seen[s][p]]
           all  == \A p \in waited[s] : read[p] # "none"
           ok   == all /\ VerdictIsCancelled({read[p] : p \in waited[s]})
<1>1. /\ cancel[s] = "waiting"
      /\ UNCHANGED <<lifeVars, sessVars, row, quiet, subVars, task, token, teardown, events>>
      /\ \/ CancelReset(s) /\ UNCHANGED handles
         \/ /\ seen' = [seen EXCEPT ![s] = read]
            /\ cancel' = [cancel EXCEPT ![s] = IF ok THEN "ok" ELSE @]
            /\ handles' = IF ok THEN handles \ waited[s] ELSE handles
            /\ UNCHANGED waited
  BY Zenon DEF CancelPoll
<1>2. \A p \in Prompts : row'[p] = row[p] /\ task'[p] = task[p] /\ submit'[p] = submit[p]
                         /\ via'[p] = via[p] /\ at'[p] = at[p]
  BY <1>1 DEF subVars
<1>3. /\ read \in [Prompts -> {"none"} \cup Terminal]
      /\ \A p \in Prompts : read[p] = "cancelled" => row[p] \in {"cancelled", "deleted"}
  BY DEF TurnInv, TurnTypeOK, SeenInv
<1>4. ok => \A p \in waited[s] : read[p] = "cancelled"
  BY DEF VerdictIsCancelled
<1>5. waited[s] \subseteq Prompts
  BY DEF TurnInv, TurnTypeOK
<1> HIDE DEF read, all, ok
<1>6. ok => \A p \in waited[s] : row[p] \in {"cancelled", "deleted"}
  BY <1>3, <1>4, <1>5
<1>7. TurnTypeOK'
  <2>1. /\ cancel' \in [Sessions -> {"none", "waiting", "ok"}]
        /\ waited' \in [Sessions -> SUBSET Prompts]
        /\ seen' \in [Sessions -> [Prompts -> {"none"} \cup Terminal]]
    <3>1. CASE CancelReset(s)
      BY <3>1, CancelResetType DEF TurnInv
    <3>2. CASE /\ seen' = [seen EXCEPT ![s] = read]
               /\ cancel' = [cancel EXCEPT ![s] = IF ok THEN "ok" ELSE @]
               /\ UNCHANGED waited
      BY <1>3, <3>2, Zenon DEF TurnInv, TurnTypeOK
    <3> QED
      BY <1>1, <3>1, <3>2
  <2> QED
    BY <1>1, <2>1 DEF TurnInv, TurnTypeOK, LifeTypeOK, lifeVars, sessVars, subVars
<1>8. BridgesInv' /\ StepsInv'
  BY <1>1 DEF TurnInv, BridgesInv, StepsInv, lifeVars, subVars
<1>9. \A p \in Prompts : Driven(p)' <=> Driven(p)
  BY <1>1, <1>2 DEF Driven, lifeVars
<1>10. RegistryInv'
  BY <1>1, <1>2, <1>6 DEF TurnInv, RegistryInv, Driven, InFlight, lifeVars
<1>11. LockInv' /\ OneDriven'
  BY <1>2, <1>9 DEF TurnInv, LockInv, OneDriven
<1>12. SeenInv' /\ CancelTellsTheTruth'
  <2>1. CASE CancelReset(s)
    BY <1>2, <2>1 DEF TurnInv, TurnTypeOK, SeenInv, CancelTellsTheTruth, CancelReset
  <2>2. CASE /\ seen' = [seen EXCEPT ![s] = read]
             /\ cancel' = [cancel EXCEPT ![s] = IF ok THEN "ok" ELSE @]
             /\ UNCHANGED waited
    <3>1. SeenInv'
      BY <1>2, <1>3, <2>2 DEF TurnInv, SeenInv
    <3>2. CancelTellsTheTruth'
      BY <1>1, <1>6, <2>2 DEF TurnInv, CancelTellsTheTruth
    <3> QED
      BY <3>1, <3>2
  <2> QED
    BY <1>1, <2>1, <2>2
<1> QED
  BY <1>7, <1>8, <1>10, <1>11, <1>12 DEF TurnInv

-----------------------------------------------------------------------------
(* The invariant and what follows from it *)

LEMMA InitInv == TurnInit => TurnInv
<1> SUFFICES ASSUME TurnInit PROVE TurnInv
  OBVIOUS
<1>1. TurnTypeOK
  <2>1. LifeTypeOK
    BY BridgesAssumption DEF TurnInit, LifeInit, LifeTypeOK, Stops
  <2>2. seen \in [Sessions -> [Prompts -> {"none"} \cup Terminal]]
    BY DEF TurnInit
  <2>3. waited \in [Sessions -> SUBSET Prompts] /\ attached \subseteq Sessions \X Bridges
    BY DEF TurnInit
  <2>4. /\ row \in [Prompts -> {"none", "deleted"} \cup InFlight \cup Terminal]
        /\ submit \in [Prompts -> SubmitStates] /\ task \in [Prompts -> TaskStates]
        /\ teardown \in [Sessions -> Teardowns]
    BY DEF TurnInit, SubmitStates, TaskStates, Teardowns
  <2>5. /\ via \in [Prompts -> 0 .. MaxBridges] /\ at \in [Prompts -> 0 .. MaxBridges]
        /\ events \in 0 .. MaxEvents
    BY BridgesAssumption, EventsAssumption DEF TurnInit
  <2> QED
    BY <2>1, <2>4, <2>5 DEF TurnInit, TurnTypeOK
<1>2. BridgesInv
  BY DEF TurnInit, LifeInit, BridgesInv
<1>3. StepsInv /\ \A p \in Prompts : ~Driven(p) /\ submit[p] \notin Submitting
  BY DEF TurnInit, StepsInv, Driven, Submitting
<1>4. RegistryInv /\ LockInv /\ OneDriven
  BY <1>3 DEF RegistryInv, LockInv, OneDriven
<1>5. SeenInv /\ CancelTellsTheTruth
  BY DEF TurnInit, SeenInv, CancelTellsTheTruth
<1> QED
  BY <1>1, <1>2, <1>3, <1>4, <1>5 DEF TurnInv

LEMMA StutterInv ==
  ASSUME TurnInv, UNCHANGED allVars
  PROVE  TurnInv'
<1> USE DEF allVars, lifeVars, turnVars
<1>1. TurnTypeOK' /\ BridgesInv' /\ StepsInv'
  BY DEF TurnInv, TurnTypeOK, LifeTypeOK, BridgesInv, StepsInv
<1>2. \A p \in Prompts : Driven(p)' <=> Driven(p)
  BY DEF Driven
<1>3. RegistryInv' /\ LockInv' /\ OneDriven'
  BY <1>2 DEF TurnInv, RegistryInv, LockInv, OneDriven
<1>4. SeenInv' /\ CancelTellsTheTruth'
  BY DEF TurnInv, SeenInv, CancelTellsTheTruth
<1> QED
  BY <1>1, <1>3, <1>4 DEF TurnInv

\* Silences and updates move updated_at only.
LEMMA QuietInv ==
  ASSUME TurnInv, NEW p \in Prompts, FallSilent(p) \/ SessionUpdate(p)
  PROVE  TurnInv'
<1>1. /\ UNCHANGED <<lifeVars, sessVars, row, subVars, taskVars, cancelVars, teardown, events>>
      /\ quiet' \in {quiet \cup {p}, quiet \ {p}}
  BY DEF FallSilent, SessionUpdate
<1> USE <1>1 DEF lifeVars, sessVars, subVars, taskVars, cancelVars
<1>2. TurnTypeOK' /\ BridgesInv' /\ StepsInv'
  BY DEF TurnInv, TurnTypeOK, LifeTypeOK, BridgesInv, StepsInv
<1>3. \A q \in Prompts : Driven(q)' <=> Driven(q)
  BY DEF Driven
<1>4. RegistryInv' /\ LockInv' /\ OneDriven'
  BY <1>3 DEF TurnInv, RegistryInv, LockInv, OneDriven
<1>5. SeenInv' /\ CancelTellsTheTruth'
  BY DEF TurnInv, SeenInv, CancelTellsTheTruth
<1> QED
  BY <1>2, <1>4, <1>5 DEF TurnInv

LEMMA NextInv == TurnInv /\ [TurnNext]_allVars => TurnInv'
<1> SUFFICES ASSUME TurnInv, [TurnNext]_allVars PROVE TurnInv'
  OBVIOUS
<1>1. CASE UNCHANGED allVars
  BY <1>1, StutterInv
<1>2. ASSUME NEW p \in Prompts, SubmitCheck(p) \/ SubmitStep(p) \/ SubmitAborts(p)
      PROVE  TurnInv'
  BY <1>2, SubmitCheckInv, SubmitWarmInv, SubmitReattachInv, SubmitAttachedInv,
     SubmitActivateInv, SubmitInsertInv, SubmitSpawnInv, SubmitRegisterInv, SubmitRefusedInv,
     SubmitAbortsInv DEF SubmitStep
<1>3. ASSUME NEW p \in Prompts,
             \/ TaskStep(p) \/ TaskSettleFails(p)
             \/ FallSilent(p) \/ SessionUpdate(p) \/ SweepStalled(p)
      PROVE  TurnInv'
  BY <1>3, TaskRunningInv, TaskCancelledInv, TaskSettleInv, TaskSettleFailsInv, SweepStalledInv,
     QuietInv DEF TaskStep
<1>4. ASSUME NEW p \in Prompts, NEW o \in Verdicts, TaskAnswered(p, o) PROVE TurnInv'
  BY <1>4, TaskAnsweredInv
<1>5. ASSUME NEW s \in Sessions, CancelBegin(s) \/ CancelPoll(s) \/ CancelReturns(s)
      PROVE  TurnInv'
  BY <1>5, CancelBeginInv, CancelPollInv, CancelReturnsInv
<1>6. ASSUME NEW s \in Sessions, NEW k \in {"closing", "deleting"}, TeardownBegin(s, k)
      PROVE  TurnInv'
  BY <1>6, TeardownBeginInv
<1>7. ASSUME NEW s \in Sessions,
             \/ TeardownFire(s) \/ CloseWrite(s) \/ DeleteWrite(s) \/ TeardownAborts(s)
             \/ SweepIdle(s)
      PROVE  TurnInv'
  BY <1>7, TeardownFireInv, CloseWriteInv, DeleteWriteInv, TeardownAbortsInv, SweepIdleInv
<1>8. CASE TurnStop \/ TurnFault \/ TurnDrain \/ TurnDemote \/ TurnAgent \/ Reboot
  BY <1>8, TurnStopInv, TurnFaultInv, TurnDrainInv, TurnDemoteInv, TurnAgentInv, RebootInv
<1> QED
  BY <1>1, <1>2, <1>3, <1>4, <1>5, <1>6, <1>7, <1>8 DEF TurnNext

\* The inductive invariant of prompt turns, for any sessions, prompts, bridges and
\* number of interventions and faults.
THEOREM Invariance == TurnSpec => []TurnInv
<1>1. TurnInit => TurnInv
  BY InitInv
<1>2. TurnInv /\ [TurnNext]_allVars => TurnInv'
  BY NextInv
<1> QED
  BY <1>1, <1>2, PTL DEF TurnSpec

\* Type correctness: prompts.status and sessions.status only hold what the database
\* knows.
THEOREM TypeCorrect == TurnSpec => []TurnTypeOK
<1>1. TurnInv => TurnTypeOK
  BY DEF TurnInv
<1> QED
  BY <1>1, Invariance, PTL

\* One ACP session drives one turn at a time: the session lock, the in-flight check
\* and the registry together keep a second turn off a connected agent
\* (submit_prompt, live_prompts_for_session, cancel_all_prompts).
THEOREM OneTurn == TurnSpec => []OneTurnPerSession
<1>1. TurnInv => OneTurnPerSession
  BY DEF TurnInv, OneDriven, OneTurnPerSession, Driven
<1> QED
  BY <1>1, Invariance, PTL

\* A cancel that answers success answers for turns that are cancelled
\* (cancel_settle_verdict).
THEOREM CancelIsTrue == TurnSpec => []CancelTellsTheTruth
<1>1. TurnInv => CancelTellsTheTruth
  BY DEF TurnInv
<1> QED
  BY <1>1, Invariance, PTL

-----------------------------------------------------------------------------
(* Verdicts *)

\* What a step may do to the row of p.
LEMMA RowStep ==
  ASSUME TurnInv, [TurnNext]_allVars, NEW p \in Prompts
  PROVE  /\ row[p] \in Verdicts => row'[p] \in {row[p], "deleted"}
         /\ row[p] = "stalled" => \/ row'[p] \in {"stalled", "deleted"}
                                  \/ row'[p] \in Verdicts /\ row'[p] = task[p]
<1> DEFINE Goal == /\ row[p] \in Verdicts => row'[p] \in {row[p], "deleted"}
                   /\ row[p] = "stalled" => \/ row'[p] \in {"stalled", "deleted"}
                                            \/ row'[p] \in Verdicts /\ row'[p] = task[p]
<1>1. CASE UNCHANGED row
  BY <1>1
<1>2. ASSUME NEW q \in Prompts, SubmitInsert(q) PROVE Goal
  BY <1>2 DEF TurnInv, StepsInv, SubmitInsert, Verdicts
<1>3. ASSUME NEW q \in Prompts, TaskRunning(q) PROVE Goal
  BY <1>3 DEF TurnInv, TurnTypeOK, TaskRunning, Verdicts
<1>4. ASSUME NEW q \in Prompts, TaskSettle(q) PROVE Goal
  BY <1>4 DEF TurnInv, TurnTypeOK, TaskSettle, Settles, ReplacesStall, TerminalOutcome,
     InFlight, Verdicts
<1>5. ASSUME NEW q \in Prompts, SweepStalled(q) PROVE Goal
  BY <1>5 DEF SweepStalled, Sweepable, InFlight, Verdicts
<1>6. ASSUME NEW s \in Sessions, DeleteWrite(s) PROVE Goal
  BY <1>6 DEF DeleteWrite
<1>7. CASE Reboot
  BY <1>7 DEF Reboot, Reconciled, InFlight, Verdicts
<1>8. \/ UNCHANGED row
      \/ \E q \in Prompts : SubmitInsert(q) \/ TaskRunning(q) \/ TaskSettle(q) \/ SweepStalled(q)
      \/ \E s \in Sessions : DeleteWrite(s)
      \/ Reboot
  <2>1. CASE UNCHANGED allVars
    BY <2>1 DEF allVars, turnVars
  <2>2. ASSUME NEW q \in Prompts, SubmitCheck(q) \/ SubmitStep(q) \/ SubmitAborts(q)
        PROVE  UNCHANGED row \/ SubmitInsert(q)
    BY <2>2 DEF SubmitStep, SubmitCheck, SubmitWarm, SubmitReattach, SubmitAttached,
       SubmitActivate, SubmitSpawn, SubmitRegister, SubmitRefused, SubmitAborts, SubmitEnds
  <2>3. ASSUME NEW q \in Prompts,
               TaskStep(q) \/ TaskSettleFails(q) \/ FallSilent(q) \/ SessionUpdate(q)
        PROVE  UNCHANGED row \/ TaskRunning(q) \/ TaskSettle(q)
    BY <2>3 DEF TaskStep, TaskSettleFails, TaskCancelled, FallSilent, SessionUpdate
  <2>4. ASSUME NEW q \in Prompts, NEW o \in Verdicts, TaskAnswered(q, o) PROVE UNCHANGED row
    BY <2>4 DEF TaskAnswered
  <2>5. ASSUME NEW s \in Sessions, CancelBegin(s) \/ CancelPoll(s) \/ CancelReturns(s)
        PROVE  UNCHANGED row
    BY <2>5 DEF CancelBegin, CancelPoll, CancelReturns
  <2>6. ASSUME NEW s \in Sessions, NEW k \in {"closing", "deleting"}, TeardownBegin(s, k)
        PROVE  UNCHANGED row
    BY <2>6 DEF TeardownBegin
  <2>7. ASSUME NEW s \in Sessions,
               TeardownFire(s) \/ CloseWrite(s) \/ TeardownAborts(s) \/ SweepIdle(s)
        PROVE  UNCHANGED row
    BY <2>7 DEF TeardownFire, CloseWrite, TeardownAborts, SweepIdle
  <2>8. CASE TurnStop \/ TurnFault \/ TurnDrain \/ TurnDemote \/ TurnAgent
    BY <2>8 DEF TurnStop, TurnFault, TurnDrain, TurnDemote, TurnAgent, turnVars
  <2> QED
    BY <2>1, <2>2, <2>3, <2>4, <2>5, <2>6, <2>7, <2>8 DEF TurnNext
<1> QED
  BY <1>2, <1>3, <1>4, <1>5, <1>6, <1>7, <1>8

\* A verdict is final, and a stall is replaced by the agent's own answer only
\* (settle_prompt, update_prompt_status, mark_stalled_prompts).
THEOREM VerdictsAreFinal == TurnSpec => VerdictIsFinal
<1>1. TurnInv /\ [TurnNext]_allVars =>
        [\A p \in Prompts :
           /\ row[p] \in Verdicts => row'[p] \in {row[p], "deleted"}
           /\ row[p] = "stalled" => \/ row'[p] \in {"stalled", "deleted"}
                                    \/ row'[p] \in Verdicts /\ row'[p] = task[p]]_allVars
  BY RowStep
<1> QED
  BY <1>1, Invariance, PTL DEF TurnSpec, VerdictIsFinal

=============================================================================
