----------------------- MODULE AgentSupervisor_proofs -----------------------
(***************************************************************************)
(* Machine-checked proofs about the agent supervisor, for any number of    *)
(* bridges and of dropped request futures: its invariants, and that it     *)
(* implements AgentLife.                                                   *)
(***************************************************************************)
EXTENDS AgentSupervisor, FiniteSetTheorems, TLAPS

-----------------------------------------------------------------------------
(* Requests *)

\* What the request and the state are after a stop has demoted the sessions.
LEMMA StopDemoteRequest ==
  ASSUME AgentTypeOK, StopDemote
  PROVE  /\ request' \in Requests
         /\ request'.phase = IF request.again /\ MayStart THEN "start" ELSE "none"
         /\ agent' = IF request.again /\ MayStart THEN "starting" ELSE agent
<1>1. CASE request.again /\ MayStart
  <2>1. /\ request' = [phase |-> "start", again |-> FALSE, detached |-> request.detached]
        /\ agent' = "starting"
    BY <1>1, Zenon DEF StopDemote, AgentTypeOK, Requests
  <2> QED
    BY <1>1, <2>1 DEF AgentTypeOK, Requests, Phases
<1>2. CASE ~(request.again /\ MayStart)
  <2>1. request' = NoRequest /\ agent' = agent
    BY <1>2, Zenon DEF StopDemote
  <2> QED
    BY <1>2, <2>1 DEF Requests, Phases, NoRequest
<1> QED
  BY <1>1, <1>2

\* And after the restart that follows an update.
LEMMA RelaunchRequest ==
  ASSUME Relaunch
  PROVE  /\ request' \in Requests
         /\ request'.phase = IF MayStart THEN "start" ELSE "none"
         /\ agent' = IF MayStart THEN "starting" ELSE agent
<1>1. CASE MayStart
  <2>1. /\ request' = [phase |-> "start", again |-> FALSE, detached |-> TRUE]
        /\ agent' = "starting"
    BY <1>1, Zenon DEF Relaunch, NoRequest
  <2> QED
    BY <1>1, <2>1 DEF Requests, Phases
<1>2. CASE ~MayStart
  <2>1. request' = NoRequest /\ agent' = agent
    BY <1>2, Zenon DEF Relaunch
  <2> QED
    BY <1>2, <2>1 DEF Requests, Phases, NoRequest
<1> QED
  BY <1>1, <1>2

-----------------------------------------------------------------------------
(* Each action preserves the invariant *)

LEMMA StartInv ==
  ASSUME AgentInv, NEW d \in BOOLEAN, Start(d)
  PROVE  AgentInv'
<1>1. AgentTypeOK'
  BY DEF AgentInv, AgentTypeOK, AgentStates, Phases, Requests, Start
<1>2. BridgeInv'
  BY DEF AgentInv, BridgeInv, Start, MayStart
<1>3. ClaimInv'
  BY DEF AgentInv, ClaimInv, TearingDown, Start, MayStart
<1>4. WatchInv'
  BY DEF WatchInv, Start
<1>5. OwnerInv' /\ RunningIsWatched'
  BY DEF OwnerInv, RunningIsWatched, Start
<1> QED
  BY <1>1, <1>2, <1>3, <1>4, <1>5 DEF AgentInv

LEMMA StopBeginInv ==
  ASSUME AgentInv, NEW a \in BOOLEAN, NEW d \in BOOLEAN, StopBegin(a, d)
  PROVE  AgentInv'
<1>1. AgentTypeOK'
  BY DEF AgentInv, AgentTypeOK, AgentStates, Phases, Requests, StopBegin
<1>2. BridgeInv'
  BY DEF AgentInv, BridgeInv, StopBegin
<1>3. ClaimInv'
  BY DEF AgentInv, ClaimInv, StopBegin
<1>4. WatchInv'
  BY DEF WatchInv, StopBegin
<1>5. OwnerInv' /\ RunningIsWatched'
  BY DEF TearingDown, OwnerInv, RunningIsWatched, StopBegin
<1> QED
  BY <1>1, <1>2, <1>3, <1>4, <1>5 DEF AgentInv

LEMMA StartOkInv ==
  ASSUME AgentInv, StartOk
  PROVE  AgentInv'
<1>1. AgentTypeOK'
  BY BridgesAssumption DEF AgentInv, AgentTypeOK, Bridges, AgentStates, Phases, Requests,
     StartOk, Spawned, Phase
<1>2. BridgeInv'
  BY DEF AgentInv, AgentTypeOK, BridgeInv, ClaimInv, Bridges, StartOk, Spawned
<1>3. ClaimInv'
  BY DEF AgentInv, ClaimInv, TearingDown, StartOk, Phase
<1>4. WatchInv'
  BY BridgesAssumption DEF AgentInv, AgentTypeOK, BridgeInv, WatchInv, Bridges, StartOk,
     Spawned
<1>5. OwnerInv' /\ RunningIsWatched'
  BY DEF OwnerInv, RunningIsWatched, StartOk, Spawned, Phase
<1> QED
  BY <1>1, <1>2, <1>3, <1>4, <1>5 DEF AgentInv

LEMMA StartWatchInv ==
  ASSUME AgentInv, StartWatch
  PROVE  AgentInv'
<1>1. AgentTypeOK'
  BY DEF AgentInv, AgentTypeOK, Phases, Requests, Monitors, StartWatch, NoRequest
<1>2. BridgeInv'
  BY DEF AgentInv, BridgeInv, Bridges, StartWatch
<1>3. ClaimInv'
  BY DEF AgentInv, ClaimInv, TearingDown, StartWatch, NoRequest
<1>4. WatchInv'
  BY DEF AgentInv, WatchInv, StartWatch, NoRequest
<1>5. OwnerInv' /\ RunningIsWatched'
  BY DEF AgentInv, AgentTypeOK, BridgeInv, WatchInv, Bridges, OwnerInv, RunningIsWatched,
     StartWatch
<1> QED
  BY <1>1, <1>2, <1>3, <1>4, <1>5 DEF AgentInv

LEMMA StartFailsInv ==
  ASSUME AgentInv, StartFails
  PROVE  AgentInv'
<1>1. AgentTypeOK'
  BY DEF AgentInv, AgentTypeOK, AgentStates, Phases, Requests, StartFails, NoRequest
<1>2. BridgeInv'
  BY DEF AgentInv, BridgeInv, ClaimInv, StartFails
<1>3. ClaimInv'
  BY DEF AgentInv, ClaimInv, TearingDown, StartFails, NoRequest
<1>4. WatchInv'
  BY DEF WatchInv, StartFails, NoRequest
<1>5. OwnerInv' /\ RunningIsWatched'
  BY DEF OwnerInv, RunningIsWatched, StartFails
<1> QED
  BY <1>1, <1>2, <1>3, <1>4, <1>5 DEF AgentInv

LEMMA StopDrainInv ==
  ASSUME AgentInv, StopDrain
  PROVE  AgentInv'
<1>1. AgentTypeOK'
  BY DEF AgentInv, AgentTypeOK, Phases, Requests, StopDrain, Phase
<1>2. BridgeInv'
  BY DEF AgentInv, BridgeInv, StopDrain
<1>3. ClaimInv'
  BY DEF AgentInv, ClaimInv, TearingDown, StopDrain, Phase
<1>4. WatchInv'
  BY DEF AgentInv, WatchInv, StopDrain, Phase
<1>5. OwnerInv' /\ RunningIsWatched'
  BY DEF AgentInv, TearingDown, OwnerInv, RunningIsWatched, StopDrain, Phase
<1> QED
  BY <1>1, <1>2, <1>3, <1>4, <1>5 DEF AgentInv

LEMMA StopSettledInv ==
  ASSUME AgentInv, StopSettled
  PROVE  AgentInv'
<1>1. AgentTypeOK'
  BY DEF AgentInv, AgentTypeOK, Phases, Requests, StopSettled, Phase
<1>2. BridgeInv'
  BY DEF AgentInv, BridgeInv, StopSettled
<1>3. ClaimInv'
  BY DEF AgentInv, ClaimInv, TearingDown, StopSettled, Phase
<1>4. WatchInv'
  BY DEF AgentInv, WatchInv, StopSettled, Phase
<1>5. OwnerInv' /\ RunningIsWatched'
  BY DEF AgentInv, TearingDown, OwnerInv, RunningIsWatched, StopSettled, Phase
<1> QED
  BY <1>1, <1>2, <1>3, <1>4, <1>5 DEF AgentInv

LEMMA StopTeardownInv ==
  ASSUME AgentInv, StopTeardown
  PROVE  AgentInv'
<1>1. AgentTypeOK'
  BY DEF AgentInv, AgentTypeOK, BridgeInv, ClaimInv, Bridges, Phases, Requests, TearingDown,
     StopTeardown, Teardown, Phase
<1>2. BridgeInv'
  BY DEF AgentInv, AgentTypeOK, BridgeInv, ClaimInv, TearingDown, StopTeardown, Teardown
<1>3. ClaimInv'
  BY DEF AgentInv, BridgeInv, ClaimInv, TearingDown, StopTeardown, Teardown, Phase
<1>4. WatchInv'
  BY DEF AgentInv, ClaimInv, WatchInv, TearingDown, StopTeardown, Phase
<1>5. OwnerInv' /\ RunningIsWatched'
  BY DEF AgentInv, TearingDown, OwnerInv, RunningIsWatched, StopTeardown, Phase
<1> QED
  BY <1>1, <1>2, <1>3, <1>4, <1>5 DEF AgentInv

LEMMA StopReapInv ==
  ASSUME AgentInv, StopReap
  PROVE  AgentInv'
<1>1. AgentTypeOK'
  BY DEF AgentInv, AgentTypeOK, AgentStates, Phases, Requests, StopReap, Phase
<1>2. BridgeInv'
  BY DEF AgentInv, BridgeInv, ClaimInv, StopReap
<1>3. ClaimInv'
  BY DEF AgentInv, ClaimInv, TearingDown, StopReap, Phase
<1>4. WatchInv'
  BY DEF WatchInv, StopReap, Phase
<1>5. OwnerInv' /\ RunningIsWatched'
  BY DEF OwnerInv, RunningIsWatched, StopReap
<1> QED
  BY <1>1, <1>2, <1>3, <1>4, <1>5 DEF AgentInv

LEMMA StopDemoteInv ==
  ASSUME AgentInv, StopDemote
  PROVE  AgentInv'
<1>0. /\ request' \in Requests
      /\ request'.phase = IF request.again /\ MayStart THEN "start" ELSE "none"
      /\ agent' = IF request.again /\ MayStart THEN "starting" ELSE agent
      /\ request.phase = "demote"
      /\ UNCHANGED <<bridge, alive, procs, planned, monitor, thenStart, relaunch, drops>>
  BY StopDemoteRequest DEF AgentInv, StopDemote
<1>1. AgentTypeOK'
  BY <1>0 DEF AgentInv, AgentTypeOK, AgentStates
<1>2. BridgeInv'
  BY <1>0 DEF AgentInv, BridgeInv, MayStart
<1>3. ClaimInv'
  BY <1>0 DEF AgentInv, ClaimInv, TearingDown, MayStart
<1>4. WatchInv'
  BY <1>0 DEF AgentInv, WatchInv
<1>5. OwnerInv' /\ RunningIsWatched'
  BY <1>0 DEF AgentInv, TearingDown, OwnerInv, RunningIsWatched
<1> QED
  BY <1>1, <1>2, <1>3, <1>4, <1>5 DEF AgentInv

LEMMA DropRequestInv ==
  ASSUME AgentInv, DropRequest
  PROVE  AgentInv'
<1>1. AgentTypeOK'
  BY DropsAssumption DEF AgentInv, AgentTypeOK, Phases, Requests, DropRequest, NoRequest
<1>2. BridgeInv'
  BY DEF AgentInv, BridgeInv, DropRequest
<1>3. ClaimInv'
  BY DEF AgentInv, ClaimInv, TearingDown, DropRequest, NoRequest
<1>4. WatchInv'
  BY DEF AgentInv, WatchInv, DropRequest, NoRequest
<1>5. OwnerInv' /\ RunningIsWatched'
  BY DEF AgentInv, AgentTypeOK, OwnerInv, RunningIsWatched, DropRequest
<1> QED
  BY <1>1, <1>2, <1>3, <1>4, <1>5 DEF AgentInv

LEMMA AgentExitsInv ==
  ASSUME AgentInv, NEW b \in Bridges, AgentExits(b)
  PROVE  AgentInv'
<1>1. AgentTypeOK'
  BY DEF AgentInv, AgentTypeOK, AgentExits
<1>2. BridgeInv'
  BY DEF AgentInv, BridgeInv, AgentExits
<1>3. ClaimInv'
  BY DEF AgentInv, ClaimInv, AgentExits
<1>4. WatchInv'
  BY DEF AgentInv, WatchInv, AgentExits
<1>5. OwnerInv' /\ RunningIsWatched'
  BY DEF AgentInv, OwnerInv, RunningIsWatched, AgentExits
<1> QED
  BY <1>1, <1>2, <1>3, <1>4, <1>5 DEF AgentInv

LEMMA ConnectionEndsInv ==
  ASSUME AgentInv, NEW b \in Bridges, ConnectionEnds(b)
  PROVE  AgentInv'
<1>1. AgentTypeOK'
  BY DEF AgentInv, AgentTypeOK, ConnectionEnds
<1>2. BridgeInv'
  BY DEF AgentInv, BridgeInv, ConnectionEnds
<1>3. ClaimInv'
  BY DEF AgentInv, ClaimInv, ConnectionEnds
<1>4. WatchInv'
  BY DEF AgentInv, WatchInv, ConnectionEnds
<1>5. OwnerInv' /\ RunningIsWatched'
  BY DEF AgentInv, OwnerInv, RunningIsWatched, ConnectionEnds
<1> QED
  BY <1>1, <1>2, <1>3, <1>4, <1>5 DEF AgentInv

LEMMA MonitorSeesInv ==
  ASSUME AgentInv, NEW b \in Bridges, MonitorSees(b)
  PROVE  AgentInv'
<1>1. AgentTypeOK'
  BY DEF AgentInv, AgentTypeOK, AgentStates, Monitors, MonitorSees, MonitorTo
<1>2. BridgeInv'
  BY DEF AgentInv, AgentTypeOK, BridgeInv, MonitorSees, MonitorTo, IsRunning
<1>3. ClaimInv'
  BY DEF AgentInv, AgentTypeOK, ClaimInv, MonitorSees, MonitorTo, IsRunning
<1>4. WatchInv'
  BY BridgesAssumption DEF AgentInv, AgentTypeOK, BridgeInv, WatchInv, Bridges, MonitorSees,
     MonitorTo, IsRunning
<1>5. OwnerInv' /\ RunningIsWatched'
  BY BridgesAssumption DEF AgentInv, AgentTypeOK, BridgeInv, WatchInv, Bridges, OwnerInv,
     RunningIsWatched, MonitorSees, MonitorTo, IsRunning
<1> QED
  BY <1>1, <1>2, <1>3, <1>4, <1>5 DEF AgentInv

LEMMA MonitorReapInv ==
  ASSUME AgentInv, NEW b \in Bridges, MonitorReap(b)
  PROVE  AgentInv'
<1>1. AgentTypeOK'
  BY DEF AgentInv, AgentTypeOK, Monitors, MonitorReap, MonitorTo
<1>2. BridgeInv'
  BY DEF AgentInv, AgentTypeOK, BridgeInv, Bridges, MonitorReap, MonitorTo
<1>3. ClaimInv'
  BY DEF AgentInv, ClaimInv, MonitorReap, MonitorTo
<1>4. WatchInv'
  BY DEF AgentInv, WatchInv, MonitorReap, MonitorTo
<1>5. OwnerInv' /\ RunningIsWatched'
  BY DEF AgentInv, OwnerInv, RunningIsWatched, MonitorReap, MonitorTo
<1> QED
  BY <1>1, <1>2, <1>3, <1>4, <1>5 DEF AgentInv

LEMMA MonitorDemoteInv ==
  ASSUME AgentInv, NEW b \in Bridges, MonitorDemote(b)
  PROVE  AgentInv'
<1>1. AgentTypeOK'
  BY DEF AgentInv, AgentTypeOK, Monitors, MonitorDemote, MonitorTo
<1>2. BridgeInv'
  BY DEF AgentInv, BridgeInv, MonitorDemote, MonitorTo
<1>3. ClaimInv'
  BY DEF AgentInv, ClaimInv, MonitorDemote, MonitorTo
<1>4. WatchInv'
  BY DEF AgentInv, WatchInv, MonitorDemote, MonitorTo
<1>5. OwnerInv' /\ RunningIsWatched'
  BY DEF AgentInv, OwnerInv, RunningIsWatched, MonitorDemote, MonitorTo
<1> QED
  BY <1>1, <1>2, <1>3, <1>4, <1>5 DEF AgentInv

LEMMA MonitorSchedulesInv ==
  ASSUME AgentInv, NEW b \in Bridges, MonitorSchedules(b)
  PROVE  AgentInv'
<1>1. AgentTypeOK'
  BY DEF AgentInv, AgentTypeOK, Monitors, MonitorSchedules, MonitorTo
<1>2. BridgeInv'
  BY DEF AgentInv, BridgeInv, MonitorSchedules, MonitorTo
<1>3. ClaimInv'
  BY DEF AgentInv, ClaimInv, MonitorSchedules, MonitorTo
<1>4. WatchInv'
  BY DEF AgentInv, WatchInv, MonitorSchedules, MonitorTo
<1>5. OwnerInv' /\ RunningIsWatched'
  BY DEF AgentInv, OwnerInv, RunningIsWatched, MonitorSchedules, MonitorTo
<1> QED
  BY <1>1, <1>2, <1>3, <1>4, <1>5 DEF AgentInv

LEMMA MonitorGivesUpInv ==
  ASSUME AgentInv, NEW b \in Bridges, MonitorGivesUp(b)
  PROVE  AgentInv'
<1>1. AgentTypeOK'
  BY DEF AgentInv, AgentTypeOK, Monitors, MonitorGivesUp, MonitorTo
<1>2. BridgeInv'
  BY DEF AgentInv, BridgeInv, MonitorGivesUp, MonitorTo
<1>3. ClaimInv'
  BY DEF AgentInv, ClaimInv, MonitorGivesUp, MonitorTo
<1>4. WatchInv'
  BY DEF AgentInv, WatchInv, MonitorGivesUp, MonitorTo
<1>5. OwnerInv' /\ RunningIsWatched'
  BY DEF AgentInv, OwnerInv, RunningIsWatched, MonitorGivesUp, MonitorTo
<1> QED
  BY <1>1, <1>2, <1>3, <1>4, <1>5 DEF AgentInv

LEMMA MonitorWakesInv ==
  ASSUME AgentInv, NEW b \in Bridges, MonitorWakes(b)
  PROVE  AgentInv'
<1>1. AgentTypeOK'
  BY DEF AgentInv, AgentTypeOK, AgentStates, Monitors, MonitorWakes, MonitorTo
<1>2. BridgeInv'
  BY DEF AgentInv, AgentTypeOK, BridgeInv, MonitorWakes, MonitorTo, MayStart
<1>3. ClaimInv'
  BY DEF AgentInv, AgentTypeOK, ClaimInv, MonitorWakes, MonitorTo, MayStart
<1>4. WatchInv'
  BY BridgesAssumption DEF AgentInv, AgentTypeOK, BridgeInv, WatchInv, Bridges, MonitorWakes,
     MonitorTo, MayStart
<1>5. OwnerInv' /\ RunningIsWatched'
  BY BridgesAssumption DEF AgentInv, AgentTypeOK, BridgeInv, Bridges, OwnerInv,
     RunningIsWatched, MonitorWakes, MonitorTo
<1> QED
  BY <1>1, <1>2, <1>3, <1>4, <1>5 DEF AgentInv

LEMMA RestartOkInv ==
  ASSUME AgentInv, NEW b \in Bridges, RestartOk(b)
  PROVE  AgentInv'
<1>1. AgentTypeOK'
  BY BridgesAssumption DEF AgentInv, AgentTypeOK, Bridges, AgentStates, Monitors, RestartOk,
     Spawned
<1>2. BridgeInv'
  BY DEF AgentInv, AgentTypeOK, BridgeInv, ClaimInv, RestartOk, Spawned
<1>3. ClaimInv'
  BY DEF AgentInv, AgentTypeOK, ClaimInv, TearingDown, RestartOk
<1>4. WatchInv'
  BY BridgesAssumption DEF AgentInv, AgentTypeOK, BridgeInv, ClaimInv, WatchInv, Bridges,
     RestartOk, Spawned
<1>5. OwnerInv' /\ RunningIsWatched'
  BY BridgesAssumption DEF AgentInv, AgentTypeOK, Bridges, OwnerInv, RunningIsWatched,
     RestartOk, Spawned
<1> QED
  BY <1>1, <1>2, <1>3, <1>4, <1>5 DEF AgentInv

LEMMA RestartWatchInv ==
  ASSUME AgentInv, NEW b \in Bridges, RestartWatch(b)
  PROVE  AgentInv'
<1>1. AgentTypeOK'
  BY DEF AgentInv, AgentTypeOK, Monitors, RestartWatch, MonitorTo
<1>2. BridgeInv'
  BY DEF AgentInv, BridgeInv, RestartWatch, MonitorTo
<1>3. ClaimInv'
  BY DEF AgentInv, ClaimInv, RestartWatch, MonitorTo
<1>4. WatchInv'
  BY DEF AgentInv, WatchInv, RestartWatch, MonitorTo
<1>5. OwnerInv' /\ RunningIsWatched'
  BY DEF AgentInv, OwnerInv, RunningIsWatched, RestartWatch, MonitorTo
<1> QED
  BY <1>1, <1>2, <1>3, <1>4, <1>5 DEF AgentInv

LEMMA RestartFailsInv ==
  ASSUME AgentInv, NEW b \in Bridges, RestartFails(b)
  PROVE  AgentInv'
<1>1. AgentTypeOK'
  BY DEF AgentInv, AgentTypeOK, AgentStates, Monitors, RestartFails, MonitorTo
<1>2. BridgeInv'
  BY DEF AgentInv, BridgeInv, ClaimInv, RestartFails, MonitorTo
<1>3. ClaimInv'
  BY DEF AgentInv, AgentTypeOK, ClaimInv, RestartFails, MonitorTo
<1>4. WatchInv'
  BY DEF AgentInv, ClaimInv, WatchInv, RestartFails
<1>5. OwnerInv' /\ RunningIsWatched'
  BY DEF OwnerInv, RunningIsWatched, RestartFails
<1> QED
  BY <1>1, <1>2, <1>3, <1>4, <1>5 DEF AgentInv

LEMMA BeginUpdateInv ==
  ASSUME AgentInv, NEW r \in BOOLEAN, BeginUpdate(r)
  PROVE  AgentInv'
<1>1. AgentTypeOK'
  BY DEF AgentInv, AgentTypeOK, AgentStates, BeginUpdate
<1>2. BridgeInv'
  BY DEF AgentInv, BridgeInv, BeginUpdate, MayStart
<1>3. ClaimInv'
  BY DEF AgentInv, ClaimInv, BeginUpdate, MayStart
<1>4. WatchInv'
  BY DEF AgentInv, WatchInv, BeginUpdate, MayStart
<1>5. OwnerInv' /\ RunningIsWatched'
  BY DEF OwnerInv, RunningIsWatched, BeginUpdate
<1> QED
  BY <1>1, <1>2, <1>3, <1>4, <1>5 DEF AgentInv

LEMMA FinishUpdateInv ==
  ASSUME AgentInv, FinishUpdate
  PROVE  AgentInv'
<1>1. AgentTypeOK'
  BY DEF AgentInv, AgentTypeOK, AgentStates, FinishUpdate
<1>2. BridgeInv'
  BY DEF AgentInv, BridgeInv, FinishUpdate
<1>3. ClaimInv'
  BY DEF AgentInv, ClaimInv, FinishUpdate
<1>4. WatchInv'
  BY DEF AgentInv, WatchInv, FinishUpdate
<1>5. OwnerInv' /\ RunningIsWatched'
  BY DEF OwnerInv, RunningIsWatched, FinishUpdate
<1> QED
  BY <1>1, <1>2, <1>3, <1>4, <1>5 DEF AgentInv

LEMMA RelaunchInv ==
  ASSUME AgentInv, Relaunch
  PROVE  AgentInv'
<1>0. /\ request' \in Requests
      /\ request'.phase = IF MayStart THEN "start" ELSE "none"
      /\ agent' = IF MayStart THEN "starting" ELSE agent
      /\ relaunch' = FALSE
      /\ request.phase = "none"
      /\ UNCHANGED <<bridge, alive, procs, planned, monitor, thenStart, drops>>
  BY RelaunchRequest DEF Relaunch, NoRequest
<1>1. AgentTypeOK'
  BY <1>0 DEF AgentInv, AgentTypeOK, AgentStates
<1>2. BridgeInv'
  BY <1>0 DEF AgentInv, BridgeInv, MayStart
<1>3. ClaimInv'
  BY <1>0 DEF AgentInv, ClaimInv, TearingDown, MayStart
<1>4. WatchInv'
  BY <1>0 DEF AgentInv, WatchInv
<1>5. OwnerInv' /\ RunningIsWatched'
  BY <1>0 DEF AgentInv, OwnerInv, RunningIsWatched
<1> QED
  BY <1>1, <1>2, <1>3, <1>4, <1>5 DEF AgentInv

-----------------------------------------------------------------------------
(* The invariant and what follows from it *)

LEMMA InitInv == AgentInit => AgentInv
<1> SUFFICES ASSUME AgentInit PROVE AgentInv
  OBVIOUS
<1>1. AgentTypeOK
  <2>1. request \in Requests
    BY DEF AgentInit, Requests, Phases, NoRequest
  <2>2. monitor \in [Bridges -> Monitors]
    BY DEF AgentInit, Monitors
  <2>3. thenStart \in BOOLEAN /\ relaunch \in BOOLEAN
    BY DEF AgentInit
  <2>4. bridge \in 0 .. MaxBridges /\ drops \in 0 .. MaxDrops
    BY BridgesAssumption, DropsAssumption DEF AgentInit
  <2> QED
    BY <2>1, <2>2, <2>4 DEF AgentInit, AgentTypeOK, AgentStates
<1>2. BridgeInv /\ ClaimInv /\ WatchInv /\ OwnerInv /\ RunningIsWatched
  BY DEF AgentInit, BridgeInv, ClaimInv, WatchInv, OwnerInv, RunningIsWatched, NoRequest,
     TearingDown
<1> QED
  BY <1>1, <1>2 DEF AgentInv

LEMMA NextInv == AgentInv /\ [AgentNext]_agentVars => AgentInv'
<1> SUFFICES ASSUME AgentInv, [AgentNext]_agentVars PROVE AgentInv'
  OBVIOUS
<1>1. CASE UNCHANGED agentVars
  BY <1>1 DEF agentVars, AgentInv, AgentTypeOK, BridgeInv, ClaimInv, WatchInv, OwnerInv,
     RunningIsWatched
<1>2. ASSUME NEW d \in BOOLEAN, Start(d) PROVE AgentInv'
  BY <1>2, StartInv
<1>3. ASSUME NEW a \in BOOLEAN, NEW d \in BOOLEAN, StopBegin(a, d) PROVE AgentInv'
  BY <1>3, StopBeginInv
<1>4. CASE Lifecycle
  BY <1>4, StartOkInv, StartWatchInv, StartFailsInv, StopDrainInv, StopSettledInv,
     StopTeardownInv, StopReapInv, StopDemoteInv DEF Lifecycle
<1>5. CASE DropRequest
  BY <1>5, DropRequestInv
<1>6. ASSUME NEW b \in Bridges, AgentExits(b) \/ ConnectionEnds(b) PROVE AgentInv'
  BY <1>6, AgentExitsInv, ConnectionEndsInv
<1>7. ASSUME NEW b \in Bridges, MonitorStep(b) PROVE AgentInv'
  BY <1>7, MonitorSeesInv, MonitorReapInv, MonitorDemoteInv, MonitorSchedulesInv,
     MonitorGivesUpInv, MonitorWakesInv, RestartOkInv, RestartWatchInv, RestartFailsInv DEF
     MonitorStep
<1>8. ASSUME NEW r \in BOOLEAN, BeginUpdate(r) PROVE AgentInv'
  BY <1>8, BeginUpdateInv
<1>9. CASE FinishUpdate \/ Relaunch
  BY <1>9, FinishUpdateInv, RelaunchInv
<1> QED
  BY <1>1, <1>2, <1>3, <1>4, <1>5, <1>6, <1>7, <1>8, <1>9 DEF AgentNext

\* The inductive invariant of the supervisor, for any number of bridges and of
\* dropped request futures.
THEOREM Invariance == AgentSpec => []AgentInv
<1>1. AgentInit => AgentInv
  BY InitInv
<1>2. AgentInv /\ [AgentNext]_agentVars => AgentInv'
  BY NextInv
<1> QED
  BY <1>1, <1>2, PTL DEF AgentSpec

\* Type correctness: the supervisor's states, requests and monitors stay in their
\* sets and only spawnable bridges are connected, alive or torn down.
THEOREM TypeCorrect == AgentSpec => []AgentTypeOK
<1>1. AgentInv => AgentTypeOK
  BY DEF AgentInv
<1> QED
  BY <1>1, Invariance, PTL

\* A Starting state has one owner and no other state has one; a Stopping state is
\* the one of the request that tears the bridge down.
LEMMA OneOwner == AgentInv => TransitionOwned
<1> SUFFICES ASSUME AgentInv, drops = 0 PROVE TransitionOwned
  BY DEF TransitionOwned
<1>1. (agent = "stopping") <=> (request.phase \in TearingDown)
  BY DEF AgentInv, ClaimInv, OwnerInv
<1>2. CASE agent # "starting"
  <2>1. Owners = {}
    BY <1>2 DEF AgentInv, ClaimInv, Owners
  <2>2. Cardinality(Owners) = 0
    BY <2>1, FS_EmptySet
  <2> QED
    BY <1>1, <1>2, <2>2 DEF TransitionOwned
<1>3. CASE agent = "starting"
  <2>1. \E x : Owners = {x}
    <3>1. CASE request.phase = "start"
      <4>1. Owners = {0}
        BY <3>1 DEF AgentInv, ClaimInv, Owners
      <4> QED
        BY <4>1
    <3>2. CASE request.phase # "start"
      <4>1. PICK b \in Bridges : monitor[b] = "restart"
        BY <1>3, <3>2 DEF AgentInv, OwnerInv
      <4>2. Owners = {b}
        BY <4>1 DEF AgentInv, ClaimInv, Owners
      <4> QED
        BY <4>2
    <3> QED
      BY <3>1, <3>2
  <2>2. Cardinality(Owners) = 1
    BY <2>1, FS_Singleton
  <2> QED
    BY <1>1, <1>3, <2>2 DEF TransitionOwned
<1> QED
  BY <1>2, <1>3

\* Every in-between state of the supervisor has the one actor that will end it, in
\* every behaviour in which no request future is dropped (start, stop_inner,
\* monitor_bridge_exit).
THEOREM TransitionsOwned == AgentSpec => []TransitionOwned
  BY OneOwner, Invariance, PTL

\* A running agent has its exit monitor, or the actor that will spawn it, in every
\* behaviour in which no request future is dropped.
THEOREM RunningWatched == AgentSpec => []RunningIsWatched
<1>1. AgentInv => RunningIsWatched
  BY DEF AgentInv
<1> QED
  BY <1>1, Invariance, PTL

-----------------------------------------------------------------------------
(* The supervisor implements AgentLife *)

LEMMA StartLife ==
  ASSUME AgentInv, NEW d \in BOOLEAN, Start(d)
  PROVE  UNCHANGED Life!lifeVars
  BY DEF Start, MayStart, NoRequest, Life!lifeVars

LEMMA StartWatchLife ==
  ASSUME AgentInv, StartWatch
  PROVE  UNCHANGED Life!lifeVars
  BY DEF AgentInv, WatchInv, StartWatch, NoRequest, Life!lifeVars

LEMMA StartFailsLife ==
  ASSUME AgentInv, StartFails
  PROVE  UNCHANGED Life!lifeVars
  BY DEF AgentInv, ClaimInv, StartFails, NoRequest, Life!lifeVars

LEMMA StopSettledLife ==
  ASSUME AgentInv, StopSettled
  PROVE  UNCHANGED Life!lifeVars
  BY DEF StopSettled, Phase, Life!lifeVars

LEMMA StopReapLife ==
  ASSUME AgentInv, StopReap
  PROVE  UNCHANGED Life!lifeVars
  BY DEF AgentInv, ClaimInv, TearingDown, StopReap, Phase, Life!lifeVars

LEMMA MonitorReapLife ==
  ASSUME AgentInv, NEW b \in Bridges, MonitorReap(b)
  PROVE  UNCHANGED Life!lifeVars
  BY DEF MonitorReap, MonitorTo, Life!lifeVars

LEMMA MonitorSchedulesLife ==
  ASSUME AgentInv, NEW b \in Bridges, MonitorSchedules(b)
  PROVE  UNCHANGED Life!lifeVars
  BY DEF MonitorSchedules, MonitorTo, Life!lifeVars

LEMMA MonitorGivesUpLife ==
  ASSUME AgentInv, NEW b \in Bridges, MonitorGivesUp(b)
  PROVE  UNCHANGED Life!lifeVars
  BY DEF MonitorGivesUp, MonitorTo, Life!lifeVars

LEMMA MonitorWakesLife ==
  ASSUME AgentInv, NEW b \in Bridges, MonitorWakes(b)
  PROVE  UNCHANGED Life!lifeVars
  BY DEF AgentInv, AgentTypeOK, MonitorWakes, MonitorTo, MayStart, Life!lifeVars

LEMMA RestartWatchLife ==
  ASSUME AgentInv, NEW b \in Bridges, RestartWatch(b)
  PROVE  UNCHANGED Life!lifeVars
  BY DEF RestartWatch, MonitorTo, Life!lifeVars

LEMMA RestartFailsLife ==
  ASSUME AgentInv, NEW b \in Bridges, RestartFails(b)
  PROVE  UNCHANGED Life!lifeVars
  BY DEF AgentInv, ClaimInv, RestartFails, MonitorTo, Life!lifeVars

LEMMA BeginUpdateLife ==
  ASSUME AgentInv, NEW r \in BOOLEAN, BeginUpdate(r)
  PROVE  UNCHANGED Life!lifeVars
  BY DEF BeginUpdate, MayStart, Life!lifeVars

LEMMA FinishUpdateLife ==
  ASSUME AgentInv, FinishUpdate
  PROVE  UNCHANGED Life!lifeVars
  BY DEF FinishUpdate, Life!lifeVars

LEMMA StopBeginLife ==
  ASSUME AgentInv, NEW a \in BOOLEAN, NEW d \in BOOLEAN, StopBegin(a, d)
  PROVE  Life!LifeStop
  BY DEF AgentInv, BridgeInv, StopBegin, NoRequest, Life!LifeStop

LEMMA StopDrainLife ==
  ASSUME AgentInv, StopDrain
  PROVE  Life!LifeDrain
  BY DEF StopDrain, Phase, Life!LifeDrain

LEMMA StopTeardownLife ==
  ASSUME AgentInv, StopTeardown
  PROVE  Life!LifeTeardown
  BY DEF StopTeardown, Teardown, Phase, Life!LifeTeardown

LEMMA ConnectionEndsLife ==
  ASSUME AgentInv, NEW b \in Bridges, ConnectionEnds(b)
  PROVE  Life!LifeExit
  BY DEF ConnectionEnds, Life!LifeExit

LEMMA MonitorDemoteLife ==
  ASSUME AgentInv, NEW b \in Bridges, MonitorDemote(b)
  PROVE  Life!LifeCrashDemote
  BY DEF AgentInv, AgentTypeOK, MonitorDemote, MonitorTo, Life!LifeCrashDemote
LEMMA StartOkLife ==
  ASSUME AgentInv, StartOk
  PROVE  Life!LifeSpawn
  BY DEF AgentInv, BridgeInv, ClaimInv, StartOk, Spawned, Phase, Life!LifeSpawn

LEMMA RestartOkLife ==
  ASSUME AgentInv, NEW b \in Bridges, RestartOk(b)
  PROVE  Life!LifeSpawn
  BY DEF AgentInv, AgentTypeOK, BridgeInv, ClaimInv, TearingDown, RestartOk, Spawned,
     Life!LifeSpawn

LEMMA StopDemoteLife ==
  ASSUME AgentInv, StopDemote
  PROVE  Life!LifeDemote
<1>1. /\ request'.phase = IF request.again /\ MayStart THEN "start" ELSE "none"
      /\ agent' = IF request.again /\ MayStart THEN "starting" ELSE agent
      /\ request.phase = "demote"
      /\ UNCHANGED <<bridge, alive, monitor>>
  BY StopDemoteRequest DEF AgentInv, StopDemote
<1> QED
  BY <1>1 DEF MayStart, Life!LifeDemote

LEMMA RelaunchLife ==
  ASSUME AgentInv, Relaunch
  PROVE  UNCHANGED Life!lifeVars
<1>1. /\ request'.phase = IF MayStart THEN "start" ELSE "none"
      /\ agent' = IF MayStart THEN "starting" ELSE agent
      /\ request.phase = "none"
      /\ UNCHANGED <<bridge, alive, monitor>>
  BY RelaunchRequest DEF Relaunch, NoRequest
<1> QED
  BY <1>1 DEF MayStart, Life!lifeVars

\* The future of a stop lets go of the gate; any other changes nothing here.
LEMMA DropRequestLife ==
  ASSUME AgentInv, DropRequest
  PROVE  Life!LifeDrop \/ UNCHANGED Life!lifeVars
<1>1. /\ request'.phase = "none"
      /\ UNCHANGED <<agent, bridge, alive, monitor>>
  BY DEF DropRequest, NoRequest
<1>2. CASE request.phase \in {"none", "start", "watch"}
  BY <1>1, <1>2 DEF Life!lifeVars
<1>3. CASE request.phase \notin {"none", "start", "watch"}
  <2>1. request.phase \in {"drain", "settle", "teardown", "reap", "demote"}
    BY <1>3 DEF AgentInv, AgentTypeOK, Requests, Phases
  <2> QED
    BY <1>1, <2>1 DEF Life!LifeDrop
<1> QED
  BY <1>2, <1>3

LEMMA AgentExitsLife ==
  ASSUME AgentInv, NEW b \in Bridges, AgentExits(b)
  PROVE  Life!LifeExit \/ UNCHANGED Life!lifeVars
<1>1. CASE b \in alive
  BY <1>1 DEF AgentExits, Life!LifeExit
<1>2. CASE b \notin alive
  BY <1>2 DEF AgentExits, Life!lifeVars
<1> QED
  BY <1>1, <1>2

\* A crash the monitor is the first to notice is a crash of the serving bridge.
LEMMA MonitorSeesLife ==
  ASSUME AgentInv, NEW b \in Bridges, MonitorSees(b)
  PROVE  Life!LifeCrash \/ UNCHANGED Life!lifeVars
<1>1. CASE b \notin planned /\ IsRunning(b)
  BY <1>1 DEF AgentInv, AgentTypeOK, BridgeInv, MonitorSees, MonitorTo, IsRunning,
     Life!LifeCrash, Life!Bridges
<1>2. CASE ~(b \notin planned /\ IsRunning(b))
  BY <1>2 DEF AgentInv, AgentTypeOK, MonitorSees, MonitorTo, Life!lifeVars
<1> QED
  BY <1>1, <1>2

\* Every step of the supervisor is a step of AgentLife or leaves it alone.
LEMMA LifeStep == AgentInv /\ [AgentNext]_agentVars => [Life!LifeNext]_Life!lifeVars
<1> SUFFICES ASSUME AgentInv, [AgentNext]_agentVars
             PROVE  Life!LifeNext \/ UNCHANGED Life!lifeVars
  OBVIOUS
<1> USE DEF Life!LifeNext
<1>1. CASE UNCHANGED agentVars
  BY <1>1 DEF agentVars, Life!lifeVars
<1>2. ASSUME NEW d \in BOOLEAN, Start(d) PROVE UNCHANGED Life!lifeVars
  BY <1>2, StartLife
<1>3. ASSUME NEW a \in BOOLEAN, NEW d \in BOOLEAN, StopBegin(a, d) PROVE Life!LifeNext
  BY <1>3, StopBeginLife
<1>4. CASE Lifecycle
  BY <1>4, StartOkLife, StartWatchLife, StartFailsLife, StopDrainLife, StopSettledLife,
     StopTeardownLife, StopReapLife, StopDemoteLife DEF Lifecycle
<1>5. CASE DropRequest
  BY <1>5, DropRequestLife
<1>6. ASSUME NEW b \in Bridges, AgentExits(b) \/ ConnectionEnds(b)
      PROVE  Life!LifeNext \/ UNCHANGED Life!lifeVars
  BY <1>6, AgentExitsLife, ConnectionEndsLife
<1>7. ASSUME NEW b \in Bridges, MonitorStep(b)
      PROVE  Life!LifeNext \/ UNCHANGED Life!lifeVars
  BY <1>7, MonitorSeesLife, MonitorReapLife, MonitorDemoteLife, MonitorSchedulesLife,
     MonitorGivesUpLife, MonitorWakesLife, RestartOkLife, RestartWatchLife, RestartFailsLife
     DEF MonitorStep
<1>8. ASSUME NEW r \in BOOLEAN, BeginUpdate(r) PROVE UNCHANGED Life!lifeVars
  BY <1>8, BeginUpdateLife
<1>9. CASE FinishUpdate \/ Relaunch
  BY <1>9, FinishUpdateLife, RelaunchLife
<1> QED
  BY <1>1, <1>2, <1>3, <1>4, <1>5, <1>6, <1>7, <1>8, <1>9 DEF AgentNext

\* The supervisor implements AgentLife: whatever requests, monitors, updates and
\* dropped futures do together, one bridge is handed out at a time, none is spawned
\* beside a connected one, and a stop keeps the gate until it has demoted the
\* sessions.
THEOREM Implementation == AgentSpec => ImplementsLife
<1>1. AgentInit => Life!LifeInit
  BY DEF AgentInit, Life!LifeInit, NoRequest
<1>2. AgentInv /\ [AgentNext]_agentVars => [Life!LifeNext]_Life!lifeVars
  BY LifeStep
<1> QED
  BY <1>1, <1>2, Invariance, PTL DEF AgentSpec, ImplementsLife, Life!LifeSpec

=============================================================================
