------------------------------- MODULE AgentLife -------------------------------
(***************************************************************************)
(* What the agent supervisor promises to the turns and sessions that use   *)
(* its bridges: at most one bridge is handed out, a new one only when no   *)
(* other is connected, a stop holds the dispatch gate until it has demoted *)
(* the sessions, and a crashed bridge has its sessions demoted some time   *)
(* later, by then perhaps under a new bridge.  AgentSupervisor is shown to *)
(* implement it.                                                           *)
(***************************************************************************)
EXTENDS Naturals

CONSTANT MaxBridges   \* bound: bridges spawned in one behaviour

ASSUME BridgesAssumption == MaxBridges \in Nat

VARIABLES serving,  \* the bridge that bridge() hands out; 0 is none
          spawned,  \* bridges spawned so far
          alive,    \* bridges whose connection is up
          stop,     \* what the stop holding the gate's write side does next
          crashed   \* crashed bridges whose sessions have yet to be demoted

lifeVars == <<serving, spawned, alive, stop, crashed>>

Bridges == 1 .. MaxBridges
Stops   == {"none", "drain", "teardown", "demote"}

LifeInit ==
  /\ serving = 0 /\ spawned = 0
  /\ alive = {}
  /\ stop = "none"
  /\ crashed = {}

\* a bridge comes up; a monitor may do this while a stop is at its demotion
LifeSpawn ==
  /\ serving = 0 /\ alive = {}
  /\ stop \in {"none", "demote"}
  /\ spawned < MaxBridges
  /\ spawned' = spawned + 1
  /\ serving' = spawned + 1
  /\ alive' = {spawned + 1}
  /\ UNCHANGED <<stop, crashed>>

\* the agent's connection ends, at any time
LifeExit ==
  /\ \E b \in alive : alive' = alive \ {b}
  /\ UNCHANGED <<serving, spawned, stop, crashed>>

\* its monitor notices
LifeCrash ==
  /\ serving \in Bridges \ alive
  /\ crashed' = crashed \cup {serving}
  /\ serving' = 0
  /\ UNCHANGED <<spawned, alive, stop>>

LifeCrashDemote ==
  /\ \E b \in crashed : crashed' = crashed \ {b}
  /\ UNCHANGED <<serving, spawned, alive, stop>>

LifeStop ==
  /\ serving # 0 /\ stop = "none"
  /\ serving' = 0
  /\ stop' = "drain"
  /\ UNCHANGED <<spawned, alive, crashed>>

LifeDrain ==
  /\ stop = "drain"
  /\ stop' = "teardown"
  /\ UNCHANGED <<serving, spawned, alive, crashed>>

LifeTeardown ==
  /\ stop = "teardown"
  /\ stop' = "demote"
  /\ alive' = alive \ {spawned}
  /\ UNCHANGED <<serving, spawned, crashed>>

LifeDemote ==
  /\ stop = "demote"
  /\ stop' = "none"
  /\ UNCHANGED <<serving, spawned, alive, crashed>>

\* the stop's future is dropped and lets go of the gate
LifeDrop ==
  /\ stop # "none"
  /\ stop' = "none"
  /\ UNCHANGED <<serving, spawned, alive, crashed>>

LifeNext ==
  \/ LifeSpawn \/ LifeExit \/ LifeCrash \/ LifeCrashDemote
  \/ LifeStop \/ LifeDrain \/ LifeTeardown \/ LifeDemote \/ LifeDrop

LifeSpec == LifeInit /\ [][LifeNext]_lifeVars

LifeTypeOK ==
  /\ serving \in 0 .. MaxBridges /\ spawned \in 0 .. MaxBridges
  /\ alive \subseteq Bridges /\ crashed \subseteq Bridges
  /\ stop \in Stops
=============================================================================
