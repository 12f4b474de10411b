------------------------- MODULE AgentSwitch_proofs -------------------------
(***************************************************************************)
(* Machine-checked proofs about the agent switch and its journal, for any  *)
(* targets and selections and any number of switches and faults.           *)
(***************************************************************************)
EXTENDS AgentSwitch, TLAPS

-----------------------------------------------------------------------------
(* Requests, journals and candidates *)

\* A request is told by its phase, and so is a journal.
LEMMA RequestPhase ==
  ASSUME req \in Requests
  PROVE  /\ req = NoRequest <=> req.phase = "none"
         /\ req = NoRequest <=> req.phase \notin Steps
  BY DEF Requests, NoRequest, Steps

LEMMA JournalPhase ==
  ASSUME journal \in Journals
  PROVE  journal = NoJournal <=> journal.phase \notin Phases
  BY DEF Journals, NoJournal, Phases

LEMMA RequestFields ==
  ASSUME req \in Requests, req # NoRequest
  PROVE  /\ req.body \in Bodies /\ req.old \in Targets /\ req.cand \in Configs
         /\ req.resume \in Journals /\ req.run \in BOOLEAN /\ req.renames \in BOOLEAN
         /\ req.phase \in Steps
  BY DEF Requests

LEMMA JournalFields ==
  ASSUME journal \in Journals, journal # NoJournal
  PROVE  /\ journal.old \in Targets /\ journal.new \in Targets /\ journal.candidate \in Configs
         /\ journal.run \in BOOLEAN /\ journal.phase \in Phases
  BY DEF Journals

\* The handler's next step changes the phase of its request only.
LEMMA ToStepType ==
  ASSUME req \in Requests, req # NoRequest, NEW st \in Steps, ToStep(st)
  PROVE  /\ req' \in Requests /\ req' # NoRequest /\ req'.phase = st
         /\ req'.body = req.body /\ req'.old = req.old /\ req'.cand = req.cand
         /\ req'.resume = req.resume /\ req'.run = req.run /\ req'.renames = req.renames
<1>1. req \in [phase : Steps, body : Bodies, old : Targets, cand : Configs,
               resume : Journals, run : BOOLEAN, renames : BOOLEAN]
  BY DEF Requests
<1>2. /\ req' \in [phase : Steps, body : Bodies, old : Targets, cand : Configs,
                   resume : Journals, run : BOOLEAN, renames : BOOLEAN]
      /\ req'.phase = st
      /\ req'.body = req.body /\ req'.old = req.old /\ req'.cand = req.cand
      /\ req'.resume = req.resume /\ req'.run = req.run /\ req'.renames = req.renames
  BY <1>1 DEF ToStep
<1>3. req' # NoRequest
  BY <1>2 DEF NoRequest, Steps
<1> QED
  BY <1>2, <1>3 DEF Requests

\* And so does the journal's next phase.
LEMMA JournalTo ==
  ASSUME journal \in Journals, journal # NoJournal, NEW st \in Phases,
         journal' = [journal EXCEPT !.phase = st]
  PROVE  /\ journal' \in Journals /\ journal' # NoJournal /\ journal'.phase = st
         /\ journal'.old = journal.old /\ journal'.new = journal.new
         /\ journal'.candidate = journal.candidate
<1>1. journal \in [phase : Phases, old : Targets, new : Targets,
                   candidate : Configs, run : BOOLEAN, model : 0 .. MaxSel]
  BY DEF Journals
<1>2. /\ journal' \in [phase : Phases, old : Targets, new : Targets,
                       candidate : Configs, run : BOOLEAN, model : 0 .. MaxSel]
      /\ journal'.phase = st
      /\ journal'.old = journal.old /\ journal'.new = journal.new
      /\ journal'.candidate = journal.candidate
  BY <1>1
<1>3. journal' # NoJournal
  BY <1>2 DEF NoJournal, Phases
<1> QED
  BY <1>2, <1>3 DEF Journals

LEMMA BodyFields ==
  ASSUME NEW b \in Bodies
  PROVE  b.target \in Targets /\ b.sel \in 0 .. MaxSel /\ b.sel # 0 /\ b.kind \in Kinds
  BY SelAssumption DEF Bodies, Sels

\* The candidate of a body is a config whose primary target is the body's.
LEMMA CandidateType ==
  ASSUME config \in Configs, NEW b \in Bodies
  PROVE  Candidate(b) \in Configs /\ Candidate(b).primary = b.target
<1>1. /\ config.primary \in Targets /\ config.sel \in [Targets -> 0 .. MaxSel]
      /\ config = [primary |-> config.primary, sel |-> config.sel]
  BY DEF Configs
<1>2. b.target \in Targets /\ b.sel \in 0 .. MaxSel
  BY BodyFields
<1>3. CASE b.target = config.primary
  <2>1. Candidate(b) = [config EXCEPT !.sel[b.target] = b.sel]
    BY <1>3 DEF Candidate
  <2>2. [config EXCEPT !.sel[b.target] = b.sel] \in Configs
    BY <1>1, <1>2 DEF Configs
  <2> QED
    BY <1>1, <1>3, <2>1, <2>2
<1>4. CASE b.target # config.primary /\ config.sel[b.target] # 0
  BY <1>1, <1>2, <1>4 DEF Candidate, Configs
<1>5. CASE b.target # config.primary /\ config.sel[b.target] = 0
  <2>1. Candidate(b) = [primary |-> b.target,
                        sel |-> [config.sel EXCEPT ![config.primary] = 0, ![b.target] = b.sel]]
    BY <1>5 DEF Candidate
  <2>2. [config.sel EXCEPT ![config.primary] = 0, ![b.target] = b.sel] \in [Targets -> 0 .. MaxSel]
    BY <1>1, <1>2, SelAssumption
  <2> QED
    BY <1>2, <2>1, <2>2 DEF Configs
<1> QED
  BY <1>3, <1>4, <1>5

\* The live configs after a refresh: a known target keeps what it has.
LEMMA RefreshedType ==
  ASSUME config \in Configs, live \in [Targets -> 0 .. MaxSel]
  PROVE  /\ Refreshed \in [Targets -> 0 .. MaxSel]
         /\ \A t \in Targets : Refreshed[t] = IF live[t] = 0 THEN config.sel[t] ELSE live[t]
  BY DEF Refreshed, Configs

-----------------------------------------------------------------------------
(* Each action preserves the invariant *)

LEMMA InitInv == SwitchInit => SwitchInv
<1> SUFFICES ASSUME SwitchInit PROVE SwitchInv
  OBVIOUS
<1>1. config \in Configs /\ config.primary \in Targets /\ config.sel \in [Targets -> 0 .. MaxSel]
  BY DEF SwitchInit, Configs
<1>2. /\ journal = NoJournal /\ journal \in Journals
      /\ req = NoRequest /\ req.phase = "none" /\ req \in Requests
  BY DEF SwitchInit, Journals, Requests, NoRequest
<1>3. SwitchTypeOK
  BY <1>1, <1>2, SelAssumption, SwitchesAssumption, SwitchEventsAssumption
     DEF SwitchInit, SwitchTypeOK
<1>4. CandidateInv /\ PlanInv /\ HandlerInv /\ JournalTellsTheTruth
  BY <1>2 DEF CandidateInv, PlanInv, HandlerInv, JournalTellsTheTruth, Steps
<1> QED
  BY <1>3, <1>4 DEF SwitchInv

\* Steps that touch neither the config, the journal, the request nor the live configs.
LEMMA FrameInv ==
  ASSUME SwitchInv, SwitchTypeOK', UNCHANGED <<config, journal, live, req, edits>>
  PROVE  SwitchInv'
<1>1. CandidateInv' /\ PlanInv' /\ HandlerInv' /\ JournalTellsTheTruth'
  BY DEF SwitchInv, CandidateInv, PlanInv, HandlerInv, JournalTellsTheTruth, Incomplete
<1> QED
  BY <1>1 DEF SwitchInv

\* Steps after which no request is under way.
LEMMA IdleInv ==
  ASSUME SwitchTypeOK', req' = NoRequest,
         journal' # NoJournal => journal'.candidate.primary = journal'.new,
         JournalTellsTheTruth'
  PROVE  SwitchInv'
<1>1. req'.phase = "none"
  BY DEF NoRequest
<1>2. CandidateInv' /\ PlanInv' /\ HandlerInv'
  BY <1>1 DEF CandidateInv, PlanInv, HandlerInv, Steps
<1> QED
  BY <1>2 DEF SwitchInv

\* A plan is made from the config on disk, against the journal if that one is of an
\* unfinished switch.
LEMMA PlanStepInv ==
  ASSUME SwitchInv, NEW b \in Bodies, NEW resume \in Journals, Plan(b, resume),
         Incomplete => resume = journal /\ b.target = journal.new,
         switches' \in 0 .. MaxSwitches,
         UNCHANGED <<config, journal, rows, live, agentsVars, client, edits, events>>
  PROVE  SwitchInv'
<1>1. Candidate(b) \in Configs /\ Candidate(b).primary = b.target
  BY CandidateType DEF SwitchInv, SwitchTypeOK
<1>2. config.primary \in Targets
  BY DEF SwitchInv, SwitchTypeOK, Configs
<1> DEFINE new == b.target # config.primary /\ config.sel[b.target] = 0
<1>3. req' = [phase |-> "prepare", body |-> b, old |-> config.primary,
              cand |-> Candidate(b), resume |-> resume, run |-> FALSE, renames |-> new]
  BY DEF Plan
<1>4. new \in BOOLEAN
  OBVIOUS
<1>5. new => b.target # config.primary
  OBVIOUS
<1> HIDE DEF new
<1>6. /\ req' \in Requests /\ req' # NoRequest /\ req'.phase = "prepare"
      /\ req'.body = b /\ req'.old = config.primary /\ req'.cand = Candidate(b)
      /\ req'.resume = resume /\ req'.renames = new
  BY <1>1, <1>2, <1>3, <1>4 DEF Requests, Steps, NoRequest
<1>7. SwitchTypeOK'
  BY <1>6 DEF SwitchInv, SwitchTypeOK, agentsVars
<1>8. CandidateInv'
  BY <1>1, <1>6 DEF SwitchInv, CandidateInv
<1>9. PlanInv'
  BY <1>1, <1>5, <1>6 DEF SwitchInv, PlanInv, Incomplete
<1>10. HandlerInv'
  BY <1>6 DEF HandlerInv
<1>11. JournalTellsTheTruth'
  BY DEF SwitchInv, JournalTellsTheTruth
<1> QED
  BY <1>7, <1>8, <1>9, <1>10, <1>11 DEF SwitchInv

LEMMA PlanFreshInv ==
  ASSUME SwitchInv, NEW b \in Bodies, PlanFresh(b)
  PROVE  SwitchInv'
<1>1. NoJournal \in Journals
  BY DEF Journals
<1>2. switches' \in 0 .. MaxSwitches
  BY SwitchesAssumption DEF SwitchInv, SwitchTypeOK, PlanFresh
<1> QED
  BY <1>1, <1>2, PlanStepInv DEF PlanFresh

LEMMA PlanAgainInv ==
  ASSUME SwitchInv, NEW b \in Bodies, PlanAgain(b)
  PROVE  SwitchInv'
<1>1. journal \in Journals /\ switches' \in 0 .. MaxSwitches
  BY DEF SwitchInv, SwitchTypeOK, PlanAgain
<1>2. b.target = journal.new
  BY DEF PlanAgain, AtCommitBoundary, SameTarget
<1> QED
  BY <1>1, <1>2, PlanStepInv DEF PlanAgain

\* Resuming finds the journaled candidate on disk.
LEMMA ResumeCommittedInv ==
  ASSUME SwitchInv, NEW b \in Bodies, ResumeCommitted(b)
  PROVE  SwitchInv'
<1>1. /\ Incomplete /\ b.target = journal.new /\ config = journal.candidate
      /\ live' = Refreshed
      /\ UNCHANGED <<config, journal, rows, agentsVars, client, switches, edits, events>>
  BY DEF ResumeCommitted, Resumable, SameTarget, CandidateOnDisk
<1>2. journal \in Journals /\ journal # NoJournal
  BY <1>1, JournalPhase DEF SwitchInv, SwitchTypeOK, Incomplete
<1>3. journal.old \in Targets /\ journal.new \in Targets /\ journal.run \in BOOLEAN
  BY <1>2, JournalFields
<1>4. req' = [phase |-> "apply", body |-> b, old |-> journal.old, cand |-> config,
              resume |-> journal, run |-> journal.run, renames |-> FALSE]
  BY DEF ResumeCommitted
<1>5. config \in Configs
  BY DEF SwitchInv, SwitchTypeOK
<1>6. /\ req' \in Requests /\ req' # NoRequest /\ req'.phase = "apply"
      /\ req'.body = b /\ req'.cand = config
  BY <1>2, <1>3, <1>4, <1>5 DEF Requests, Steps, NoRequest
<1>7. live' \in [Targets -> 0 .. MaxSel]
  BY <1>1, RefreshedType DEF SwitchInv, SwitchTypeOK
<1>8. SwitchTypeOK'
  BY <1>1, <1>6, <1>7 DEF SwitchInv, SwitchTypeOK, agentsVars
<1>9. config.primary = journal.new
  BY <1>1, <1>2 DEF SwitchInv, CandidateInv
<1>10. CandidateInv' /\ PlanInv' /\ HandlerInv'
  BY <1>1, <1>6, <1>9 DEF SwitchInv, CandidateInv, PlanInv, HandlerInv, Incomplete
<1>11. live[journal.new] = journal.candidate.sel[journal.new] =>
         live'[journal.new] = journal.candidate.sel[journal.new]
  BY <1>1, <1>3, RefreshedType DEF SwitchInv, SwitchTypeOK
<1>12. JournalTellsTheTruth'
  BY <1>1, <1>11 DEF SwitchInv, JournalTellsTheTruth
<1> QED
  BY <1>8, <1>10, <1>12 DEF SwitchInv

LEMMA PersistPlannedInv ==
  ASSUME SwitchInv, PersistPlanned
  PROVE  SwitchInv'
<1> DEFINE run == req.body.kind = "provider" \/ proc[req.old] # 0
           model == IF req.body.kind = "model" THEN req.body.sel ELSE 0
           next == IF req.renames THEN "rename" ELSE "write"
<1>1. /\ req.phase = "prepare"
      /\ journal' = [phase |-> "planned", old |-> req.old, new |-> req.body.target,
                     candidate |-> req.cand, run |-> run, model |-> model]
      /\ req' = [req EXCEPT !.run = run, !.phase = next]
      /\ client' = req.body
      /\ UNCHANGED <<config, rows, live, agentsVars, switches, edits, events>>
  BY Zenon DEF PersistPlanned
<1>2. /\ req \in Requests /\ req # NoRequest
  BY <1>1 DEF SwitchInv, SwitchTypeOK, NoRequest
<1>3. /\ req.body \in Bodies /\ req.old \in Targets /\ req.cand \in Configs
      /\ req.resume \in Journals /\ req.renames \in BOOLEAN
  BY <1>2, RequestFields
<1>4. run \in BOOLEAN /\ model \in 0 .. MaxSel /\ next \in {"rename", "write"}
      /\ (next = "rename" => req.renames)
  BY <1>3, BodyFields, SelAssumption
<1>5. req.body.target \in Targets /\ req.cand.primary = req.body.target
  BY <1>2, <1>3, BodyFields DEF SwitchInv, CandidateInv
<1> HIDE DEF run, model, next
<1>6. /\ journal' \in Journals /\ journal' # NoJournal /\ journal'.phase = "planned"
      /\ journal'.old = req.old /\ journal'.new = req.body.target /\ journal'.candidate = req.cand
  BY <1>1, <1>3, <1>4, <1>5 DEF Journals, NoJournal, Phases
<1>7. req' = [phase |-> next, body |-> req.body, old |-> req.old, cand |-> req.cand,
              resume |-> req.resume, run |-> run, renames |-> req.renames]
  <2>1. req \in [phase : Steps, body : Bodies, old : Targets, cand : Configs,
                 resume : Journals, run : BOOLEAN, renames : BOOLEAN]
    BY <1>2 DEF Requests
  <2> QED
    BY <1>1, <2>1, Zenon
<1>8. /\ req' \in Requests /\ req' # NoRequest /\ req'.phase = next
      /\ req'.body = req.body /\ req'.old = req.old /\ req'.cand = req.cand
  BY <1>3, <1>4, <1>7 DEF Requests, NoRequest, Steps
<1>9. SwitchTypeOK'
  BY <1>1, <1>3, <1>6, <1>8 DEF SwitchInv, SwitchTypeOK, agentsVars
<1>10. CandidateInv'
  BY <1>5, <1>6, <1>8 DEF CandidateInv
<1>11. PlanInv'
  BY <1>1, <1>4, <1>8 DEF SwitchInv, PlanInv
<1>12. HandlerInv'
  BY <1>4, <1>5, <1>6, <1>8 DEF HandlerInv, Incomplete, Phases
<1>13. JournalTellsTheTruth'
  BY <1>1, <1>6 DEF SwitchInv, PlanInv, JournalTellsTheTruth
<1> QED
  BY <1>9, <1>10, <1>11, <1>12, <1>13 DEF SwitchInv

\* A refused or failing request leaves everything as it found it.
LEMMA RefuseInv ==
  ASSUME SwitchInv, RefuseMismatch \/ Abort
  PROVE  SwitchInv'
<1>1. /\ req' = NoRequest /\ events' \in 0 .. MaxEvents
      /\ UNCHANGED <<config, journal, rows, live, agentsVars, client, switches, edits>>
  BY SwitchEventsAssumption DEF SwitchInv, SwitchTypeOK, RefuseMismatch, Abort, Event
<1>2. SwitchTypeOK'
  BY <1>1 DEF SwitchInv, SwitchTypeOK, Requests, agentsVars
<1>3. JournalTellsTheTruth'
  BY <1>1 DEF SwitchInv, JournalTellsTheTruth
<1> QED
  BY <1>1, <1>2, <1>3, IdleInv DEF SwitchInv, CandidateInv

LEMMA RenameSessionsInv ==
  ASSUME SwitchInv, RenameSessions
  PROVE  SwitchInv'
<1>1. /\ req.phase = "rename" /\ ToStep("write")
      /\ rows' = {IF r[1] = req.old THEN <<req.cand.primary, r[2]>> ELSE r : r \in rows}
      /\ UNCHANGED <<config, journal, live, agentsVars, client, switches, edits, events>>
  BY DEF RenameSessions
<1>2. req \in Requests /\ req # NoRequest
  BY <1>1 DEF SwitchInv, SwitchTypeOK, NoRequest
<1>3. /\ req' \in Requests /\ req' # NoRequest /\ req'.phase = "write"
      /\ req'.body = req.body /\ req'.old = req.old /\ req'.cand = req.cand
  BY <1>1, <1>2, ToStepType DEF Steps
<1>4. req.cand.primary \in Targets
  BY <1>2, RequestFields DEF Configs
<1>5. rows' \subseteq Targets \X Targets
  BY <1>1, <1>4 DEF SwitchInv, SwitchTypeOK
<1>6. SwitchTypeOK'
  BY <1>1, <1>3, <1>5 DEF SwitchInv, SwitchTypeOK, agentsVars
<1>7. CandidateInv' /\ PlanInv' /\ HandlerInv' /\ JournalTellsTheTruth'
  BY <1>1, <1>2, <1>3 DEF SwitchInv, CandidateInv, PlanInv, HandlerInv, JournalTellsTheTruth, Incomplete, Steps
<1> QED
  BY <1>6, <1>7 DEF SwitchInv

LEMMA RenameConflictInv ==
  ASSUME SwitchInv, RenameConflict
  PROVE  SwitchInv'
<1>1. /\ req' = NoRequest /\ journal' = NoJournal
      /\ UNCHANGED <<config, rows, live, agentsVars, client, switches, edits, events>>
  BY DEF RenameConflict
<1>2. SwitchTypeOK'
  BY <1>1 DEF SwitchInv, SwitchTypeOK, Requests, Journals, agentsVars
<1> QED
  BY <1>1, <1>2, IdleInv DEF JournalTellsTheTruth

LEMMA WriteConfigInv ==
  ASSUME SwitchInv, WriteConfig
  PROVE  SwitchInv'
<1>1. /\ req.phase = "write" /\ ToStep("commit") /\ config' = req.cand
      /\ UNCHANGED <<journal, rows, live, agentsVars, client, switches, edits, events>>
  BY DEF WriteConfig
<1>2. req \in Requests /\ req # NoRequest /\ req.cand \in Configs
  BY <1>1, RequestFields DEF SwitchInv, SwitchTypeOK, NoRequest
<1>3. /\ req' \in Requests /\ req' # NoRequest /\ req'.phase = "commit"
      /\ req'.body = req.body /\ req'.old = req.old /\ req'.cand = req.cand
  BY <1>1, <1>2, ToStepType DEF Steps
<1>4. SwitchTypeOK'
  BY <1>1, <1>2, <1>3 DEF SwitchInv, SwitchTypeOK, agentsVars
<1>5. CandidateInv' /\ PlanInv' /\ HandlerInv'
  BY <1>1, <1>2, <1>3 DEF SwitchInv, CandidateInv, PlanInv, HandlerInv, Incomplete, Steps
<1>6. JournalTellsTheTruth'
  BY <1>1 DEF SwitchInv, HandlerInv, JournalTellsTheTruth, Steps
<1> QED
  BY <1>4, <1>5, <1>6 DEF SwitchInv

LEMMA PersistCommittedInv ==
  ASSUME SwitchInv, PersistCommitted
  PROVE  SwitchInv'
<1>1. /\ req.phase = "commit" /\ ToStep("apply") /\ live' = Refreshed
      /\ journal' = [journal EXCEPT !.phase = "committed"]
      /\ UNCHANGED <<config, rows, agentsVars, client, switches, edits, events>>
  BY DEF PersistCommitted
<1>2. req \in Requests /\ req # NoRequest
  BY <1>1 DEF SwitchInv, SwitchTypeOK, NoRequest
<1>3. /\ req' \in Requests /\ req' # NoRequest /\ req'.phase = "apply"
      /\ req'.body = req.body /\ req'.old = req.old /\ req'.cand = req.cand
  BY <1>1, <1>2, ToStepType DEF Steps
<1>4. journal \in Journals /\ journal # NoJournal
  BY <1>1, JournalPhase DEF SwitchInv, SwitchTypeOK, HandlerInv, Steps, Incomplete
<1>5. /\ journal' \in Journals /\ journal' # NoJournal /\ journal'.phase = "committed"
      /\ journal'.old = journal.old /\ journal'.new = journal.new
      /\ journal'.candidate = journal.candidate
  BY <1>1, <1>4, JournalTo DEF Phases
<1>6. live' \in [Targets -> 0 .. MaxSel]
  BY <1>1, RefreshedType DEF SwitchInv, SwitchTypeOK
<1>7. SwitchTypeOK'
  BY <1>1, <1>3, <1>5, <1>6 DEF SwitchInv, SwitchTypeOK, agentsVars
<1>8. CandidateInv' /\ PlanInv' /\ HandlerInv'
  BY <1>1, <1>2, <1>3, <1>4, <1>5
     DEF SwitchInv, CandidateInv, PlanInv, HandlerInv, Incomplete, Steps, Phases
<1>9. JournalTellsTheTruth'
  BY <1>1, <1>4, <1>5 DEF SwitchInv, HandlerInv, CandidateInv, JournalTellsTheTruth, Steps
<1> QED
  BY <1>7, <1>8, <1>9 DEF SwitchInv

LEMMA ApplyLiveInv ==
  ASSUME SwitchInv, ApplyLive
  PROVE  SwitchInv'
<1> DEFINE next == IF req.run THEN "stop" ELSE "applied"
<1>1. /\ req.phase = "apply" /\ ToStep(next)
      /\ live' = [live EXCEPT ![req.cand.primary] = req.cand.sel[req.cand.primary]]
      /\ UNCHANGED <<config, journal, rows, agentsVars, client, switches, edits, events>>
  BY DEF ApplyLive
<1>2. /\ req \in Requests /\ req # NoRequest
      /\ req.cand.primary \in Targets /\ req.cand.sel \in [Targets -> 0 .. MaxSel]
  BY <1>1, RequestFields DEF SwitchInv, SwitchTypeOK, NoRequest, Configs
<1>3. next \in {"stop", "applied"}
  OBVIOUS
<1> HIDE DEF next
<1>4. /\ req' \in Requests /\ req' # NoRequest /\ req'.phase = next
      /\ req'.body = req.body /\ req'.old = req.old /\ req'.cand = req.cand
  BY <1>1, <1>2, <1>3, ToStepType DEF Steps
<1>5. /\ live' \in [Targets -> 0 .. MaxSel]
      /\ live'[req.cand.primary] = req.cand.sel[req.cand.primary]
  BY <1>1, <1>2 DEF SwitchInv, SwitchTypeOK
<1>6. SwitchTypeOK'
  BY <1>1, <1>4, <1>5 DEF SwitchInv, SwitchTypeOK, agentsVars
<1>7. CandidateInv' /\ PlanInv' /\ HandlerInv'
  BY <1>1, <1>2, <1>3, <1>4, <1>5
     DEF SwitchInv, CandidateInv, PlanInv, HandlerInv, Incomplete, Steps
<1>8. JournalTellsTheTruth'
  BY <1>1, <1>5 DEF SwitchInv, HandlerInv, JournalTellsTheTruth, Steps
<1> QED
  BY <1>6, <1>7, <1>8 DEF SwitchInv

LEMMA StopOldInv ==
  ASSUME SwitchInv, StopOld
  PROVE  SwitchInv'
<1>1. /\ req.phase = "stop" /\ ToStep("start")
      /\ proc' = [proc EXCEPT ![req.old] = 0]
      /\ UNCHANGED <<config, journal, rows, live, backoff, client, switches, edits, events>>
  BY DEF StopOld
<1>2. req \in Requests /\ req # NoRequest /\ req.old \in Targets
  BY <1>1, RequestFields DEF SwitchInv, SwitchTypeOK, NoRequest
<1>3. /\ req' \in Requests /\ req' # NoRequest /\ req'.phase = "start"
      /\ req'.body = req.body /\ req'.old = req.old /\ req'.cand = req.cand
  BY <1>1, <1>2, ToStepType DEF Steps
<1>4. proc' \in [Targets -> 0 .. MaxSel]
  BY <1>1, <1>2, SelAssumption DEF SwitchInv, SwitchTypeOK
<1>5. SwitchTypeOK'
  BY <1>1, <1>3, <1>4 DEF SwitchInv, SwitchTypeOK
<1>6. CandidateInv' /\ PlanInv' /\ HandlerInv' /\ JournalTellsTheTruth'
  BY <1>1, <1>2, <1>3
     DEF SwitchInv, CandidateInv, PlanInv, HandlerInv, JournalTellsTheTruth, Incomplete, Steps
<1> QED
  BY <1>5, <1>6 DEF SwitchInv

LEMMA StartNewInv ==
  ASSUME SwitchInv, StartNew
  PROVE  SwitchInv'
<1>1. /\ req.phase = "start" /\ ToStep("applied")
      /\ proc' = [proc EXCEPT ![req.cand.primary] =
                    IF @ = 0 THEN req.cand.sel[req.cand.primary] ELSE @]
      /\ UNCHANGED <<config, journal, rows, live, backoff, client, switches, edits, events>>
  BY DEF StartNew
<1>2. /\ req \in Requests /\ req # NoRequest
      /\ req.cand.primary \in Targets /\ req.cand.sel \in [Targets -> 0 .. MaxSel]
  BY <1>1, RequestFields DEF SwitchInv, SwitchTypeOK, NoRequest, Configs
<1>3. /\ req' \in Requests /\ req' # NoRequest /\ req'.phase = "applied"
      /\ req'.body = req.body /\ req'.old = req.old /\ req'.cand = req.cand
  BY <1>1, <1>2, ToStepType DEF Steps
<1>4. proc' \in [Targets -> 0 .. MaxSel]
  BY <1>1, <1>2 DEF SwitchInv, SwitchTypeOK
<1>5. SwitchTypeOK'
  BY <1>1, <1>3, <1>4 DEF SwitchInv, SwitchTypeOK
<1>6. CandidateInv' /\ PlanInv' /\ HandlerInv' /\ JournalTellsTheTruth'
  BY <1>1, <1>2, <1>3
     DEF SwitchInv, CandidateInv, PlanInv, HandlerInv, JournalTellsTheTruth, Incomplete, Steps
<1> QED
  BY <1>5, <1>6 DEF SwitchInv

\* From here on the journal vouches for the live selection.
LEMMA PersistAppliedInv ==
  ASSUME SwitchInv, PersistApplied
  PROVE  SwitchInv'
<1>1. /\ req.phase = "applied" /\ ToStep("complete")
      /\ journal' = [journal EXCEPT !.phase = "applied"]
      /\ UNCHANGED <<config, rows, live, agentsVars, client, switches, edits, events>>
  BY DEF PersistApplied
<1>2. req \in Requests /\ req # NoRequest
  BY <1>1 DEF SwitchInv, SwitchTypeOK, NoRequest
<1>3. /\ req' \in Requests /\ req' # NoRequest /\ req'.phase = "complete"
      /\ req'.body = req.body /\ req'.old = req.old /\ req'.cand = req.cand
  BY <1>1, <1>2, ToStepType DEF Steps
<1>4. journal \in Journals /\ journal # NoJournal
  BY <1>1, JournalPhase DEF SwitchInv, SwitchTypeOK, HandlerInv, Steps, Incomplete
<1>5. /\ journal' \in Journals /\ journal' # NoJournal /\ journal'.phase = "applied"
      /\ journal'.old = journal.old /\ journal'.new = journal.new
      /\ journal'.candidate = journal.candidate
  BY <1>1, <1>4, JournalTo DEF Phases
<1>6. SwitchTypeOK'
  BY <1>1, <1>3, <1>5 DEF SwitchInv, SwitchTypeOK, agentsVars
<1>7. CandidateInv' /\ PlanInv' /\ HandlerInv'
  BY <1>1, <1>2, <1>3, <1>4, <1>5
     DEF SwitchInv, CandidateInv, PlanInv, HandlerInv, Incomplete, Steps, Phases
<1>8. JournalTellsTheTruth'
  BY <1>1, <1>4, <1>5 DEF SwitchInv, HandlerInv, JournalTellsTheTruth, Steps
<1> QED
  BY <1>6, <1>7, <1>8 DEF SwitchInv

LEMMA PersistCompletedInv ==
  ASSUME SwitchInv, PersistCompleted
  PROVE  SwitchInv'
<1>1. /\ req.phase = "complete" /\ req' = NoRequest
      /\ journal' = [journal EXCEPT !.phase = "completed"]
      /\ UNCHANGED <<config, rows, live, agentsVars, client, switches, edits, events>>
  BY DEF PersistCompleted
<1>2. journal \in Journals /\ journal # NoJournal
  BY <1>1, JournalPhase DEF SwitchInv, SwitchTypeOK, HandlerInv, Steps, Incomplete
<1>3. /\ journal' \in Journals /\ journal' # NoJournal /\ journal'.phase = "completed"
      /\ journal'.old = journal.old /\ journal'.new = journal.new
      /\ journal'.candidate = journal.candidate
  BY <1>1, <1>2, JournalTo DEF Phases
<1>4. SwitchTypeOK'
  BY <1>1, <1>3 DEF SwitchInv, SwitchTypeOK, Requests, agentsVars
<1>5. JournalTellsTheTruth'
  BY <1>1, <1>2, <1>3 DEF SwitchInv, HandlerInv, JournalTellsTheTruth, Steps
<1> QED
  BY <1>1, <1>2, <1>3, <1>4, <1>5, IdleInv DEF SwitchInv, CandidateInv

\* A start reads the config on disk, which is the candidate once it is committed.
LEMMA StartTargetInv ==
  ASSUME SwitchInv, NEW t \in Targets, StartTarget(t)
  PROVE  SwitchInv'
<1>1. /\ req = NoRequest /\ req' = NoRequest
      /\ proc' = [proc EXCEPT ![t] = config.sel[t]]
      /\ live' = [live EXCEPT ![t] = config.sel[t]]
      /\ UNCHANGED <<config, journal, rows, backoff, client, switches, edits, events>>
  BY DEF StartTarget
<1>2. config.sel \in [Targets -> 0 .. MaxSel]
  BY DEF SwitchInv, SwitchTypeOK, Configs
<1>3. live' \in [Targets -> 0 .. MaxSel] /\ proc' \in [Targets -> 0 .. MaxSel]
  BY <1>1, <1>2 DEF SwitchInv, SwitchTypeOK
<1>4. SwitchTypeOK'
  BY <1>1, <1>3 DEF SwitchInv, SwitchTypeOK
<1>5. journal # NoJournal => journal.new \in Targets /\ journal.phase \in Phases
  BY JournalFields DEF SwitchInv, SwitchTypeOK
<1>6. JournalTellsTheTruth'
  BY <1>1, <1>5 DEF SwitchInv, SwitchTypeOK, JournalTellsTheTruth
<1> QED
  BY <1>1, <1>4, <1>6, IdleInv DEF SwitchInv, CandidateInv

\* Agents stop, crash, come back and list their sessions without the journal.
LEMMA AgentsInv ==
  ASSUME SwitchInv, NEW t \in Targets,
         StopTarget(t) \/ AgentCrashes(t) \/ Relaunch(t) \/ ListSync(t)
  PROVE  SwitchInv'
<1>1. UNCHANGED <<config, journal, live, req, client, switches, edits>>
  BY DEF StopTarget, AgentCrashes, Relaunch, ListSync
<1>2. events' \in 0 .. MaxEvents
  BY SwitchEventsAssumption
     DEF SwitchInv, SwitchTypeOK, StopTarget, AgentCrashes, Relaunch, ListSync, Event
<1>3. rows' \subseteq Targets \X Targets
  BY DEF SwitchInv, SwitchTypeOK, StopTarget, AgentCrashes, Relaunch, ListSync
<1>4. proc' \in [Targets -> 0 .. MaxSel]
  BY SelAssumption
     DEF SwitchInv, SwitchTypeOK, StopTarget, AgentCrashes, Relaunch, ListSync, agentsVars
<1>5. backoff' \in [Targets -> 0 .. MaxSel]
  BY SelAssumption
     DEF SwitchInv, SwitchTypeOK, StopTarget, AgentCrashes, Relaunch, ListSync, agentsVars
<1>6. SwitchTypeOK'
  BY <1>1, <1>2, <1>3, <1>4, <1>5 DEF SwitchInv, SwitchTypeOK
<1> QED
  BY <1>1, <1>6, FrameInv

LEMMA EditConfigInv ==
  ASSUME SwitchInv, NEW c \in Configs, EditConfig(c)
  PROVE  SwitchInv'
<1>1. /\ req = NoRequest /\ req' = NoRequest
      /\ config' = c /\ edits' = edits + 1
      /\ UNCHANGED <<journal, rows, live, agentsVars, client, switches>>
  BY DEF EditConfig
<1>2. config' \in Configs
  BY <1>1
<1>3. edits' \in Nat /\ edits' # 0 /\ events' \in 0 .. MaxEvents
  BY SwitchEventsAssumption DEF SwitchInv, SwitchTypeOK, EditConfig, Event
<1>4. SwitchTypeOK'
  BY <1>1, <1>2, <1>3 DEF SwitchInv, SwitchTypeOK, agentsVars
<1>5. JournalTellsTheTruth'
  BY <1>3 DEF JournalTellsTheTruth
<1> QED
  BY <1>1, <1>4, <1>5, IdleInv DEF SwitchInv, CandidateInv

\* A restarted daemon has the config on disk live.
LEMMA CrashDaemonInv ==
  ASSUME SwitchInv, CrashDaemon
  PROVE  SwitchInv'
<1>1. /\ req' = NoRequest /\ live' = config.sel
      /\ proc' = [t \in Targets |-> 0] /\ backoff' = [t \in Targets |-> 0]
      /\ UNCHANGED <<config, journal, rows, client, switches, edits>>
  BY DEF CrashDaemon
<1>2. events' \in 0 .. MaxEvents
  BY SwitchEventsAssumption DEF SwitchInv, SwitchTypeOK, CrashDaemon, Event
<1>3. SwitchTypeOK'
  BY <1>1, <1>2, SelAssumption DEF SwitchInv, SwitchTypeOK, Requests, Configs
<1>4. journal # NoJournal => journal.phase \in Phases
  BY JournalFields DEF SwitchInv, SwitchTypeOK
<1>5. JournalTellsTheTruth'
  BY <1>1, <1>4 DEF SwitchInv, JournalTellsTheTruth
<1> QED
  BY <1>1, <1>3, <1>5, IdleInv DEF SwitchInv, CandidateInv

-----------------------------------------------------------------------------
(* The invariant and what follows from it *)

LEMMA NextInv == SwitchInv /\ [SwitchNext]_switchVars => SwitchInv'
<1> SUFFICES ASSUME SwitchInv, [SwitchNext]_switchVars PROVE SwitchInv'
  OBVIOUS
<1>1. CASE UNCHANGED switchVars
  <2>1. SwitchTypeOK'
    BY <1>1 DEF switchVars, SwitchInv, SwitchTypeOK
  <2> QED
    BY <1>1, <2>1, FrameInv DEF switchVars
<1>2. ASSUME NEW b \in Bodies, PlanFresh(b) \/ PlanAgain(b) \/ ResumeCommitted(b)
      PROVE  SwitchInv'
  BY <1>2, PlanFreshInv, PlanAgainInv, ResumeCommittedInv
<1>3. CASE Handle
  BY <1>3, PersistPlannedInv, RefuseInv, RenameSessionsInv, RenameConflictInv, WriteConfigInv,
     PersistCommittedInv, ApplyLiveInv, StopOldInv, StartNewInv, PersistAppliedInv, PersistCompletedInv
     DEF Handle
<1>4. CASE Abort
  BY <1>4, RefuseInv
<1>5. ASSUME NEW t \in Targets,
             \/ StartTarget(t) \/ StopTarget(t) \/ AgentCrashes(t) \/ Relaunch(t)
             \/ ListSync(t)
      PROVE  SwitchInv'
  BY <1>5, StartTargetInv, AgentsInv
<1>6. ASSUME NEW c \in Configs, EditConfig(c) PROVE SwitchInv'
  BY <1>6, EditConfigInv
<1>7. CASE CrashDaemon
  BY <1>7, CrashDaemonInv
<1> QED
  BY <1>1, <1>2, <1>3, <1>4, <1>5, <1>6, <1>7 DEF SwitchNext

\* The inductive invariant of the switch, for any targets, selections and faults.
THEOREM Invariance == SwitchSpec => []SwitchInv
<1>1. SwitchInit => SwitchInv
  BY InitInv
<1>2. SwitchInv /\ [SwitchNext]_switchVars => SwitchInv'
  BY NextInv
<1> QED
  BY <1>1, <1>2, PTL DEF SwitchSpec

\* Type correctness: the config, the journal and the request keep their shape, and
\* no row, live config or process is of an unknown target.
THEOREM TypeCorrect == SwitchSpec => []SwitchTypeOK
<1>1. SwitchInv => SwitchTypeOK
  BY DEF SwitchInv
<1> QED
  BY <1>1, Invariance, PTL

\* The journal never runs ahead of the config on disk and of the live config, wherever
\* a switch is cut off (persist_switch_journal, apply_switch_runtime).
THEOREM JournalIsTrue == SwitchSpec => []JournalTellsTheTruth
<1>1. SwitchInv => JournalTellsTheTruth
  BY DEF SwitchInv
<1> QED
  BY <1>1, Invariance, PTL

-----------------------------------------------------------------------------
(* An interrupted switch *)

\* What a step may do to the journal of an unfinished switch.
LEMMA JournalStep ==
  ASSUME SwitchInv, [SwitchNext]_switchVars, Incomplete
  PROVE  \/ journal'.phase # "none" /\ journal'.candidate = journal.candidate
                                    /\ journal'.new = journal.new
         \/ journal' = NoJournal /\ ~CandidateOnDisk
<1>1. journal \in Journals /\ journal # NoJournal /\ journal.phase # "none"
  BY JournalPhase DEF SwitchInv, SwitchTypeOK, Incomplete, Phases
<1>2. CASE UNCHANGED journal
  BY <1>1, <1>2
<1>3. CASE PersistPlanned
  <2>1. req.phase = "prepare" /\ Reproduces
    BY <1>3 DEF PersistPlanned
  <2>2. req.resume = journal /\ req.body.target = journal.new
    BY <2>1 DEF SwitchInv, PlanInv
  <2>3. req.cand = journal.candidate
    BY <1>1, <2>1, <2>2 DEF Reproduces
  <2>4. journal'.phase = "planned" /\ journal'.candidate = req.cand /\ journal'.new = req.body.target
    BY <1>3 DEF PersistPlanned
  <2> QED
    BY <2>2, <2>3, <2>4
<1>4. CASE PersistCommitted
  BY <1>1, <1>4, JournalTo DEF PersistCommitted, Phases
<1>5. CASE PersistApplied
  BY <1>1, <1>5, JournalTo DEF PersistApplied, Phases
<1>6. CASE PersistCompleted
  BY <1>1, <1>6, JournalTo DEF PersistCompleted, Phases
<1>7. CASE RenameConflict
  <2>1. journal' = NoJournal /\ req.phase = "rename"
    BY <1>7 DEF RenameConflict
  <2>2. req.cand.primary # config.primary /\ journal.candidate = req.cand
    BY <2>1 DEF SwitchInv, PlanInv, HandlerInv, Steps
  <2> QED
    BY <2>1, <2>2 DEF CandidateOnDisk
<1>8. \/ UNCHANGED journal
      \/ PersistPlanned \/ PersistCommitted \/ PersistApplied \/ PersistCompleted \/ RenameConflict
  <2>1. CASE UNCHANGED switchVars
    BY <2>1 DEF switchVars
  <2>2. ASSUME NEW b \in Bodies, PlanFresh(b) \/ PlanAgain(b) \/ ResumeCommitted(b)
        PROVE  UNCHANGED journal
    BY <2>2 DEF PlanFresh, PlanAgain, ResumeCommitted
  <2>3. CASE Handle \/ Abort \/ CrashDaemon
    BY <2>3 DEF Handle, RefuseMismatch, RenameSessions, WriteConfig, ApplyLive, StopOld, StartNew,
                Abort, CrashDaemon
  <2>4. ASSUME NEW t \in Targets,
               \/ StartTarget(t) \/ StopTarget(t) \/ AgentCrashes(t) \/ Relaunch(t)
               \/ ListSync(t)
        PROVE  UNCHANGED journal
    BY <2>4 DEF StartTarget, StopTarget, AgentCrashes, Relaunch, ListSync
  <2>5. ASSUME NEW c \in Configs, EditConfig(c) PROVE UNCHANGED journal
    BY <2>5 DEF EditConfig
  <2> QED
    BY <2>1, <2>2, <2>3, <2>4, <2>5 DEF SwitchNext
<1> QED
  BY <1>2, <1>3, <1>4, <1>5, <1>6, <1>7, <1>8

\* An interrupted switch keeps its candidate and its target until it is completed,
\* through any retries, edits and other requests; only a rename conflict before the
\* config write drops its journal (classify_switch_journal).
THEOREM InterruptedIsKept == SwitchSpec => InterruptedStaysItself
<1>1. SwitchInv /\ [SwitchNext]_switchVars =>
        [Incomplete =>
           \/ journal'.phase # "none" /\ journal'.candidate = journal.candidate
                                      /\ journal'.new = journal.new
           \/ journal' = NoJournal /\ ~CandidateOnDisk]_switchVars
  BY JournalStep
<1> QED
  BY <1>1, Invariance, PTL DEF SwitchSpec, InterruptedStaysItself

=============================================================================
