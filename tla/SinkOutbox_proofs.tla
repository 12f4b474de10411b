--------------------------- MODULE SinkOutbox_proofs ---------------------------
(***************************************************************************)
(* Proofs about the sink outbox, for any number of rows, tables, writes,   *)
(* shutdowns, crashes and timed-out uploads and any batch size.            *)
(***************************************************************************)
EXTENDS SinkOutbox, TLAPS

\* An empty outbox satisfies the invariant.
LEMMA InitInv == Init => SinkInv
<1> SUFFICES ASSUME Init PROVE SinkInv
  OBVIOUS
<1>1. TypeOK
  <2>1. NoPayload \in [Rows -> Versions]
    BY BoundAssumption DEF NoPayload, Versions
  <2>2. content \in [Rows -> Versions] /\ remote \in [Rows -> Versions]
        /\ payload \in [Rows -> Versions]
    BY <2>1 DEF Init
  <2>3. status \in [Rows -> {"none", "pending", "sending", "sent"}] /\ ends \in 0..MaxEnds
    BY BoundAssumption DEF Init
  <2>4. phase \in Phases /\ pc \in Stages /\ stopping \in BOOLEAN
    BY DEF Init, Phases, Stages
  <2>5. /\ live \in SUBSET Rows /\ due \in SUBSET Rows /\ older \in SUBSET (Rows \X Rows)
        /\ todo \in SUBSET Rows /\ failed \in SUBSET Rows /\ acked \in SUBSET Rows
        /\ late \in SUBSET [Rows -> Versions] /\ replayed \in SUBSET Rows
        /\ unlogged \in SUBSET Rows
    BY DEF Init
  <2> QED BY <2>2, <2>3, <2>4, <2>5 DEF TypeOK
<1>2. UnmirroredIsOwed /\ GroupInv
  BY DEF Init, UnmirroredIsOwed, GroupInv, NoPayload
<1> QED BY <1>1, <1>2 DEF SinkInv

\* Rewriting, deleting and re-enqueueing rows keeps the invariant: a claimed row that is
\* written is pending again.
LEMMA WritersInv ==
  ASSUME SinkInv, NEW r \in Rows, Write(r) \/ Delete(r) \/ Elapse(r)
  PROVE  SinkInv'
<1> USE BoundAssumption
        DEF SinkInv, TypeOK, UnmirroredIsOwed, GroupInv, NoPayload, Versions, Phases, Stages
<1>1. CASE Write(r)
  <2>1. CASE Enqueue(r) /\ unlogged' = unlogged \ {r}
    BY <1>1, <2>1 DEF Write, Enqueue, Owed, Without, groupVars, mirrorVars
  <2>2. CASE UNCHANGED queueVars /\ unlogged' = unlogged \cup {r}
    BY <1>1, <2>2 DEF Write, queueVars, groupVars, mirrorVars
  <2> QED BY <1>1, <2>1, <2>2 DEF Write
<1>2. CASE Delete(r)
  <2>1. CASE Enqueue(r)
    BY <1>2, <2>1 DEF Delete, Enqueue, Owed, Without, groupVars, mirrorVars
  <2>2. CASE UNCHANGED queueVars
    BY <1>2, <2>2 DEF Delete, queueVars, groupVars, mirrorVars
  <2> QED BY <1>2, <2>1, <2>2 DEF Delete
<1>3. CASE Elapse(r)
  BY <1>3 DEF Elapse, sourceVars, groupVars, mirrorVars
<1> QED BY <1>1, <1>2, <1>3

\* A poll claims rows while there is no payload in hand.
LEMMA ClaimInv ==
  ASSUME SinkInv, NEW from \in {Recover, status}, Claim(from)
  PROVE  SinkInv'
<1> USE DEF SinkInv, TypeOK, UnmirroredIsOwed, GroupInv, NoPayload, Versions, Phases, Stages
<1> DEFINE batch == Oldest(from)
<1>1. batch \subseteq Rows /\ \A r \in batch : from[r] = "pending"
  BY DEF Oldest, Claimable
<1>2. /\ from \in [Rows -> {"none", "pending", "sending", "sent"}]
      /\ \A r \in Rows : from[r] = status[r] \/ {from[r], status[r]} = {"pending", "sending"}
  BY DEF Recover
<1>3. /\ pc = "idle" /\ todo' = batch
      /\ status' = [r \in Rows |-> IF r \in batch THEN "sending" ELSE from[r]]
      /\ pc' \in {"idle", "stopped", "group"}
      /\ UNCHANGED <<content, live, due, older, phase, payload, failed, acked, stopping,
                     remote, late, replayed, unlogged, ends>>
  BY DEF Claim, Claimed, MayPoll, AfterEmptyPoll, sourceVars, groupVars, mirrorVars
<1> HIDE DEF batch
<1>4. TypeOK'
  BY <1>1, <1>2, <1>3
<1>5. UnmirroredIsOwed'
  BY <1>1, <1>2, <1>3
<1>6. GroupInv'
  BY <1>3
<1> QED BY <1>4, <1>5, <1>6

\* A group is read when nothing is in hand, and its payload is the current content.
LEMMA HydrateInv ==
  ASSUME SinkInv, NEW t \in Tables, NEW bad \in SUBSET Group(t), Hydrate(t, bad)
  PROVE  SinkInv'
BY DEF Hydrate, Group, sourceVars, queueVars, mirrorVars, SinkInv, TypeOK,
       UnmirroredIsOwed, GroupInv, NoPayload, Versions, Phases, Stages

\* The marks touch claimed rows only: a row marked sent is mirrored, or gone.
LEMMA MarksInv ==
  ASSUME SinkInv, Park \/ AckDeleted \/ AckSent \/ Release \/ MarkFails
  PROVE  SinkInv'
<1> USE BoundAssumption
        DEF SinkInv, TypeOK, UnmirroredIsOwed, GroupInv, NoPayload, Versions, Phases, Stages,
            StillClaimed, sourceVars, groupVars, mirrorVars
<1>1. CASE Park
  BY <1>1 DEF Park, MarkFailure
<1>2. CASE AckDeleted
  BY <1>2 DEF AckDeleted, MarkSent, Without
<1>3. CASE AckSent
  BY <1>3 DEF AckSent, MarkSent, Without, InPayload, EndGroup, AfterGroup
<1>4. CASE Release
  BY <1>4 DEF Release, MarkFailure, InPayload, EndGroup, AfterGroup
<1>5. CASE MarkFails
  BY <1>5 DEF MarkFails, EndGroup, AfterGroup, queueVars
<1> QED BY <1>1, <1>2, <1>3, <1>4, <1>5

\* An upload moves the mirror to the payload, which is at most the content.
LEMMA SendsInv ==
  ASSUME SinkInv, SendOk \/ SendFails \/ SendTimesOut
  PROVE  SinkInv'
<1> USE DEF SinkInv, TypeOK, UnmirroredIsOwed, GroupInv, NoPayload, Versions, Phases, Stages,
            sourceVars, queueVars, groupVars
<1> DEFINE Applied == remote' = Upsert(payload) /\ replayed' = replayed \ InPayload
<1>1. ASSUME Applied
      PROVE  /\ remote' \in [Rows -> Versions] /\ replayed' \in SUBSET Rows
             /\ \A r \in Rows : /\ payload[r] # 0 => remote'[r] = payload[r]
                                /\ payload[r] = 0 => remote'[r] = remote[r]
                                /\ payload[r] = 0 => (r \in replayed' <=> r \in replayed)
  BY <1>1 DEF Upsert, InPayload
<1>2. CASE SendOk
  <2>1. TypeOK'
    BY <1>1, <1>2 DEF SendOk
  <2>2. UnmirroredIsOwed'
    <3> SUFFICES ASSUME NEW r \in live' \ (replayed' \cup unlogged'), remote'[r] # content'[r]
                 PROVE  status'[r] \in {"pending", "sending"}
      OBVIOUS
    <3>1. r \in Rows /\ r \in live \ unlogged /\ status'[r] = status[r] /\ content'[r] = content[r]
      BY <1>2 DEF SendOk
    <3>2. Applied
      BY <1>2 DEF SendOk
    <3>3. CASE payload[r] = 0
      BY <1>1, <3>1, <3>2, <3>3
    <3>4. CASE payload[r] # 0
      BY <1>1, <3>1, <3>2, <3>4
    <3> QED BY <3>3, <3>4
  <2>3. GroupInv'
    BY <1>1, <1>2 DEF SendOk
  <2> QED BY <2>1, <2>2, <2>3
<1>3. CASE SendFails
  <2>1. CASE UNCHANGED <<remote, replayed>>
    BY <1>3, <2>1 DEF SendFails
  <2>2. CASE Applied
    <3>1. TypeOK'
      BY <1>1, <1>3, <2>2 DEF SendFails
    <3>2. UnmirroredIsOwed'
      <4> SUFFICES ASSUME NEW r \in live' \ (replayed' \cup unlogged'), remote'[r] # content'[r]
                   PROVE  status'[r] \in {"pending", "sending"}
        OBVIOUS
      <4>1. r \in Rows /\ r \in live \ unlogged /\ status'[r] = status[r] /\ content'[r] = content[r]
        BY <1>3 DEF SendFails
      <4>2. CASE payload[r] = 0
        BY <1>1, <2>2, <4>1, <4>2
      <4>3. CASE payload[r] # 0
        BY <1>1, <2>2, <4>1, <4>3
      <4> QED BY <4>2, <4>3
    <3>3. GroupInv'
      BY <1>1, <1>3, <2>2 DEF SendFails
    <3> QED BY <3>1, <3>2, <3>3
  <2> QED BY <1>3, <2>1, <2>2 DEF SendFails
<1>4. CASE SendTimesOut
  BY <1>4 DEF SendTimesOut
<1> QED BY <1>2, <1>3, <1>4

\* The other steps of the worker and the daemon leave rows and mirror alone.
LEMMA ControlInv ==
  ASSUME SinkInv,
         \/ PollFails \/ BeginDrain \/ EndDrain \/ Shutdown \/ DrainDeadline \/ Restart \/ Crash
         \/ \E t \in Tables : HydrateFails(t)
  PROVE  SinkInv'
<1> USE BoundAssumption
        DEF SinkInv, TypeOK, UnmirroredIsOwed, GroupInv, NoPayload, Versions, Phases, Stages,
            sourceVars, queueVars, groupVars, mirrorVars
<1>1. CASE BeginDrain \/ EndDrain \/ DrainDeadline
  BY <1>1 DEF BeginDrain, EndDrain, DrainDeadline, MayPoll
<1>5. CASE PollFails
  <2>1. \A r \in Oldest(status) : r \in Rows => status[r] = "pending"
    BY DEF Oldest, Claimable
  <2>2. /\ status' \in [Rows -> {"none", "pending", "sending", "sent"}]
        /\ \A r \in Rows : status'[r] = status[r] \/ (status[r] = "pending" /\ status'[r] = "sending")
    BY <1>5, <2>1 DEF PollFails, Claimed
  <2>3. /\ pc = "idle" /\ pc' \in {"idle", "stopped"}
        /\ UNCHANGED <<content, live, unlogged, due, older, phase, todo, payload, failed, acked,
                       stopping, remote, late, replayed, ends>>
    BY <1>5 DEF PollFails, MayPoll, AfterEmptyPoll
  <2> QED BY <2>2, <2>3
<1>2. CASE Shutdown
  BY <1>2 DEF Shutdown
<1>3. CASE Restart \/ Crash
  <2>1. NoPayload \in [Rows -> Versions] /\ ends' \in 0..MaxEnds
    BY <1>3 DEF Restart, Crash
  <2>2. Spawn
    BY <1>3 DEF Restart, Crash
  <2> QED BY <2>1, <2>2 DEF Spawn
<1>4. CASE \E t \in Tables : HydrateFails(t)
  BY <1>4 DEF HydrateFails, Group, AfterGroup
<1> QED BY <1>1, <1>2, <1>3, <1>4, <1>5

\* A late upload brings back content that is no newer than what is in hand.
LEMMA LateInv == ASSUME SinkInv, NEW p \in late, LateArrival(p) PROVE SinkInv'
BY DEF LateArrival, sourceVars, queueVars, groupVars, Upsert, SinkInv, TypeOK,
       UnmirroredIsOwed, GroupInv, NoPayload, Versions, Phases, Stages

\* Every step of the specification keeps the invariant.
LEMMA StepInv == ASSUME SinkInv, [Next]_sinkVars PROVE SinkInv'
<1>1. CASE \E r \in Rows : Write(r) \/ Delete(r) \/ Elapse(r)
  BY <1>1, WritersInv
<1>2. CASE Poll \/ PollUnrecovered
  BY <1>2, ClaimInv DEF Poll, PollUnrecovered
<1>3. CASE \E t \in Tables : \E bad \in SUBSET Group(t) : Hydrate(t, bad)
  BY <1>3, HydrateInv
<1>4. CASE Park \/ AckDeleted \/ AckSent \/ Release \/ MarkFails
  BY <1>4, MarksInv
<1>5. CASE SendOk \/ SendFails \/ SendTimesOut
  BY <1>5, SendsInv
<1>6. CASE \/ PollFails \/ BeginDrain \/ EndDrain \/ Shutdown \/ DrainDeadline
           \/ Restart \/ Crash \/ \E t \in Tables : HydrateFails(t)
  BY <1>6, ControlInv
<1>7. CASE \E p \in late : LateArrival(p)
  BY <1>7, LateInv
<1>8. CASE UNCHANGED sinkVars
  BY <1>8 DEF sinkVars, SinkInv, TypeOK, UnmirroredIsOwed, GroupInv, NoPayload, Versions
<1> QED BY <1>1, <1>2, <1>3, <1>4, <1>5, <1>6, <1>7, <1>8 DEF Next, WorkerStep

\* The inductive invariant holds in every reachable state.
THEOREM Invariance == Spec => []SinkInv
<1>1. Init => SinkInv
  BY InitInv
<1>2. SinkInv /\ [Next]_sinkVars => SinkInv'
  BY StepInv
<1> QED BY <1>1, <1>2, PTL DEF Spec

\* Type correctness: every status, stage and version is one the code knows.
THEOREM TypeCorrect == Spec => []TypeOK
<1>1. SinkInv => TypeOK
  BY DEF SinkInv
<1> QED BY <1>1, Invariance, PTL

\* Content the mirror lacks is still owed by the outbox (mark_sent's guard and
\* recover_in_flight), for every number of rows, tables, writes and crashes; excepted are
\* rows a late upload put back and rows last written with external logging off.
THEOREM NothingIsLost == Spec => []UnmirroredIsOwed
<1>1. SinkInv => UnmirroredIsOwed
  BY DEF SinkInv
<1> QED BY <1>1, Invariance, PTL

\* The mirror never goes back to older content: an upload carries at least what the
\* mirror holds (run_worker is sequential and upload_group reads after the claim).
THEOREM MirrorMovesForward == Spec => MirrorNeverRegresses
<1>1. ASSUME SinkInv, [Next]_sinkVars 
      PROVE  [\A r \in Rows : remote[r] <= remote'[r] \/ r \in replayed']_sinkVars
  <2> USE DEF SinkInv, TypeOK, GroupInv, Versions
  <2>1. CASE SendOk
    BY <1>1, <2>1 DEF SendOk, Upsert
  <2>2. CASE SendFails
    BY <1>1, <2>2 DEF SendFails, Upsert
  <2>3. CASE \E p \in late : LateArrival(p)
    BY <1>1, <2>3 DEF LateArrival, Upsert
  <2>4. CASE UNCHANGED sinkVars
    BY <1>1, <2>4 DEF sinkVars
  <2>5. CASE UNCHANGED remote
    BY <1>1, <2>5
  <2>6. \/ SendOk \/ SendFails \/ UNCHANGED remote \/ UNCHANGED sinkVars
        \/ \E p \in late : LateArrival(p)
    BY <1>1 DEF Next, WorkerStep, Write, Delete, Elapse, Poll, PollUnrecovered, PollFails,
      Claim, Hydrate, HydrateFails, Park, AckDeleted, SendTimesOut, AckSent, Release, MarkFails,
      BeginDrain, EndDrain, Shutdown, DrainDeadline, Restart, Crash, Spawn, mirrorVars
  <2> QED BY <2>1, <2>2, <2>3, <2>4, <2>5, <2>6
<1> QED BY <1>1, Invariance, PTL DEF Spec, MirrorNeverRegresses

=============================================================================
