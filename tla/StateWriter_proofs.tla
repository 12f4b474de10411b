------------------------- MODULE StateWriter_proofs -------------------------
(***************************************************************************)
(* Machine-checked proofs about StateWriter, for any set of jobs, any      *)
(* channel capacity, any batch size and any number of write scopes.        *)
(***************************************************************************)
EXTENDS StateWriter, TLAPS

-----------------------------------------------------------------------------
(* Sequences as places: what Append, Tail and SubSeq do to the elements.    *)

LEMMA EmptySeq ==
  /\ \A S : <<>> \in Seq(S)
  /\ Len(<<>>) = 0 /\ Range(<<>>) = {} /\ IsInjective(<<>>)
  BY DEF Range, IsInjective

LEMMA EmptyIsEmpty ==
  ASSUME NEW S, NEW s \in Seq(S), Range(s) = {}
  PROVE  s = <<>>
<1>1. Len(s) \in Nat /\ DOMAIN s = 1..Len(s)
  OBVIOUS
<1>2. \A i \in 1..Len(s) : s[i] \in Range(s)
  BY <1>1 DEF Range
<1>3. Len(s) = 0
  BY <1>1, <1>2
<1> QED
  BY <1>3

LEMMA AppendSeq ==
  ASSUME NEW S, NEW s \in Seq(S), NEW e \in S
  PROVE  /\ Append(s, e) \in Seq(S)
         /\ Append(s, e) # <<>>
         /\ Len(Append(s, e)) = Len(s) + 1
         /\ Range(Append(s, e)) = Range(s) \cup {e}
         /\ IsInjective(s) /\ e \notin Range(s) => IsInjective(Append(s, e))
<1> DEFINE t == Append(s, e)
<1>1. t \in Seq(S) /\ t # <<>> /\ Len(t) = Len(s) + 1 /\ DOMAIN t = 1..(Len(s) + 1)
  <2>1. t \in Seq(S) /\ Len(t) = Len(s) + 1 /\ Len(s) \in Nat
    OBVIOUS
  <2>2. DOMAIN t = 1..Len(t)
    BY <2>1
  <2> QED
    BY <2>1, <2>2
<1>2. DOMAIN s = 1..Len(s) /\ Len(s) \in Nat
  OBVIOUS
<1>3. \A i \in 1..Len(s) : t[i] = s[i]
  OBVIOUS
<1>4. t[Len(s) + 1] = e
  OBVIOUS
<1> HIDE DEF t
<1>5. Range(t) = Range(s) \cup {e}
  BY <1>1, <1>2, <1>3, <1>4 DEF Range
<1>6. IsInjective(s) /\ e \notin Range(s) => IsInjective(t)
  BY <1>1, <1>2, <1>3, <1>4 DEF Range, IsInjective
<1> QED
  BY <1>1, <1>5, <1>6 DEF t

LEMMA TailSeq ==
  ASSUME NEW S, NEW s \in Seq(S), s # <<>>
  PROVE  /\ Head(s) \in S /\ Tail(s) \in Seq(S)
         /\ Len(s) > 0 /\ Len(Tail(s)) = Len(s) - 1
         /\ Range(s) = {Head(s)} \cup Range(Tail(s))
         /\ IsInjective(s) => IsInjective(Tail(s)) /\ Head(s) \notin Range(Tail(s))
<1> DEFINE t == Tail(s)
<1>1. /\ Head(s) \in S /\ t \in Seq(S) /\ Len(s) \in Nat /\ Len(s) > 0
      /\ Len(t) = Len(s) - 1 /\ DOMAIN t = 1..(Len(s) - 1) /\ DOMAIN s = 1..Len(s)
  OBVIOUS
<1>2. Head(s) = s[1] /\ \A i \in 1..(Len(s) - 1) : t[i] = s[i + 1]
  OBVIOUS
<1>3. \A i \in 2..Len(s) : s[i] = t[i - 1] /\ i - 1 \in 1..(Len(s) - 1)
  BY <1>1, <1>2
<1> HIDE DEF t
<1>4. Range(s) = {Head(s)} \cup Range(t)
  <2>1. ASSUME NEW x \in Range(s) PROVE x \in {Head(s)} \cup Range(t)
    <3>1. PICK i \in 1..Len(s) : x = s[i]
      BY <1>1 DEF Range
    <3>2. i = 1 \/ i \in 2..Len(s)
      BY <1>1
    <3> QED
      BY <1>1, <1>2, <1>3, <3>1, <3>2 DEF Range
  <2>2. ASSUME NEW x \in Range(t) PROVE x \in Range(s)
    BY <1>1, <1>2, <2>2 DEF Range
  <2>3. Head(s) \in Range(s)
    BY <1>1, <1>2 DEF Range
  <2> QED
    BY <2>1, <2>2, <2>3
<1>5. IsInjective(s) => IsInjective(t)
  <2> SUFFICES ASSUME IsInjective(s), NEW a \in DOMAIN t, NEW b \in DOMAIN t, t[a] = t[b]
               PROVE  a = b
    BY DEF IsInjective
  <2>1. /\ a \in 1..(Len(s) - 1) /\ b \in 1..(Len(s) - 1)
        /\ a + 1 \in DOMAIN s /\ b + 1 \in DOMAIN s
    BY <1>1
  <2>2. s[a + 1] = s[b + 1]
    BY <1>2, <2>1
  <2>3. a + 1 = b + 1
    BY <2>1, <2>2 DEF IsInjective
  <2> QED
    BY <2>1, <2>3
<1>6. IsInjective(s) => Head(s) \notin Range(t)
  <2> SUFFICES ASSUME IsInjective(s), NEW a \in DOMAIN t, t[a] = Head(s) PROVE FALSE
    BY DEF Range
  <2>1. a \in 1..(Len(s) - 1) /\ a + 1 \in DOMAIN s /\ 1 \in DOMAIN s
    BY <1>1
  <2>2. s[a + 1] = s[1]
    BY <1>2, <2>1
  <2>3. a + 1 = 1
    BY <2>1, <2>2 DEF IsInjective
  <2> QED
    BY <2>1, <2>3
<1> QED
  BY <1>1, <1>4, <1>5, <1>6 DEF t

LEMMA PrefixSeq ==
  ASSUME NEW S, NEW s \in Seq(S), NEW k \in 0..Len(s)
  PROVE  /\ SubSeq(s, 1, k) \in Seq(S) /\ Len(SubSeq(s, 1, k)) = k
         /\ k = 0 => SubSeq(s, 1, k) = <<>>
         /\ k = Len(s) => SubSeq(s, 1, k) = s
         /\ \A e \in S : SubSeq(Append(s, e), 1, k) = SubSeq(s, 1, k)
  OBVIOUS

-----------------------------------------------------------------------------
(* Each action preserves the invariant.                                     *)

LEMMA InitInv == Init => WriterInv
<1> SUFFICES ASSUME Init PROVE WriterInv
  OBVIOUS
<1>1. TypeOK
  <2>1. /\ queue \in Seq(Jobs \cup Closers) /\ Len(queue) = 0
        /\ batch \in Seq(Jobs) /\ Len(batch) = 0 /\ outcomes \in Seq(Jobs)
        /\ staged \in Seq(AllRows) /\ acks \in Seq(Closers)
    BY EmptySeq DEF Init
  <2>2. saved \in [writes : SUBSET AllRows, staged : Nat, outer : BOOLEAN]
    BY DEF Init
  <2>3. /\ closed \in BOOLEAN /\ threads \in BOOLEAN /\ txOpen \in BOOLEAN
        /\ inBatch \in BOOLEAN /\ aborted \in BOOLEAN /\ failure \in BOOLEAN
    BY DEF Init
  <2>4. Len(queue) <= Capacity /\ Len(batch) <= BatchMax /\ scope \in 0..Scopes
    BY <2>1, BoundsAssumption DEF Init
  <2>5. /\ caller \in [Jobs -> CallerStates] /\ returned \in [Jobs -> SUBSET AllRows]
        /\ down \in [Closers -> DownStates] /\ wpc \in WriterStates
    BY DEF Init, CallerStates, DownStates, WriterStates
  <2> QED
    BY <2>1, <2>2, <2>3, <2>4, <2>5 DEF Init, TypeOK
<1>2. ControlInv
  BY DEF Init, ControlInv
<1>3. PlaceInv
  BY EmptySeq, NoJobAssumption DEF Init, PlaceInv, Queued, Running
<1>4. DataInv
  BY EmptySeq DEF Init, DataInv, Queued, InTransaction, Committed, BatchOpenTx, Doomed, OnlyBareRowsStray
<1> QED
  BY <1>1, <1>2, <1>3, <1>4 DEF WriterInv

LEMMA CallInv ==
  ASSUME WriterInv, NEW j \in Jobs, Call(j)
  PROVE  WriterInv'
<1> USE DEF WriterInv, Call
<1>1. TypeOK'
  BY DEF TypeOK, CallerStates, chanVars, downVars, jobVars, txVars
<1>2. ControlInv'
  BY DEF ControlInv, jobVars, txVars, chanVars
<1>3. PlaceInv'
  BY DEF TypeOK, PlaceInv, Queued, Running, jobVars, downVars, chanVars
<1>4. DataInv'
  BY DEF TypeOK, DataInv, Queued, InTransaction, Committed, BatchOpenTx, Doomed, OnlyBareRowsStray, jobVars, txVars, chanVars
<1> QED
  BY <1>1, <1>2, <1>3, <1>4

LEMMA SendInv ==
  ASSUME WriterInv, NEW j \in Jobs, Send(j)
  PROVE  WriterInv'
<1> USE DEF WriterInv
<1> USE JobsAssumption
<1>1. CASE closed
  <2> USE <1>1 DEF Send
  <2>1. TypeOK'
    BY DEF TypeOK, CallerStates, chanVars, downVars, jobVars, txVars
  <2>2. ControlInv'
    BY DEF ControlInv, jobVars, txVars, chanVars
  <2>3. PlaceInv'
    BY DEF TypeOK, PlaceInv, Queued, Running, jobVars, downVars, chanVars
  <2>4. DataInv'
    BY DEF TypeOK, DataInv, Queued, InTransaction, Committed, BatchOpenTx, Doomed, OnlyBareRowsStray, jobVars, txVars, chanVars
  <2> QED
    BY <2>1, <2>2, <2>3, <2>4
<1>2. CASE ~closed
  <2>1. /\ queue \in Seq(Jobs \cup Closers) /\ Len(queue) < Capacity
        /\ queue' = Append(queue, j) /\ caller[j] = "sending"
        /\ caller' = [caller EXCEPT ![j] = "waiting"]
    BY <1>2 DEF Send, HasRoom, TypeOK
  <2>2. /\ queue' \in Seq(Jobs \cup Closers) /\ Len(queue') = Len(queue) + 1
        /\ Range(queue') = Range(queue) \cup {j}
        /\ IsInjective(queue) /\ j \notin Range(queue) => IsInjective(queue')
    BY <2>1, AppendSeq
  <2>3. j \notin Queued \cup Range(batch) \cup Running \cup Range(outcomes)
    BY <2>1 DEF PlaceInv
  <2>4. TypeOK'
    BY <2>1, <2>2, BoundsAssumption DEF Send, TypeOK, CallerStates, chanVars, downVars, jobVars, txVars
  <2>5. ControlInv'
    BY <1>2 DEF Send, ControlInv, jobVars, txVars
  <2>6. PlaceInv'
    BY <2>1, <2>2, <2>3 DEF Send, TypeOK, PlaceInv, Queued, Running, jobVars, downVars
  <2>7. DataInv'
    BY <2>1, <2>2, <2>3 DEF Send, TypeOK, DataInv, Queued, InTransaction, Committed, BatchOpenTx, Doomed, OnlyBareRowsStray, jobVars, txVars
  <2> QED
    BY <2>4, <2>5, <2>6, <2>7
<1> QED
  BY <1>1, <1>2

LEMMA AbandonInv ==
  ASSUME WriterInv, NEW j \in Jobs, Abandon(j)
  PROVE  WriterInv'
<1> USE DEF WriterInv, Abandon, chanVars, downVars, jobVars, txVars
<1>1. TypeOK'
  BY DEF TypeOK, CallerStates
<1>2. ControlInv'
  BY DEF TypeOK, ControlInv
<1>3. PlaceInv'
  BY DEF TypeOK, PlaceInv, Queued, Running
<1>4. DataInv'
  BY DEF TypeOK, DataInv, Queued, InTransaction, Committed, BatchOpenTx, Doomed, OnlyBareRowsStray
<1> QED
  BY <1>1, <1>2, <1>3, <1>4

LEMMA WriteDetachedInv ==
  ASSUME WriterInv, NEW j \in Jobs, WriteDetached(j)
  PROVE  WriterInv'
<1> USE JobsAssumption DEF WriterInv
<1>1. CASE closed \/ ~HasRoom
  <2>1. /\ caller[j] = "idle" /\ caller' = [caller EXCEPT ![j] = "dropped"]
        /\ UNCHANGED <<queue, closed, returned, down, threads, wpc, batch, jobVars, txVars, staged,
                       outcomes, succeeded, failure, acks, db, stray, published>>
    BY <1>1 DEF WriteDetached
  <2> USE <2>1 DEF jobVars, txVars
  <2>2. TypeOK'
    BY DEF TypeOK, CallerStates
  <2>3. ControlInv'
    BY DEF ControlInv
  <2>4. PlaceInv'
    BY DEF TypeOK, PlaceInv, Queued, Running
  <2>5. DataInv'
    BY DEF TypeOK, DataInv, Queued, InTransaction, Committed, BatchOpenTx, Doomed, OnlyBareRowsStray
  <2> QED
    BY <2>2, <2>3, <2>4, <2>5
<1>2. CASE ~(closed \/ ~HasRoom)
  <2>1. /\ queue \in Seq(Jobs \cup Closers) /\ Len(queue) < Capacity
        /\ queue' = Append(queue, j) /\ caller[j] = "idle"
        /\ caller' = [caller EXCEPT ![j] = "waiting"]
    BY <1>2 DEF WriteDetached, HasRoom, TypeOK
  <2>2. /\ queue' \in Seq(Jobs \cup Closers) /\ Len(queue') = Len(queue) + 1
        /\ Range(queue') = Range(queue) \cup {j}
        /\ IsInjective(queue) /\ j \notin Range(queue) => IsInjective(queue')
    BY <2>1, AppendSeq
  <2>3. j \notin Queued \cup Range(batch) \cup Running \cup Range(outcomes)
    BY <2>1 DEF PlaceInv
  <2>4. TypeOK'
    BY <2>1, <2>2, BoundsAssumption
       DEF WriteDetached, TypeOK, CallerStates, chanVars, downVars, jobVars, txVars
  <2>5. ControlInv'
    BY <1>2 DEF WriteDetached, ControlInv, jobVars, txVars
  <2>6. PlaceInv'
    BY <2>1, <2>2, <2>3 DEF WriteDetached, TypeOK, PlaceInv, Queued, Running, jobVars, downVars
  <2>7. DataInv'
    BY <2>1, <2>2, <2>3
       DEF WriteDetached, TypeOK, DataInv, Queued, InTransaction, Committed, BatchOpenTx, Doomed, OnlyBareRowsStray, jobVars, txVars
  <2> QED
    BY <2>4, <2>5, <2>6, <2>7
<1> QED
  BY <1>1, <1>2

LEMMA ShutdownInv ==
  ASSUME WriterInv, NEW c \in Closers, Shutdown(c)
  PROVE  WriterInv'
<1> USE JobsAssumption DEF WriterInv
<1>1. CASE queue' = queue
  <2> USE <1>1 DEF Shutdown, AckWaitOver, chanVars, downVars, jobVars, txVars
  <2>1. TypeOK'
    BY DEF TypeOK, DownStates
  <2>2. ControlInv'
    BY DEF ControlInv
  <2>3. PlaceInv'
    <3>1. \A d \in Closers : d # c => down'[d] = down[d]
      BY DEF TypeOK
    <3>2. down'[c] # "acked"
      BY DEF TypeOK
    <3>3. c \in Range(queue) => down[c] = "acking" /\ wpc # "exited"
      BY EmptySeq DEF PlaceInv, ControlInv
    <3>4. c \notin Range(queue)
      BY <3>3
    <3> QED
      BY <3>1, <3>2, <3>4 DEF PlaceInv, Queued, Running
  <2>4. DataInv'
    BY DEF TypeOK, DataInv, Queued, InTransaction, Committed, BatchOpenTx, Doomed, OnlyBareRowsStray
  <2> QED
    BY <2>1, <2>2, <2>3, <2>4
<1>2. CASE queue' # queue
  <2>1. /\ queue \in Seq(Jobs \cup Closers) /\ Len(queue) < Capacity /\ ~closed
        /\ queue' = Append(queue, c) /\ down[c] = "sending"
        /\ down' = [down EXCEPT ![c] = "acking"] /\ threads' = threads
    BY <1>2 DEF Shutdown, HasRoom, TypeOK
  <2>2. /\ queue' \in Seq(Jobs \cup Closers) /\ Len(queue') = Len(queue) + 1
        /\ Range(queue') = Range(queue) \cup {c}
        /\ IsInjective(queue) /\ c \notin Range(queue) => IsInjective(queue')
    BY <2>1, AppendSeq
  <2>3. c \notin Range(queue)
    BY <2>1 DEF PlaceInv
  <2>4. TypeOK'
    BY <2>1, <2>2, BoundsAssumption DEF Shutdown, TypeOK, DownStates, chanVars, jobVars, txVars
  <2>5. ControlInv'
    BY <2>1 DEF Shutdown, ControlInv, jobVars, txVars
  <2>6. PlaceInv'
    BY <2>1, <2>2, <2>3 DEF Shutdown, TypeOK, PlaceInv, Queued, Running, jobVars
  <2>7. DataInv'
    BY <2>1, <2>2, <2>3
       DEF Shutdown, TypeOK, DataInv, Queued, InTransaction, Committed, BatchOpenTx, Doomed, OnlyBareRowsStray, jobVars, txVars
  <2> QED
    BY <2>4, <2>5, <2>6, <2>7
<1> QED
  BY <1>1, <1>2

LEMMA ReceiveInv ==
  ASSUME WriterInv, Receive
  PROVE  WriterInv'
<1> USE JobsAssumption DEF WriterInv
<1>1. /\ queue \in Seq(Jobs \cup Closers) /\ queue # <<>> /\ queue' = Tail(queue)
      /\ Len(queue) <= Capacity /\ IsInjective(queue) /\ wpc' = "collect"
  BY DEF Receive, TakeMessage, TypeOK, PlaceInv
<1>2. /\ Head(queue) \in Jobs \cup Closers /\ queue' \in Seq(Jobs \cup Closers)
      /\ Len(queue') <= Capacity /\ IsInjective(queue')
      /\ Range(queue) = {Head(queue)} \cup Range(queue') /\ Head(queue) \notin Range(queue')
  BY <1>1, TailSeq, BoundsAssumption
<1>3. Len(batch) < BatchMax
  BY BoundsAssumption, EmptySeq DEF Receive, BatchOpen, ControlInv, TypeOK
<1>4. CASE Head(queue) \in Closers
  <2> USE <1>4 DEF Receive, TakeMessage
  <2>1. acks' \in Seq(Closers) /\ batch' = batch /\ closed' = TRUE
    <3>1. acks \in Seq(Closers) /\ acks' = Append(acks, Head(queue))
      BY DEF TypeOK
    <3> QED
      BY <3>1, AppendSeq
  <2>2. Queued' = Queued
    BY <1>2 DEF Queued
  <2>3. TypeOK'
    BY <1>1, <1>2, <2>1 DEF TypeOK, WriterStates, downVars, jobVars, txVars
  <2>4. ControlInv'
    BY <1>1, <2>1 DEF ControlInv, jobVars, txVars
  <2>5. PlaceInv'
    BY <1>1, <1>2, <2>1, <2>2 DEF TypeOK, PlaceInv, Running, downVars, jobVars
  <2>6. DataInv'
    BY <1>1, <1>2, <2>1, <2>2 DEF TypeOK, DataInv, InTransaction, Committed, BatchOpenTx, Doomed, OnlyBareRowsStray, jobVars, txVars
  <2> QED
    BY <2>3, <2>4, <2>5, <2>6
<1>5. CASE Head(queue) \notin Closers
  <2>1. /\ Head(queue) \in Jobs /\ batch' = Append(batch, Head(queue))
        /\ closed' = closed /\ acks' = acks
    BY <1>2, <1>5 DEF Receive, TakeMessage
  <2>2. Head(queue) \in Queued
    BY <1>2, <2>1 DEF Queued
  <2>3. Head(queue) \notin Range(batch) \cup Running \cup Range(outcomes)
    BY <2>2 DEF PlaceInv
  <2>4. /\ batch' \in Seq(Jobs) /\ Len(batch') = Len(batch) + 1
        /\ Range(batch') = Range(batch) \cup {Head(queue)} /\ IsInjective(batch')
    BY <2>1, <2>3, AppendSeq DEF TypeOK, PlaceInv
  <2>5. Queued = Queued' \cup {Head(queue)} /\ Head(queue) \notin Queued'
    BY <1>2, <2>1 DEF Queued
  <2>6. TypeOK'
    BY <1>1, <1>2, <1>3, <2>1, <2>4, BoundsAssumption
       DEF Receive, TypeOK, WriterStates, downVars, jobVars, txVars
  <2>7. ControlInv'
    BY <1>1, <2>1 DEF Receive, ControlInv, jobVars, txVars
  <2>8. PlaceInv'
    <3>1. IsInjective(queue') /\ IsInjective(batch') /\ IsInjective(outcomes')
      BY <1>2, <2>4 DEF Receive, PlaceInv
    <3>2. /\ Running' = Running /\ outcomes' = outcomes /\ caller' = caller /\ down' = down
          /\ succeeded' = succeeded
      BY DEF Receive, Running, jobVars, downVars
    <3>3. \A c \in Closers : down[c] # "acked"
      BY DEF Receive, PlaceInv
    <3> QED
      BY <1>2, <2>3, <2>4, <2>5, <3>1, <3>2, <3>3 DEF PlaceInv
  <2>9. DataInv'
    BY <1>1, <2>2, <2>4, <2>5
       DEF Receive, TypeOK, DataInv, InTransaction, Committed, BatchOpenTx, Doomed, OnlyBareRowsStray, jobVars, txVars
  <2> QED
    BY <2>6, <2>7, <2>8, <2>9
<1> QED
  BY <1>4, <1>5

LEMMA EndCollectInv ==
  ASSUME WriterInv, EndCollect
  PROVE  WriterInv'
<1> USE DEF WriterInv, EndCollect, chanVars, downVars, jobVars, txVars
<1>1. TypeOK'
  BY DEF TypeOK, WriterStates
<1>2. ControlInv'
  BY DEF TypeOK, ControlInv
<1>3. PlaceInv'
  BY DEF TypeOK, PlaceInv, Queued, Running
<1>4. DataInv'
  BY DEF TypeOK, DataInv, Queued, InTransaction, Committed, BatchOpenTx, Doomed, OnlyBareRowsStray
<1> QED
  BY <1>1, <1>2, <1>3, <1>4

LEMMA EndLoopInv ==
  ASSUME WriterInv, EndLoop
  PROVE  WriterInv'
<1> USE DEF WriterInv, EndLoop, chanVars, downVars, jobVars, txVars
<1>1. TypeOK'
  BY DEF TypeOK, WriterStates
<1>2. ControlInv'
  BY DEF TypeOK, ControlInv
<1>3. PlaceInv'
  BY DEF TypeOK, PlaceInv, Queued, Running
<1>4. DataInv'
  BY DEF TypeOK, DataInv, Queued, InTransaction, Committed, BatchOpenTx, Doomed, OnlyBareRowsStray
<1> QED
  BY <1>1, <1>2, <1>3, <1>4

LEMMA AcknowledgeInv ==
  ASSUME WriterInv, Acknowledge
  PROVE  WriterInv'
<1> USE DEF WriterInv, Acknowledge, chanVars, jobVars, txVars
<1>1. TypeOK'
  <2>1. CASE acks = <<>>
    BY <2>1 DEF TypeOK, WriterStates
  <2>2. CASE acks # <<>>
    <3>0. acks \in Seq(Closers) /\ acks' = Tail(acks)
      BY <2>2 DEF TypeOK
    <3>1. Head(acks) \in Closers /\ acks' \in Seq(Closers)
      BY <2>2, <3>0, TailSeq
    <3>2. down' = [down EXCEPT ![Head(acks)] = "acked"] /\ wpc' = wpc
      BY <2>2
    <3>3. down' \in [Closers -> DownStates]
      BY <3>1, <3>2 DEF TypeOK, DownStates
    <3> QED
      BY <3>1, <3>2, <3>3 DEF TypeOK
  <2> QED
    BY <2>1, <2>2
<1>2. ControlInv'
  BY DEF TypeOK, ControlInv
<1>3. PlaceInv'
  BY EmptySeq DEF TypeOK, PlaceInv, ControlInv, Queued, Running
<1>4. DataInv'
  BY DEF TypeOK, DataInv, Queued, InTransaction, Committed, BatchOpenTx, Doomed, OnlyBareRowsStray
<1> QED
  BY <1>1, <1>2, <1>3, <1>4

LEMMA BeginInv ==
  ASSUME WriterInv, Begin
  PROVE  WriterInv'
<1> USE DEF WriterInv, Begin, chanVars, downVars, jobVars, txVars
<1>1. TypeOK'
  BY DEF TypeOK, WriterStates
<1>2. ControlInv'
  BY DEF TypeOK, ControlInv
<1>3. PlaceInv'
  BY DEF TypeOK, PlaceInv, Queued, Running
<1>4. DataInv'
  <2>1. ~txOpen => writes = {} /\ staged = <<>> /\ outcomes = <<>> /\ current = NoJob
    BY DEF ControlInv
  <2> QED
    BY <2>1, EmptySeq, NoJobAssumption DEF TypeOK, DataInv, Queued, InTransaction, Committed, BatchOpenTx, Doomed, OnlyBareRowsStray
<1> QED
  BY <1>1, <1>2, <1>3, <1>4

LEMMA RefuseInv ==
  ASSUME WriterInv, Refuse
  PROVE  WriterInv'
<1> USE DEF WriterInv, Refuse, Reply, chanVars, downVars, jobVars, txVars
<1>1. CASE batch = <<>>
  <2> USE <1>1
  <2>1. TypeOK'
    BY DEF TypeOK, WriterStates
  <2>2. ControlInv'
    BY DEF TypeOK, ControlInv
  <2>3. PlaceInv'
    BY DEF TypeOK, PlaceInv, Queued, Running
  <2>4. DataInv'
    BY DEF TypeOK, DataInv, Queued, InTransaction, Committed, BatchOpenTx, Doomed, OnlyBareRowsStray
  <2> QED
    BY <2>1, <2>2, <2>3, <2>4
<1>2. CASE batch # <<>>
  <2>1. /\ batch \in Seq(Jobs) /\ batch' = Tail(batch) /\ IsInjective(batch) /\ wpc' = wpc
        /\ caller' = [caller EXCEPT ![Head(batch)] = "err"]
    BY <1>2 DEF TypeOK, PlaceInv
  <2>2. /\ Head(batch) \in Jobs /\ batch' \in Seq(Jobs) /\ Len(batch') = Len(batch) - 1
        /\ Len(batch) > 0 /\ Range(batch) = {Head(batch)} \cup Range(batch')
        /\ IsInjective(batch') /\ Head(batch) \notin Range(batch')
    BY <1>2, <2>1, TailSeq
  <2>3. caller[Head(batch)] = "waiting"
    BY <2>2 DEF PlaceInv
  <2>4. TypeOK'
    BY <2>1, <2>2, BoundsAssumption DEF TypeOK, CallerStates
  <2>5. ControlInv'
    BY <2>1 DEF TypeOK, ControlInv
  <2>6. PlaceInv'
    BY <2>1, <2>2 DEF TypeOK, PlaceInv, Queued, Running
  <2>7. DataInv'
    BY <2>1, <2>2, <2>3 DEF TypeOK, DataInv, Queued, InTransaction, Committed, BatchOpenTx, Doomed, OnlyBareRowsStray
  <2> QED
    BY <2>4, <2>5, <2>6, <2>7
<1> QED
  BY <1>1, <1>2

LEMMA SkipJobInv ==
  ASSUME WriterInv, SkipJob
  PROVE  WriterInv'
<1> USE DEF WriterInv, SkipJob, EndTransaction, chanVars, downVars, jobVars
<1>1. /\ batch \in Seq(Jobs) /\ batch' = Tail(batch) /\ IsInjective(batch) /\ batch # <<>>
      /\ outcomes \in Seq(Jobs) /\ outcomes' = Append(outcomes, Head(batch))
      /\ IsInjective(outcomes)
  BY DEF TypeOK, PlaceInv
<1>2. /\ Head(batch) \in Jobs /\ batch' \in Seq(Jobs) /\ Len(batch') = Len(batch) - 1
      /\ Len(batch) > 0 /\ Range(batch) = {Head(batch)} \cup Range(batch')
      /\ IsInjective(batch') /\ Head(batch) \notin Range(batch')
  BY <1>1, TailSeq
<1>3. Head(batch) \notin Range(outcomes) \cup Running \cup Queued /\ Head(batch) \notin succeeded
  BY <1>2 DEF PlaceInv
<1>4. /\ outcomes' \in Seq(Jobs) /\ Range(outcomes') = Range(outcomes) \cup {Head(batch)}
      /\ IsInjective(outcomes')
  BY <1>1, <1>2, <1>3, AppendSeq
<1>5. returned[Head(batch)] = {}
  BY <1>2 DEF DataInv
<1>6. TypeOK'
  <2>1. writes' \subseteq AllRows /\ txOpen' \in BOOLEAN
    BY DEF TypeOK
  <2> QED
    BY <1>1, <1>2, <1>4, <2>1, BoundsAssumption DEF TypeOK
<1>7. ControlInv'
  BY DEF TypeOK, ControlInv
<1>8. PlaceInv'
  BY <1>2, <1>3, <1>4 DEF TypeOK, PlaceInv, Queued, Running
<1>9. DataInv'
  <2>1. /\ wpc = "savepoint" /\ wpc' = wpc /\ caller' = caller /\ returned' = returned /\ db' = db
        /\ stray' = stray /\ published' = published /\ staged' = staged /\ aborted' = aborted
        /\ succeeded' = succeeded /\ current' = current /\ Queued' = Queued /\ current = NoJob
    BY DEF ControlInv, Queued
  <2>2. Committed' = Committed /\ InTransaction' = InTransaction
    BY <1>3, <1>4, <2>1 DEF Committed, InTransaction
  <2>3. BatchOpenTx' => BatchOpenTx /\ writes' = writes
    BY <2>1 DEF BatchOpenTx
  <2>4. \A j \in Jobs : Doomed(j) => Doomed(j)'
    BY <1>4, <2>1 DEF Doomed
  <2> QED
    BY <1>2, <2>1, <2>2, <2>3, <2>4 DEF DataInv, OnlyBareRowsStray
<1> QED
  BY <1>6, <1>7, <1>8, <1>9

LEMMA StartJobInv ==
  ASSUME WriterInv, StartJob
  PROVE  WriterInv'
<1> USE DEF WriterInv
<1>1. /\ batch \in Seq(Jobs) /\ batch' = Tail(batch) /\ IsInjective(batch) /\ batch # <<>>
      /\ current' = Head(batch) /\ current = NoJob /\ wpc = "savepoint" /\ wpc' = "job" /\ ~aborted
      /\ txOpen' = TRUE /\ scope' = 0
      /\ saved' = [writes |-> writes, staged |-> Len(staged), outer |-> ~txOpen]
  BY DEF StartJob, TypeOK, PlaceInv, ControlInv
<1>2. /\ queue' = queue /\ closed' = closed /\ caller' = caller /\ returned' = returned
      /\ down' = down /\ threads' = threads /\ inBatch' = inBatch /\ writes' = writes
      /\ aborted' = aborted /\ staged' = staged /\ outcomes' = outcomes /\ succeeded' = succeeded
      /\ failure' = failure /\ acks' = acks /\ db' = db /\ stray' = stray /\ published' = published
  BY DEF StartJob, chanVars, downVars
<1>3. /\ Head(batch) \in Jobs /\ batch' \in Seq(Jobs) /\ Len(batch') = Len(batch) - 1
      /\ Len(batch) > 0 /\ Range(batch) = {Head(batch)} \cup Range(batch')
      /\ IsInjective(batch') /\ Head(batch) \notin Range(batch')
  BY <1>1, TailSeq
<1>4. Head(batch) \notin Range(outcomes) \cup Queued /\ Head(batch) \notin succeeded
  BY <1>3 DEF PlaceInv
<1>5. Running = {} /\ Running' = {Head(batch)} /\ Queued' = Queued
  BY <1>1, <1>2, <1>3, NoJobAssumption DEF Running, Queued
<1>6. /\ staged \in Seq(AllRows) /\ Len(staged) \in Nat /\ SubSeq(staged, 1, Len(staged)) = staged
      /\ saved' \in [writes : SUBSET AllRows, staged : Nat, outer : BOOLEAN]
      /\ saved'.writes = writes /\ saved'.staged = Len(staged) /\ saved'.outer = ~txOpen
  BY <1>1, PrefixSeq DEF TypeOK
<1>7. TypeOK'
  BY <1>1, <1>2, <1>3, <1>6, BoundsAssumption DEF TypeOK, WriterStates
<1>8. ControlInv'
  BY <1>1, <1>2, <1>3, <1>6 DEF TypeOK, ControlInv
<1>9. PlaceInv'
  BY <1>1, <1>2, <1>3, <1>4, <1>5 DEF PlaceInv
<1>10. DataInv'
  <2>1. caller[Head(batch)] = "waiting" /\ returned[Head(batch)] = {}
    BY <1>3 DEF PlaceInv, DataInv
  <2>2. Rows(Head(batch)) \cap stray = {}
    BY <1>1, <1>3, <1>4, <2>1 DEF DataInv, Doomed
  <2>3. Committed' = Committed
    BY <1>1, <1>2 DEF Committed
  <2>4. \A j \in Jobs : Doomed(j) => Doomed(j)'
    BY <1>1, <1>2 DEF Doomed
  <2>5. \A j \in Jobs : j \in InTransaction' <=> j \in InTransaction \/ j = Head(batch)
    BY <1>1, <1>2, NoJobAssumption DEF InTransaction
  <2>6. Head(batch) \notin InTransaction
    BY <1>1, <1>3, <1>4, NoJobAssumption DEF InTransaction
  <2>7. BatchOpenTx' => BatchOpenTx
    BY <1>1, <1>6 DEF BatchOpenTx
  <2>8. ASSUME BatchOpenTx'
        PROVE  /\ Range(staged) = writes \ (Bare \cup stray)
               /\ \A j \in Jobs : (writes \ stray) \cap Rows(j) = IF j \in InTransaction' THEN returned[j] ELSE {}
               /\ writes = writes \ Rows(Head(batch))
    BY <1>3, <2>1, <2>2, <2>5, <2>6, <2>7, <2>8 DEF DataInv
  <2>9. ~txOpen => writes = {} /\ SavepointsMayFail
    BY <1>1 DEF ControlInv
  <2> QED
    BY <1>1, <1>2, <1>3, <1>5, <1>6, <2>3, <2>4, <2>8, <2>9 DEF DataInv, OnlyBareRowsStray
<1> QED
  BY <1>7, <1>8, <1>9, <1>10

\* The rows of different jobs are different rows.
LEMMA RowsDisjoint ==
  /\ \A j, k \in Jobs : j # k => Rows(j) \cap Rows(k) = {}
  /\ \A j \in Jobs : Rows(j) \subseteq AllRows
  /\ \A R \in SUBSET AllRows : \A r \in R : \E j \in Jobs : r \in Rows(j)
  BY DEF Rows, AllRows

\* While a job runs, its caller waits and it is nowhere else; while it has a
\* transaction, no row of it has strayed.
LEMMA CurrentAlone ==
  ASSUME WriterInv, wpc = "job"
  PROVE  /\ current \in Jobs /\ caller[current] = "waiting" /\ Running = {current}
         /\ current \notin Queued \cup Range(batch) \cup Range(outcomes)
         /\ current \notin Committed /\ current \in InTransaction
         /\ Queued \cup Range(batch) \subseteq Jobs /\ Range(outcomes) \subseteq Jobs
         /\ txOpen => Rows(current) \cap stray = {}
<1>1. current \in Jobs /\ Running = {current}
  BY DEF WriterInv, ControlInv, Running
<1>2. Queued \cup Range(batch) \subseteq Jobs /\ Range(outcomes) \subseteq Jobs
  BY DEF WriterInv, TypeOK, Queued, Range
<1>3. /\ caller[current] = "waiting"
      /\ current \notin Queued \cup Range(batch) \cup Range(outcomes)
      /\ current \notin Committed /\ current \in InTransaction
  BY <1>1, <1>2 DEF WriterInv, PlaceInv, Committed, InTransaction
<1>4. txOpen => Rows(current) \cap stray = {}
  BY <1>1, <1>3 DEF WriterInv, DataInv, Doomed
<1> QED
  BY <1>1, <1>2, <1>3, <1>4

\* A failed write of the running job changes nothing or ends the transaction.
LEMMA FailedWriteInv ==
  ASSUME WriterInv, wpc = "job", StatementFails, scope < Scopes, scope' = scope + 1,
         UNCHANGED <<chanVars, downVars, caller, returned, wpc, batch, current, saved, inBatch,
                     staged, aborted, outcomes, succeeded, failure, acks, db, stray, published>>
  PROVE  WriterInv'
<1> USE DEF WriterInv, StatementFails, EndTransaction, chanVars, downVars
<1>1. TypeOK'
  <2>1. scope' \in 0..Scopes
    BY BoundsAssumption DEF TypeOK
  <2>2. writes' \subseteq AllRows /\ txOpen' \in BOOLEAN
    BY DEF TypeOK
  <2> QED
    BY <2>1, <2>2 DEF TypeOK
<1>2. ControlInv'
  BY DEF TypeOK, ControlInv
<1>3. PlaceInv'
  BY DEF PlaceInv, Queued, Running
<1>4. DataInv'
  <2>1. BatchOpenTx' => BatchOpenTx /\ writes' = writes
    BY DEF BatchOpenTx
  <2>2. Queued' = Queued /\ Committed' = Committed /\ InTransaction' = InTransaction
    BY DEF Queued, Committed, InTransaction
  <2>3. \A j \in Jobs : Doomed(j) => Doomed(j)'
    BY DEF Doomed
  <2> QED
    BY <2>1, <2>2, <2>3 DEF DataInv, OnlyBareRowsStray
<1> QED
  BY <1>1, <1>2, <1>3, <1>4

\* What a write of the running job inside a transaction leaves to show: its
\* row joins the transaction, and the announcements only when it is not bare.
LEMMA WriteInTxInv ==
  ASSUME WriterInv, wpc = "job", txOpen, scope < Scopes, scope' = scope + 1,
         writes' = writes \cup {NextRow}, Wrote(NextRow),
         \/ NextRow \in Bare /\ staged' = staged
         \/ NextRow \notin Bare /\ staged' = Append(staged, NextRow),
         UNCHANGED <<chanVars, downVars, caller, wpc, batch, current, saved, inBatch, txOpen,
                     aborted, outcomes, succeeded, failure, acks, db, stray, published>>
  PROVE  WriterInv'
<1> USE DEF WriterInv
<1> DEFINE row == NextRow
<1>1. /\ current \in Jobs /\ caller[current] = "waiting" /\ Rows(current) \cap stray = {}
      /\ current \notin Queued \cup Range(batch) /\ current \notin Committed
      /\ current \in InTransaction /\ Queued \cup Range(batch) \subseteq Jobs
  BY CurrentAlone
<1>2. scope' \in 0..Scopes /\ row \in AllRows /\ row \in Rows(current) /\ row \notin stray
  BY <1>1, BoundsAssumption DEF TypeOK, AllRows, Rows, NextRow
<1>3. \A j \in Jobs : j # current => row \notin Rows(j)
  BY <1>1, <1>2, RowsDisjoint
<1>4. returned' = [returned EXCEPT ![current] = @ \cup {row}]
  BY DEF Wrote
<1>5. /\ staged \in Seq(AllRows) /\ staged' \in Seq(AllRows) /\ Len(staged') >= Len(staged)
      /\ Range(staged') = Range(staged) \cup ({row} \ Bare)
  <2>1. staged \in Seq(AllRows) /\ Len(staged) \in Nat
    BY DEF TypeOK
  <2>2. CASE NextRow \in Bare /\ staged' = staged
    BY <2>1, <2>2
  <2>3. CASE NextRow \notin Bare /\ staged' = Append(staged, NextRow)
    <3>1. /\ staged' \in Seq(AllRows) /\ Len(staged') = Len(staged) + 1
          /\ Range(staged') = Range(staged) \cup {row}
      BY <1>2, <2>1, <2>3, AppendSeq
    <3> QED
      BY <2>1, <2>3, <3>1
  <2> QED
    BY <2>2, <2>3
<1>6. saved.staged \in 0..Len(staged) /\ SubSeq(staged', 1, saved.staged) = SubSeq(staged, 1, saved.staged)
  <2>1. staged \in Seq(AllRows) /\ saved.staged \in 0..Len(staged)
    BY DEF ControlInv, TypeOK
  <2>2. SubSeq(Append(staged, NextRow), 1, saved.staged) = SubSeq(staged, 1, saved.staged)
    BY <1>2, <2>1, PrefixSeq
  <2> QED
    BY <2>1, <2>2
<1> HIDE DEF row
<1> USE DEF chanVars, downVars
<1>7. TypeOK'
  <2>1. returned' \in [Jobs -> SUBSET AllRows] /\ writes' \subseteq AllRows
    BY <1>1, <1>2, <1>4 DEF TypeOK, row
  <2> QED
    BY <1>2, <1>5, <2>1 DEF TypeOK
<1>8. ControlInv'
  BY <1>5, <1>6 DEF TypeOK, ControlInv
<1>9. PlaceInv'
  BY DEF PlaceInv, Queued, Running
<1>10. DataInv'
  <2>1. /\ \A j \in Jobs : j # current => returned'[j] = returned[j]
        /\ returned'[current] = returned[current] \cup {row} /\ writes' = writes \cup {row}
    BY <1>1, <1>4 DEF TypeOK, row
  <2>2. /\ Queued' = Queued /\ Committed' = Committed /\ InTransaction' = InTransaction
        /\ BatchOpenTx' = BatchOpenTx /\ \A j \in Jobs : Doomed(j)' <=> Doomed(j)
    BY DEF Queued, Committed, InTransaction, BatchOpenTx, Doomed
  <2>3. BatchOpenTx => \A j \in Jobs : (writes' \ stray) \cap Rows(j) = IF j \in InTransaction THEN returned'[j] ELSE {}
    BY <1>1, <1>2, <1>3, <2>1 DEF DataInv
  <2>4. BatchOpenTx => Range(staged') = writes' \ (Bare \cup stray)
    BY <1>2, <1>5, <2>1 DEF DataInv
  <2>5. BatchOpenTx => saved.writes = writes' \ Rows(current)
    BY <1>2, <2>1 DEF DataInv
  <2>6. saved.outer => writes' \subseteq Rows(current)
    BY <1>2, <2>1 DEF DataInv
  <2>7. \A j \in Jobs : returned'[j] \subseteq Rows(j)
    BY <1>2, <2>1 DEF DataInv
  <2>8. \A j \in Jobs : caller[j] \in {"idle", "sending"} => returned'[j] = {}
    BY <1>1, <2>1 DEF DataInv
  <2>9. \A j \in Queued \cup Range(batch) : returned'[j] = {}
    BY <1>1, <2>1 DEF DataInv
  <2>10. \A j \in Jobs : (db \ stray) \cap Rows(j) = IF j \in Committed THEN returned'[j] ELSE {}
    BY <1>1, <2>1 DEF DataInv
  <2>11. \A j \in Committed : j # current /\ j \in Jobs /\ returned'[j] \ Bare \subseteq published
    BY <1>1, <2>1 DEF DataInv, Committed
  <2>12. \A j \in Jobs : caller[j] = "ok" => returned'[j] \ Bare \subseteq published
    BY <2>11 DEF Committed
  <2> QED
    BY <1>6, <2>2, <2>3, <2>4, <2>5, <2>6, <2>7, <2>8, <2>9, <2>10, <2>11, <2>12
       DEF DataInv, OnlyBareRowsStray
<1> QED
  BY <1>7, <1>8, <1>9, <1>10

LEMMA ScopeInv ==
  ASSUME WriterInv, Scope
  PROVE  WriterInv'
<1>1. wpc = "job" /\ inBatch /\ scope < Scopes /\ scope' = scope + 1 /\ NextRow \notin Bare
  BY DEF Scope, WriterInv, ControlInv
<1>2. CASE StatementFails /\ UNCHANGED <<staged, published, returned, db>>
  BY <1>1, <1>2, FailedWriteInv DEF Scope
<1>3. CASE /\ ScopeAllowed /\ Publish(NextRow) /\ Wrote(NextRow)
           /\ IF txOpen THEN writes' = writes \cup {NextRow} /\ UNCHANGED db
                        ELSE db' = db \cup {NextRow} /\ UNCHANGED writes
           /\ UNCHANGED txOpen
  <2>1. /\ txOpen /\ staged' = Append(staged, NextRow) /\ published' = published
        /\ writes' = writes \cup {NextRow} /\ db' = db
    BY <1>1, <1>3 DEF ScopeAllowed, Publish
  <2> QED
    BY <1>1, <1>3, <2>1, WriteInTxInv DEF Scope
<1> QED
  BY <1>2, <1>3 DEF Scope

LEMMA BareWriteInv ==
  ASSUME WriterInv, BareWrite
  PROVE  WriterInv'
<1>1. wpc = "job" /\ inBatch /\ scope < Scopes /\ scope' = scope + 1 /\ NextRow \in Bare
  BY DEF BareWrite, WriterInv, ControlInv
<1>2. CASE StatementFails /\ UNCHANGED <<returned, db, stray>>
  BY <1>1, <1>2, FailedWriteInv DEF BareWrite
<1>3. CASE txOpen /\ Wrote(NextRow) /\ writes' = writes \cup {NextRow} /\ UNCHANGED <<db, stray, txOpen>>
  BY <1>1, <1>3, WriteInTxInv DEF BareWrite
<1>4. CASE /\ ~txOpen /\ Wrote(NextRow) /\ UNCHANGED <<writes, txOpen>>
           /\ db' = db \cup {NextRow} /\ stray' = stray \cup {NextRow}
  <2> USE DEF WriterInv
  <2> DEFINE row == NextRow
  <2>1. /\ current \in Jobs /\ caller[current] = "waiting"
        /\ current \notin Queued \cup Range(batch) /\ current \notin Committed
        /\ Queued \cup Range(batch) \subseteq Jobs
    BY <1>1, CurrentAlone
  <2>2. scope' \in 0..Scopes /\ row \in AllRows /\ row \in Rows(current) /\ row \in Bare
    BY <1>1, <2>1, BoundsAssumption DEF TypeOK, AllRows, Rows, NextRow
  <2>3. \A j \in Jobs : j # current => row \notin Rows(j)
    BY <2>1, <2>2, RowsDisjoint
  <2>4. /\ returned' = [returned EXCEPT ![current] = @ \cup {row}]
        /\ db' = db \cup {row} /\ stray' = stray \cup {row} /\ ~txOpen' /\ ~txOpen /\ writes' = writes
    BY <1>4 DEF Wrote
  <2>5. /\ queue' = queue /\ closed' = closed /\ caller' = caller /\ down' = down /\ threads' = threads
        /\ wpc' = wpc /\ batch' = batch /\ current' = current /\ saved' = saved /\ inBatch' = inBatch
        /\ staged' = staged /\ aborted' = aborted /\ outcomes' = outcomes /\ succeeded' = succeeded
        /\ failure' = failure /\ acks' = acks /\ published' = published
    BY DEF BareWrite, chanVars, downVars
  <2> HIDE DEF row
  <2>6. TypeOK'
    <3>1. returned' \in [Jobs -> SUBSET AllRows]
      BY <2>1, <2>2, <2>4 DEF TypeOK
    <3>2. txOpen' \in BOOLEAN /\ db' \subseteq AllRows /\ stray' \subseteq AllRows
      BY <1>4, <2>2, <2>4 DEF TypeOK
    <3> QED
      BY <2>2, <2>4, <2>5, <3>1, <3>2 DEF TypeOK
  <2>7. ControlInv'
    BY <1>1, <2>4, <2>5 DEF ControlInv
  <2>8. PlaceInv'
    BY <2>5 DEF PlaceInv, Queued, Running
  <2>9. DataInv'
    <3>1. /\ \A j \in Jobs : j # current => returned'[j] = returned[j]
          /\ returned'[current] = returned[current] \cup {row}
      BY <2>1, <2>4 DEF TypeOK
    <3>2. Queued' = Queued /\ Committed' = Committed /\ ~BatchOpenTx'
      BY <1>1, <2>4, <2>5 DEF Queued, Committed, BatchOpenTx
    <3>3. \A j \in Jobs : Doomed(j) => Doomed(j)'
      BY <2>4, <2>5 DEF Doomed
    <3>4. \A j \in Jobs : j = current => Doomed(j)'
      BY <1>1, <2>4, <2>5 DEF Doomed
    <3>5. \A j \in Jobs : Rows(j) \cap stray' # {} => Doomed(j)'
      <4> SUFFICES ASSUME NEW j \in Jobs, Rows(j) \cap stray' # {}
                   PROVE  Doomed(j)'
        OBVIOUS
      <4>1. CASE j = current
        BY <3>4, <4>1
      <4>2. CASE j # current
        <5>1. Rows(j) \cap stray # {}
          BY <2>3, <2>4, <4>2
        <5>2. Doomed(j)
          BY <5>1 DEF DataInv
        <5> QED
          BY <3>3, <5>2
      <4> QED
        BY <4>1, <4>2
    <3>6. \A j \in Jobs : (db' \ stray') \cap Rows(j) = IF j \in Committed THEN returned'[j] ELSE {}
      <4> SUFFICES ASSUME NEW j \in Jobs
                   PROVE  (db' \ stray') \cap Rows(j) = IF j \in Committed THEN returned'[j] ELSE {}
        OBVIOUS
      <4>1. CASE j = current
        BY <2>1, <2>4, <4>1 DEF DataInv
      <4>2. CASE j # current
        BY <2>3, <2>4, <3>1, <4>2 DEF DataInv
      <4> QED
        BY <4>1, <4>2
    <3>7. \A j \in Jobs : returned'[j] \subseteq Rows(j)
      BY <2>2, <3>1 DEF DataInv
    <3>8. \A j \in Jobs : caller[j] \in {"idle", "sending"} => returned'[j] = {}
      BY <2>1, <3>1 DEF DataInv
    <3>9. \A j \in Queued \cup Range(batch) : returned'[j] = {}
      BY <2>1, <3>1 DEF DataInv
    <3>10. \A j \in Committed : j # current /\ j \in Jobs /\ returned'[j] \ Bare \subseteq published
      BY <1>1, <2>1, <3>1 DEF DataInv, Committed
    <3>11. \A j \in Jobs : caller[j] = "ok" => returned'[j] \ Bare \subseteq published
      BY <3>10 DEF Committed
    <3>12. OnlyBareRowsStray'
      BY <2>2, <2>4 DEF DataInv, OnlyBareRowsStray
    <3>13. published \subseteq db'
      BY <2>4 DEF DataInv
    <3> QED
      BY <1>1, <2>4, <2>5, <3>2, <3>5, <3>6, <3>7, <3>8, <3>9, <3>10, <3>11, <3>12, <3>13 DEF DataInv
  <2> QED
    BY <2>6, <2>7, <2>8, <2>9
<1> QED
  BY <1>2, <1>3, <1>4 DEF BareWrite

LEMMA EndBatchInv ==
  ASSUME WriterInv, EndBatch
  PROVE  WriterInv'
<1> USE DEF WriterInv, EndBatch, chanVars, downVars, jobVars
<1>1. TypeOK'
  BY DEF TypeOK, WriterStates
<1>2. ControlInv'
  BY DEF TypeOK, ControlInv
<1>3. PlaceInv'
  BY DEF TypeOK, PlaceInv, Queued, Running
<1>4. DataInv'
  BY DEF TypeOK, DataInv, Queued, InTransaction, Committed, BatchOpenTx, Doomed, OnlyBareRowsStray
<1> QED
  BY <1>1, <1>2, <1>3, <1>4

LEMMA FlushInv ==
  ASSUME WriterInv, Flush
  PROVE  WriterInv'
<1> USE DEF WriterInv, Flush, chanVars, downVars, jobVars, txVars
<1>1. TypeOK'
  <2>1. Range(staged) \subseteq AllRows /\ staged' \in Seq(AllRows)
    BY EmptySeq DEF TypeOK, Range
  <2> QED
    BY <2>1 DEF TypeOK, WriterStates
<1>2. ControlInv'
  BY DEF TypeOK, ControlInv
<1>3. PlaceInv'
  BY DEF TypeOK, PlaceInv, Queued, Running
<1>4. DataInv'
  BY EmptySeq DEF TypeOK, DataInv, Queued, InTransaction, Committed, BatchOpenTx, Doomed, OnlyBareRowsStray
<1> QED
  BY <1>1, <1>2, <1>3, <1>4

\* What the end of a job does to the transaction: the job's rows stay in the
\* batch's transaction, are undone, are left there as strays or are committed
\* at once as strays; or the transaction is lost.
LEMMA SavepointEnds ==
  ASSUME WriterInv, NEW r \in {"ok", "err", "panic"}, EndJob(r)
  PROVE  \/ /\ r = "ok" /\ (txOpen => ~saved.outer)
            /\ UNCHANGED <<txOpen, writes, db, stray>>
         \/ /\ r = "ok" /\ txOpen /\ txOpen' = FALSE /\ writes' = {} /\ writes \subseteq Rows(current)
            /\ db' = db \cup writes /\ stray' = stray \cup writes /\ SavepointsMayFail
         \/ txOpen' = FALSE /\ writes' = {} /\ UNCHANGED <<db, stray>>
         \/ /\ r # "ok" /\ txOpen /\ ~saved.outer /\ writes' = writes \ Rows(current)
            /\ UNCHANGED <<txOpen, db, stray>>
         \/ /\ r # "ok" /\ txOpen /\ ~saved.outer /\ SavepointsMayFail
            /\ stray' = stray \cup (writes \cap Rows(current)) /\ UNCHANGED <<txOpen, writes, db>>
<1> USE DEF WriterInv, EndTransaction
<1>1. /\ wpc = "job" /\ (txOpen /\ saved.outer => writes \subseteq Rows(current) /\ SavepointsMayFail)
      /\ (txOpen /\ ~saved.outer => saved.writes = writes \ Rows(current))
      /\ (~txOpen => writes = {}) /\ txOpen \in BOOLEAN
  BY DEF EndJob, DataInv, ControlInv, BatchOpenTx, TypeOK
<1>2. CASE txOpen /\ EndTransaction /\ UNCHANGED <<db, stray>>
  BY <1>2
<1>3. CASE r = "ok" /\ Release
  BY <1>1, <1>3 DEF Release
<1>4. CASE r # "ok" /\ RollbackTo
  BY <1>1, <1>4 DEF RollbackTo
<1> QED
  BY <1>2, <1>3, <1>4 DEF EndJob

LEMMA EndJobInv ==
  ASSUME WriterInv, NEW r \in {"ok", "err", "panic"}, EndJob(r)
  PROVE  WriterInv'
<1> USE DEF WriterInv
<1>1. /\ wpc = "job" /\ wpc' = "savepoint" /\ current' = NoJob /\ inBatch' /\ inBatch
      /\ aborted' = ~txOpen' /\ batch' = batch /\ queue' = queue /\ ~aborted
      /\ closed' = closed /\ scope' = scope /\ saved' = saved /\ failure' = failure
      /\ acks' = acks /\ published' = published /\ down' = down /\ threads' = threads
  BY DEF EndJob, ControlInv, chanVars, downVars
<1>2. /\ current \in Jobs /\ caller[current] = "waiting" /\ Running = {current}
      /\ current \notin Queued \cup Range(batch) \cup Range(outcomes)
      /\ current \notin Committed /\ current \in InTransaction
      /\ Queued \cup Range(batch) \subseteq Jobs /\ Range(outcomes) \subseteq Jobs
      /\ (txOpen => Rows(current) \cap stray = {})
  BY <1>1, CurrentAlone
<1>3. Running' = {} /\ Queued' = Queued
  BY <1>1, NoJobAssumption DEF Running, Queued
<1>4. /\ outcomes \in Seq(Jobs) /\ Append(outcomes, current) \in Seq(Jobs)
      /\ Range(Append(outcomes, current)) = Range(outcomes) \cup {current}
      /\ IsInjective(Append(outcomes, current))
  BY <1>2, AppendSeq DEF TypeOK, PlaceInv
<1>5. /\ staged \in Seq(AllRows) /\ saved.staged \in 0..Len(staged)
      /\ SubSeq(staged, 1, saved.staged) \in Seq(AllRows)
  BY <1>1, PrefixSeq DEF TypeOK, ControlInv
<1>6. /\ r = "ok" => /\ staged' = staged /\ returned' = returned /\ succeeded' = succeeded \cup {current}
                     /\ caller' = caller /\ outcomes' = Append(outcomes, current)
      /\ r # "ok" => /\ staged' = SubSeq(staged, 1, saved.staged) /\ succeeded' = succeeded
                     /\ returned' = [returned EXCEPT ![current] = {}]
      /\ r = "panic" => caller' = [caller EXCEPT ![current] = "err"] /\ outcomes' = outcomes
      /\ r = "err" => caller' = caller /\ outcomes' = Append(outcomes, current)
  BY DEF EndJob, Truncate, Reply
<1>7. /\ txOpen' \in BOOLEAN /\ writes' \subseteq AllRows /\ (~txOpen' => writes' = {})
      /\ db' \subseteq AllRows /\ stray' \subseteq AllRows
      /\ (txOpen' => txOpen /\ ~saved.outer) /\ (~txOpen => ~txOpen')
  BY SavepointEnds DEF TypeOK, ControlInv
<1>8. TypeOK'
  <2>1. caller' \in [Jobs -> CallerStates] /\ returned' \in [Jobs -> SUBSET AllRows]
    <3>1. caller \in [Jobs -> CallerStates] /\ returned \in [Jobs -> SUBSET AllRows]
      BY DEF TypeOK
    <3>2. caller' \in [Jobs -> CallerStates]
      BY <1>2, <1>6, <3>1 DEF CallerStates
    <3>3. returned' \in [Jobs -> SUBSET AllRows]
      BY <1>2, <1>6, <3>1
    <3> QED
      BY <3>2, <3>3
  <2>2. outcomes' \in Seq(Jobs) /\ succeeded' \subseteq Jobs /\ staged' \in Seq(AllRows)
    BY <1>2, <1>4, <1>5, <1>6 DEF TypeOK
  <2> QED
    BY <1>1, <1>7, <2>1, <2>2 DEF TypeOK, WriterStates
<1>9. ControlInv'
  BY <1>1, <1>7 DEF ControlInv
<1>10. /\ \A j \in Jobs : j # current => /\ caller'[j] = caller[j] /\ returned'[j] = returned[j]
                                         /\ (j \in Range(outcomes') <=> j \in Range(outcomes))
                                         /\ (j \in succeeded' <=> j \in succeeded)
       /\ caller'[current] = "waiting" <=> current \in Range(outcomes')
       /\ caller'[current] \in {"waiting", "err"}
       /\ Range(outcomes') \subseteq Jobs
  <2>1. caller \in [Jobs -> CallerStates] /\ returned \in [Jobs -> SUBSET AllRows]
    BY DEF TypeOK
  <2>2. CASE r = "ok"
    BY <1>2, <1>4, <1>6, <2>1, <2>2
  <2>3. CASE r = "err"
    BY <1>2, <1>4, <1>6, <2>1, <2>3
  <2>4. CASE r = "panic"
    BY <1>2, <1>4, <1>6, <2>1, <2>4
  <2> QED
    BY <2>2, <2>3, <2>4
<1>11. current \in succeeded' <=> r = "ok"
  BY <1>2, <1>6 DEF PlaceInv
<1>12. PlaceInv'
  <2>1. IsInjective(queue') /\ IsInjective(batch') /\ IsInjective(outcomes')
    BY <1>1, <1>4, <1>6 DEF PlaceInv
  <2>2. \A j \in Jobs : caller'[j] = "waiting" <=> j \in Queued' \cup Range(batch') \cup Running' \cup Range(outcomes')
    BY <1>1, <1>2, <1>3, <1>10 DEF PlaceInv
  <2>3. /\ Queued' \cap (Range(batch') \cup Running' \cup Range(outcomes')) = {}
        /\ Range(batch') \cap (Running' \cup Range(outcomes')) = {}
        /\ Running' \cap Range(outcomes') = {}
    BY <1>1, <1>2, <1>3, <1>10 DEF PlaceInv
  <2>4. succeeded' \cap (Queued' \cup Range(batch') \cup Running') = {}
    BY <1>1, <1>2, <1>3, <1>6 DEF PlaceInv
  <2>5. \A j \in succeeded' : caller'[j] \notin {"idle", "sending"}
    <3>1. succeeded \subseteq Jobs /\ succeeded' \subseteq succeeded \cup {current}
      BY <1>6 DEF TypeOK
    <3> QED
      BY <1>10, <3>1 DEF PlaceInv
  <2> QED
    BY <1>1, <1>2, <1>3, <1>10, <2>1, <2>2, <2>3, <2>4, <2>5 DEF PlaceInv
<1>13. DataInv'
  <2>1. Committed' = Committed
    BY <1>1, <1>2, <1>10 DEF Committed
  <2>2. \A j \in Jobs : returned'[j] \subseteq Rows(j)
    <3>1. returned'[current] \subseteq returned[current]
      BY <1>2, <1>6 DEF TypeOK
    <3> QED
      BY <1>10, <3>1 DEF DataInv
  <2>3. \A j \in Jobs : caller'[j] \in {"idle", "sending"} => returned'[j] = {}
    BY <1>10 DEF DataInv
  <2>4. \A j \in Queued' \cup Range(batch') : returned'[j] = {}
    BY <1>1, <1>2, <1>3, <1>10 DEF DataInv
  <2>5. \A j \in Jobs : (db' \ stray') \cap Rows(j) = IF j \in Committed' THEN returned'[j] ELSE {}
    <3> SUFFICES ASSUME NEW j \in Jobs
                 PROVE  (db' \ stray') \cap Rows(j) = IF j \in Committed THEN returned'[j] ELSE {}
      BY <2>1
    <3>1. (db \ stray) \cap Rows(j) = IF j \in Committed THEN returned[j] ELSE {}
      BY DEF DataInv
    <3>2. CASE j = current
      <4>1. (db' \ stray') \cap Rows(j) = {}
        BY <1>2, <3>1, <3>2, SavepointEnds
      <4> QED
        BY <1>2, <3>2, <4>1
    <3>3. CASE j # current
      <4>1. Rows(j) \cap Rows(current) = {}
        BY <1>2, <3>3, RowsDisjoint
      <4>2. (db' \ stray') \cap Rows(j) = (db \ stray) \cap Rows(j)
        BY <4>1, SavepointEnds
      <4> QED
        BY <1>10, <3>1, <3>3, <4>2
    <3> QED
      BY <3>2, <3>3
  <2>6. \A j \in Jobs : Rows(j) \cap stray' # {} => Doomed(j)'
    <3> SUFFICES ASSUME NEW j \in Jobs, Rows(j) \cap stray' # {}
                 PROVE  Doomed(j)'
      OBVIOUS
    <3>1. CASE j = current
      <4>1. r = "ok" => ~txOpen'
        <5>1. Rows(current) \cap stray' # {} /\ (txOpen => Rows(current) \cap stray = {})
          BY <1>2, <3>1
        <5>2. ~txOpen => ~txOpen'
          BY <1>7
        <5> QED
          BY <5>1, <5>2, SavepointEnds
      <4> QED
        BY <1>1, <1>2, <1>4, <1>6, <1>10, <1>11, <3>1, <4>1 DEF Doomed
    <3>2. CASE j # current
      <4>1. Rows(j) \cap stray # {}
        <5>1. Rows(j) \cap Rows(current) = {}
          BY <1>2, <3>2, RowsDisjoint
        <5> QED
          BY <5>1, SavepointEnds
      <4>2. Doomed(j)
        BY <4>1 DEF DataInv
      <4> QED
        BY <1>1, <1>10, <3>2, <4>2 DEF Doomed
    <3> QED
      BY <3>1, <3>2
  <2>7. OnlyBareRowsStray'
    BY SavepointEnds DEF DataInv, OnlyBareRowsStray
  <2>8. \A j \in Committed' : returned'[j] \ Bare \subseteq published'
    BY <1>1, <1>2, <1>10, <2>1 DEF DataInv, Committed
  <2>9. \A j \in Jobs : caller'[j] = "ok" => returned'[j] \ Bare \subseteq published'
    BY <2>8 DEF Committed
  <2>10. published' \subseteq db'
    BY <1>1, SavepointEnds DEF DataInv
  <2>11. ASSUME txOpen'
         PROVE  /\ Range(staged') = writes' \ (Bare \cup stray')
                /\ \A j \in Jobs : (writes' \ stray') \cap Rows(j) = IF j \in InTransaction' THEN returned'[j] ELSE {}
    <3>1. /\ BatchOpenTx /\ txOpen /\ ~saved.outer
      BY <1>1, <1>7, <2>11 DEF BatchOpenTx
    <3>2. /\ Range(staged) = writes \ (Bare \cup stray)
          /\ Range(SubSeq(staged, 1, saved.staged)) = saved.writes \ (Bare \cup stray)
          /\ saved.writes = writes \ Rows(current)
          /\ \A j \in Jobs : (writes \ stray) \cap Rows(j) = IF j \in InTransaction THEN returned[j] ELSE {}
      BY <1>1, <3>1 DEF DataInv
    <3>3. \A j \in Jobs : j # current => (j \in InTransaction' <=> j \in InTransaction)
      BY <1>1, <1>10, NoJobAssumption DEF InTransaction
    <3>4. r = "ok" => current \in InTransaction'
      BY <1>1, <1>4, <1>6, <1>11 DEF InTransaction
    <3>5. CASE r = "ok"
      <4>1. writes' = writes /\ stray' = stray
        BY <2>11, <3>5, SavepointEnds
      <4> QED
        BY <1>2, <1>6, <3>2, <3>3, <3>4, <3>5, <4>1
    <3>6. CASE r # "ok"
      <4>1. writes' \ stray' = (writes \ stray) \ Rows(current)
        BY <1>2, <2>11, <3>1, <3>6, SavepointEnds
      <4>2. Range(staged') = writes' \ (Bare \cup stray')
        BY <1>6, <3>2, <3>6, <4>1
      <4>3. ASSUME NEW j \in Jobs
            PROVE (writes' \ stray') \cap Rows(j) = IF j \in InTransaction' THEN returned'[j] ELSE {}
        <5>1. CASE j = current
          <6>1. returned'[current] = {}
            BY <1>2, <1>6, <3>6 DEF TypeOK
          <6> QED
            BY <4>1, <5>1, <6>1
        <5>2. CASE j # current
          <6>1. Rows(j) \cap Rows(current) = {}
            BY <1>2, <5>2, RowsDisjoint
          <6>2. (writes' \ stray') \cap Rows(j) = (writes \ stray) \cap Rows(j)
            BY <4>1, <6>1
          <6> QED
            BY <1>10, <3>2, <3>3, <5>2, <6>2
        <5> QED
          BY <5>1, <5>2
      <4> QED
        BY <4>2, <4>3
    <3> QED
      BY <3>5, <3>6
  <2>12. BatchOpenTx' => txOpen'
    BY DEF BatchOpenTx
  <2> QED
    BY <1>1, <2>2, <2>3, <2>4, <2>5, <2>6, <2>7, <2>8, <2>9, <2>10, <2>11, <2>12 DEF DataInv
<1> QED
  BY <1>8, <1>9, <1>12, <1>13

LEMMA CommitInv ==
  ASSUME WriterInv, Commit
  PROVE  WriterInv'
<1> USE DEF WriterInv
<1>1. /\ wpc = "commit" /\ caller' = caller /\ queue' = queue /\ closed' = closed
      /\ returned' = returned /\ down' = down /\ threads' = threads /\ batch' = batch
      /\ current' = current /\ scope' = scope /\ saved' = saved /\ inBatch' = inBatch
      /\ aborted' = aborted /\ outcomes' = outcomes /\ succeeded' = succeeded
      /\ acks' = acks /\ published' = published /\ stray' = stray
  BY DEF Commit, chanVars, downVars, jobVars
<1>2. Queued' = Queued /\ Running' = Running /\ current = NoJob
  BY <1>1 DEF Queued, Running, ControlInv
<1>3. PlaceInv'
  BY <1>1, <1>2 DEF Commit, PlaceInv
<1>4. Range(outcomes) \subseteq Jobs /\ staged \in Seq(AllRows) /\ Len(staged) \in Nat
  BY DEF TypeOK, Range
<1>5. CASE ~aborted /\ wpc' = "flush"
  <2>1. /\ txOpen /\ db' = db \cup writes /\ writes' = {} /\ txOpen' = FALSE
        /\ failure' = FALSE /\ staged' = staged
    BY <1>1, <1>5 DEF Commit, EndTransaction
  <2>2. TypeOK'
    BY <1>1, <1>5, <2>1 DEF TypeOK, WriterStates
  <2>3. ControlInv'
    BY <1>1, <1>5, <2>1 DEF ControlInv
  <2>4. DataInv'
    <3>1. \A j \in Jobs : j \in InTransaction <=> j \in Range(outcomes) \cap succeeded
      BY <1>2, NoJobAssumption DEF InTransaction
    <3>2. \A j \in Jobs : j \in Committed <=> caller[j] = "ok"
      BY <1>1 DEF Committed
    <3>3. \A j \in Jobs : j \in Committed' <=> j \in Committed \/ j \in InTransaction
      BY <1>1, <1>5, <2>1, <3>1, <3>2 DEF Committed
    <3>4. \A j \in Jobs : ~(j \in Committed /\ j \in InTransaction)
      BY <3>1, <3>2 DEF PlaceInv
    <3>0. /\ BatchOpenTx /\ ~BatchOpenTx'
          /\ \A j \in Jobs : Doomed(j) => Doomed(j)'
      BY <1>1, <1>5, <2>1 DEF BatchOpenTx, Doomed
    <3>5. \A j \in Jobs : (db' \ stray) \cap Rows(j) = IF j \in Committed' THEN returned'[j] ELSE {}
      BY <1>1, <2>1, <3>0, <3>3, <3>4 DEF DataInv
    <3>6. Range(staged') = writes \ (Bare \cup stray)
      BY <1>1, <2>1, <3>0 DEF DataInv
    <3>7. \A j \in Committed' : returned'[j] \ Bare \subseteq published' \cup Range(staged')
      <4> SUFFICES ASSUME NEW j \in Committed' PROVE returned[j] \ Bare \subseteq published \cup (writes \ (Bare \cup stray))
        BY <1>1, <3>6
      <4>1. j \in Jobs
        BY DEF Committed
      <4>2. CASE j \in Committed
        BY <1>1, <4>2 DEF DataInv
      <4>3. CASE j \in InTransaction
        BY <1>1, <2>1, <3>0, <4>1, <4>3 DEF DataInv
      <4> QED
        BY <3>3, <4>1, <4>2, <4>3
    <3> QED
      BY <1>1, <1>2, <1>5, <2>1, <3>0, <3>5, <3>6, <3>7 DEF DataInv, OnlyBareRowsStray
  <2> QED
    BY <1>3, <2>2, <2>3, <2>4
<1>6. CASE wpc' = "settle"
  <2>1. /\ db' = db /\ failure' = TRUE /\ staged' = <<>>
        /\ \/ writes' = {} /\ txOpen' = FALSE
           \/ writes' = writes /\ txOpen' = txOpen
    BY <1>1, <1>4, <1>6, PrefixSeq DEF Commit, DiscardAll, Truncate, EndTransaction
  <2>2. TypeOK'
    BY <1>1, <1>6, <2>1, EmptySeq DEF TypeOK, WriterStates
  <2>3. ControlInv'
    BY <1>1, <1>6, <2>1 DEF ControlInv
  <2>4. DataInv'
    <3>1. Committed' = Committed
      BY <1>1, <1>6, <2>1 DEF Committed
    <3>2. /\ ~BatchOpenTx' /\ \A j \in Jobs : Doomed(j) => Doomed(j)'
      BY <1>1, <1>6, <2>1 DEF BatchOpenTx, Doomed
    <3> QED
      BY <1>1, <1>2, <1>6, <2>1, <3>1, <3>2 DEF DataInv, OnlyBareRowsStray
  <2> QED
    BY <1>3, <2>2, <2>3, <2>4
<1> QED
  BY <1>5, <1>6 DEF Commit

LEMMA SettleInv ==
  ASSUME WriterInv, Settle
  PROVE  WriterInv'
<1> USE DEF WriterInv
<1>1. /\ wpc = "settle" /\ queue' = queue /\ closed' = closed
      /\ returned' = returned /\ down' = down /\ threads' = threads /\ batch' = batch
      /\ current' = current /\ scope' = scope /\ saved' = saved /\ inBatch' = inBatch
      /\ aborted' = aborted /\ txOpen' = txOpen /\ writes' = writes /\ staged' = staged
      /\ succeeded' = succeeded /\ failure' = failure
      /\ acks' = acks /\ published' = published /\ db' = db /\ stray' = stray
  BY DEF Settle, chanVars, downVars, jobVars, txVars
<1>2. Queued' = Queued /\ Running' = Running /\ current = NoJob
  BY <1>1 DEF Queued, Running, ControlInv
<1>3. CASE outcomes = <<>>
  <2>1. wpc' = "recv" /\ outcomes' = outcomes /\ caller' = caller
    BY <1>3 DEF Settle
  <2>2. TypeOK'
    BY <1>1, <2>1 DEF TypeOK, WriterStates
  <2>3. ControlInv'
    BY <1>1, <1>3, <2>1 DEF ControlInv
  <2>4. PlaceInv'
    BY <1>1, <1>2, <2>1 DEF PlaceInv
  <2>5. DataInv'
    <3>1. Committed' = Committed
      BY <1>1, <1>3, <2>1, EmptySeq DEF Committed
    <3>2. ~BatchOpenTx' /\ \A j \in Jobs : Doomed(j) => Doomed(j)'
      BY <1>1, <1>3, <2>1, EmptySeq DEF BatchOpenTx, Doomed
    <3> QED
      BY <1>1, <1>2, <2>1, <3>1, <3>2 DEF DataInv, OnlyBareRowsStray
  <2> QED
    BY <2>2, <2>3, <2>4, <2>5
<1>4. CASE outcomes # <<>>
  <2> DEFINE h == Head(outcomes)
             told == IF h \in succeeded /\ ~failure THEN "ok" ELSE "err"
  <2>1. /\ wpc' = wpc /\ outcomes' = Tail(outcomes)
        /\ caller' = [caller EXCEPT ![h] = told]
    BY <1>4 DEF Settle, Reply, SettlesOk
  <2>2. /\ h \in Jobs /\ outcomes' \in Seq(Jobs)
        /\ Range(outcomes) = {h} \cup Range(outcomes')
        /\ IsInjective(outcomes') /\ h \notin Range(outcomes')
    BY <1>4, <2>1, TailSeq DEF TypeOK, PlaceInv
  <2> HIDE DEF h
  <2>3. caller[h] = "waiting" /\ h \notin Queued \cup Range(batch)
    BY <2>2 DEF PlaceInv
  <2>4. /\ \A j \in Jobs : j # h => caller'[j] = caller[j]
        /\ caller'[h] = told
    BY <2>1, <2>2 DEF TypeOK
  <2>5. TypeOK'
    BY <1>1, <2>1, <2>2 DEF TypeOK, CallerStates
  <2>6. ControlInv'
    BY <1>1, <2>1 DEF ControlInv
  <2>7. PlaceInv'
    <3>1. \A j \in Jobs : caller'[j] = "waiting" <=> j \in Queued' \cup Range(batch') \cup Running' \cup Range(outcomes')
      <4> SUFFICES ASSUME NEW j \in Jobs
                   PROVE caller'[j] = "waiting" <=> j \in Queued \cup Range(batch) \cup Running \cup Range(outcomes')
        BY <1>1, <1>2
      <4>1. CASE j = h
        <5>1. h \notin Running
          BY <1>2, <2>2, NoJobAssumption DEF Running
        <5> QED
          BY <2>2, <2>3, <2>4, <4>1, <5>1
      <4>2. CASE j # h
        BY <2>2, <2>4, <4>2 DEF PlaceInv
      <4> QED
        BY <4>1, <4>2
    <3>2. Range(outcomes') \subseteq Jobs /\ Range(batch') \subseteq Jobs
      BY <1>1, <2>2 DEF TypeOK, Range
    <3> QED
      BY <1>1, <1>2, <2>1, <2>2, <3>1, <3>2 DEF PlaceInv, Queued, Running
  <2>8. DataInv'
    <3>1. \A j \in Jobs : j \in Committed' <=> j \in Committed
      <4> SUFFICES ASSUME NEW j \in Jobs PROVE j \in Committed' <=> j \in Committed
        OBVIOUS
      <4>1. CASE j = h
        BY <1>1, <2>1, <2>2, <2>3, <2>4, <4>1 DEF Committed
      <4>2. CASE j # h
        BY <1>1, <2>1, <2>2, <2>4, <4>2 DEF Committed
      <4> QED
        BY <4>1, <4>2
    <3>2. \A j \in Jobs : caller'[j] \in {"idle", "sending"} => caller[j] \in {"idle", "sending"}
      BY <2>2, <2>4
    <3>3. \A j \in Committed' : j \in Jobs /\ j \in Committed
      BY <3>1 DEF Committed
    <3>4. \A j \in Committed' : returned'[j] \ Bare \subseteq published'
      BY <1>1, <3>3 DEF DataInv
    <3>5. \A j \in Jobs : caller'[j] = "ok" => returned'[j] \ Bare \subseteq published'
      BY <3>4 DEF Committed
    <3>6. ASSUME NEW j \in Jobs, Doomed(j) PROVE Doomed(j)'
      <4>1. CASE j = h
        <5>1. ~(h \in succeeded /\ ~failure)
          BY <1>1, <1>2, <2>2, <2>3, <3>6, <4>1, NoJobAssumption DEF Doomed
        <5> QED
          BY <2>4, <4>1, <5>1 DEF Doomed
      <4>2. CASE j # h
        BY <1>1, <2>1, <2>2, <2>4, <3>6, <4>2 DEF Doomed
      <4> QED
        BY <4>1, <4>2
    <3>7. ~BatchOpenTx'
      BY <1>1, <2>1 DEF BatchOpenTx
    <3> QED
      BY <1>1, <1>2, <2>1, <3>1, <3>2, <3>4, <3>5, <3>6, <3>7 DEF DataInv, OnlyBareRowsStray
  <2> QED
    BY <2>5, <2>6, <2>7, <2>8
<1> QED
  BY <1>3, <1>4

LEMMA StutterInv ==
  ASSUME WriterInv, UNCHANGED vars
  PROVE  WriterInv'
<1> USE DEF WriterInv, vars
<1>1. TypeOK' /\ ControlInv'
  BY DEF TypeOK, ControlInv
<1>2. PlaceInv'
  BY DEF PlaceInv, Queued, Running
<1>3. DataInv'
  BY DEF DataInv, Queued, InTransaction, Committed, BatchOpenTx, Doomed, OnlyBareRowsStray
<1> QED
  BY <1>1, <1>2, <1>3

LEMMA NextInv == WriterInv /\ [Next]_vars => WriterInv'
  BY CallInv, SendInv, WriteDetachedInv, AbandonInv, ShutdownInv, ReceiveInv, EndCollectInv,
     EndLoopInv, AcknowledgeInv, BeginInv, RefuseInv, SkipJobInv, StartJobInv, ScopeInv,
     BareWriteInv, EndJobInv, EndBatchInv, CommitInv, FlushInv, SettleInv, StutterInv
     DEF Next, Writer, RunJob, Finished
-----------------------------------------------------------------------------
(* The theorems.                                                            *)

\* WriterInv is an inductive invariant of the writer and its callers.
THEOREM Invariance == Spec => []WriterInv
  BY InitInv, NextInv, PTL DEF Spec

\* The channel never exceeds its capacity nor a batch its size, and every
\* variable keeps its type.
THEOREM TypeCorrect == Spec => []TypeOK
<1>1. WriterInv => TypeOK
  BY DEF WriterInv
<1> QED
  BY <1>1, Invariance, PTL

\* A caller told ok finds the rows its job reported in the database.
THEOREM AcknowledgedWritesAreDurable == Spec => []OkIsDurable
<1>1. WriterInv => OkIsDurable
  BY DEF WriterInv, DataInv, OkIsDurable, Committed
<1> QED
  BY <1>1, Invariance, PTL

\* A caller told of a failure finds no row of its job in the database that
\* has not strayed.
THEOREM FailedWritesLeaveNothing == Spec => []ErrLeavesNothing
<1>1. WriterInv => ErrLeavesNothing
  <2> SUFFICES ASSUME WriterInv, NEW j \in Jobs, Failed(j)
               PROVE  Rows(j) \cap db \subseteq stray
    BY DEF ErrLeavesNothing
  <2>1. j \notin Committed
    BY DEF WriterInv, PlaceInv, Committed, Failed
  <2> QED
    BY <2>1 DEF WriterInv, DataInv
<1> QED
  BY <1>1, Invariance, PTL

\* Subscribers hear only of rows that are in the database.
THEOREM AnnouncedRowsAreDurable == Spec => []PublishedIsDurable
<1>1. WriterInv => PublishedIsDurable
  BY DEF WriterInv, DataInv, PublishedIsDurable
<1> QED
  BY <1>1, Invariance, PTL

\* A caller told ok has been preceded by the announcement of its rows.
THEOREM AnnouncedBeforeAnswered == Spec => []OkIsPublished
<1>1. WriterInv => OkIsPublished
  BY DEF WriterInv, DataInv, OkIsPublished
<1> QED
  BY <1>1, Invariance, PTL

\* Rows stray only when a savepoint statement fails or a bare statement runs
\* after SQLite's own rollback: a failed job that writes all its rows in
\* scopes leaves none, for as long as the savepoint statements work.
THEOREM ScopedWritesLeaveNothing ==
  ASSUME ~SavepointsMayFail
  PROVE  Spec => [](\A j \in Jobs : Failed(j) => Rows(j) \cap db \subseteq Bare)
<1>1. WriterInv => OnlyBareRowsStray
  BY DEF WriterInv, DataInv
<1>2. OnlyBareRowsStray /\ ErrLeavesNothing => \A j \in Jobs : Failed(j) => Rows(j) \cap db \subseteq Bare
  BY DEF OnlyBareRowsStray, ErrLeavesNothing
<1> QED
  BY <1>1, <1>2, Invariance, FailedWritesLeaveNothing, PTL

\* What write answers is what the database holds, for any batch, queue and failure.
THEOREM TruthfulAnswers == Spec => []AnswersAreTrue
<1>1. OkIsDurable /\ ErrLeavesNothing => AnswersAreTrue
  BY DEF AnswersAreTrue
<1> QED
  BY <1>1, AcknowledgedWritesAreDurable, FailedWritesLeaveNothing, PTL

\* Live events are those of the committed writes, and precede the answers.
THEOREM EventsAndCommits == Spec => []EventsFollowCommits
<1>1. PublishedIsDurable /\ OkIsPublished => EventsFollowCommits
  BY DEF EventsFollowCommits
<1> QED
  BY <1>1, AnnouncedRowsAreDurable, AnnouncedBeforeAnswered, PTL

\* When shutdown is acknowledged no accepted write is left unanswered.
THEOREM ShutdownDrains == Spec => []AckMeansDrained
<1>1. WriterInv => AckMeansDrained
  <2> SUFFICES ASSUME WriterInv, NEW c \in Closers, down[c] = "acked"
               PROVE  queue = <<>> /\ \A j \in Jobs : caller[j] # "waiting"
    BY DEF AckMeansDrained
  <2>1. wpc \in {"acks", "exited"}
    BY DEF WriterInv, PlaceInv
  <2>2. queue = <<>> /\ batch = <<>> /\ outcomes = <<>> /\ current = NoJob
    BY <2>1 DEF WriterInv, ControlInv
  <2> QED
    BY <2>2, EmptySeq, NoJobAssumption DEF WriterInv, PlaceInv, Queued, Running
<1> QED
  BY <1>1, Invariance, PTL
-----------------------------------------------------------------------------
(* The writer implements DurableWrites.                                     *)

\* The abstract view is unchanged when nothing a caller can see changes.
LEMMA InvisibleStep ==
  ASSUME db' = db, stray' = stray, published' = published, caller' = caller,
         \A j \in Jobs : caller[j] = "ok" => returned'[j] = returned[j]
  PROVE  UNCHANGED Promise!vars
<1>1. Verdict' = Verdict
  BY DEF Verdict, Failed
<1>2. Reported' = Reported
  BY DEF Reported
<1> QED
  BY <1>1, <1>2 DEF Promise!vars

LEMMA SameRows ==
  /\ \A j : Promise!RowsOf(j) = Rows(j)
  /\ \A j : Promise!Kept(j) = (db \ stray) \cap Rows(j)
  BY DEF Promise!RowsOf, Promise!Kept, Rows

\* A failing answer to a job that is not committed.
LEMMA ErrStep ==
  ASSUME WriterInv, NEW j \in Jobs, caller[j] \in {"idle", "sending", "waiting"},
         j \notin Committed, NEW told \in {"err", "stopped", "dropped"},
         caller' = [caller EXCEPT ![j] = told], db' = db, stray' = stray, published' = published,
         \A k \in Jobs : caller[k] = "ok" => returned'[k] = returned[k]
  PROVE  Promise!AnswerErr(j)
<1>1. Verdict[j] = "open" /\ Verdict' = [Verdict EXCEPT ![j] = "err"]
  BY DEF Verdict, Failed, WriterInv, TypeOK
<1>2. Reported' = Reported
  BY DEF Reported, WriterInv, TypeOK
<1>3. (db \ stray) \cap Rows(j) = {}
  BY DEF WriterInv, DataInv
<1> QED
  BY <1>1, <1>2, <1>3, SameRows DEF Promise!AnswerErr

LEMMA SettleStep ==
  ASSUME WriterInv, Settle, outcomes # <<>>
  PROVE  Promise!Next
<1> DEFINE h == Head(outcomes)
<1>1. /\ wpc = "settle" /\ returned' = returned /\ published' = published /\ db' = db /\ stray' = stray
      /\ caller' = [caller EXCEPT ![h] = IF h \in succeeded /\ ~failure THEN "ok" ELSE "err"]
  BY DEF Settle, Reply, SettlesOk
<1>2. h \in Jobs /\ h \in Range(outcomes) /\ caller[h] = "waiting"
  <2>1. outcomes \in Seq(Jobs)
    BY DEF WriterInv, TypeOK
  <2>2. h \in Jobs /\ h \in Range(outcomes)
    BY <2>1, TailSeq
  <2> QED
    BY <2>2 DEF WriterInv, PlaceInv
<1> HIDE DEF h
<1>3. CASE h \in succeeded /\ ~failure
  <2>1. h \in Committed
    BY <1>1, <1>2, <1>3 DEF Committed
  <2>2. Verdict[h] = "open" /\ Verdict' = [Verdict EXCEPT ![h] = "ok"]
    BY <1>1, <1>2, <1>3 DEF Verdict, Failed, WriterInv, TypeOK
  <2>3. Reported' = [Reported EXCEPT ![h] = returned[h]]
    BY <1>1, <1>2, <1>3 DEF Reported, WriterInv, TypeOK
  <2>4. (db \ stray) \cap Rows(h) = returned[h] /\ returned[h] \ Bare \subseteq published
    BY <1>1, <1>2, <2>1 DEF WriterInv, DataInv
  <2>6. Rows(h) \cap stray = {}
    <3>1. current = NoJob
      BY <1>1 DEF WriterInv, ControlInv
    <3> QED
      BY <1>1, <1>2, <1>3, <3>1 DEF WriterInv, DataInv, Doomed
  <2>5. Promise!AnswerOk(h)
    BY <1>1, <2>2, <2>3, <2>4, <2>6, SameRows DEF Promise!AnswerOk
  <2> QED
    BY <1>2, <2>5 DEF Promise!Next
<1>4. CASE ~(h \in succeeded /\ ~failure)
  <2>1. h \notin Committed
    BY <1>2, <1>4 DEF Committed
  <2>2. Promise!AnswerErr(h)
    BY <1>1, <1>2, <1>4, <2>1, ErrStep
  <2> QED
    BY <1>2, <2>2 DEF Promise!Next
<1> QED
  BY <1>3, <1>4

LEMMA CommitStep ==
  ASSUME WriterInv, Commit, wpc' = "flush"
  PROVE  Promise!Commit
<1>1. /\ wpc = "commit" /\ ~aborted /\ txOpen /\ db' = db \cup writes
      /\ caller' = caller /\ returned' = returned /\ published' = published /\ current = NoJob
      /\ stray' = stray
  BY DEF Commit, WriterInv, ControlInv
<1>2. Verdict' = Verdict /\ Reported' = Reported
  BY <1>1 DEF Verdict, Failed, Reported
<1>3. db' \subseteq AllRows
  BY <1>1 DEF WriterInv, TypeOK
<1>4. ASSUME NEW j \in Jobs, (db' \ stray) \cap Rows(j) # (db \ stray) \cap Rows(j)
      PROVE  Verdict[j] = "open" /\ (db \ stray) \cap Rows(j) = {}
  <2>1. (writes \ stray) \cap Rows(j) # {}
    BY <1>1, <1>4
  <2>2. j \in Range(outcomes)
    BY <1>1, <2>1, NoJobAssumption DEF WriterInv, DataInv, BatchOpenTx, InTransaction
  <2>3. caller[j] = "waiting" /\ j \notin Committed
    BY <1>1, <2>2 DEF WriterInv, PlaceInv, Committed
  <2> QED
    BY <2>3 DEF WriterInv, DataInv, Verdict, Failed
<1>5. \A j : Promise!Kept(j)' = (db' \ stray') \cap Rows(j)
  BY DEF Promise!Kept, Promise!RowsOf, Rows
<1> QED
  BY <1>1, <1>2, <1>3, <1>4, <1>5, SameRows DEF Promise!Commit, AllRows

\* A step that makes rows of the running job stray.
LEMMA EscapeStep ==
  ASSUME WriterInv, wpc = "job", NEW gone \in SUBSET Rows(current), stray' = stray \cup gone,
         db' \in {db, db \cup gone},
         \/ caller' = caller
         \/ caller' = [caller EXCEPT ![current] = "err"],
         published' = published, \A j \in Jobs : caller[j] = "ok" => returned'[j] = returned[j]
  PROVE  Promise!Next
<1>1. current \in Jobs /\ caller[current] = "waiting" /\ current \notin Committed
  BY CurrentAlone
<1>2. Verdict[current] = "open" /\ Verdict' \in {Verdict, [Verdict EXCEPT ![current] = "err"]}
  <2>1. CASE caller' = caller
    BY <1>1, <2>1 DEF Verdict, Failed
  <2>2. CASE caller' = [caller EXCEPT ![current] = "err"]
    BY <1>1, <2>2 DEF Verdict, Failed, WriterInv, TypeOK
  <2> QED
    BY <2>1, <2>2
<1>3. Reported' = Reported
  BY <1>1 DEF Reported, WriterInv, TypeOK
<1>4. (db \ stray) \cap Rows(current) = {}
  BY <1>1 DEF WriterInv, DataInv
<1>5. Promise!Escape(current)
  BY <1>2, <1>3, <1>4, SameRows DEF Promise!Escape
<1> QED
  BY <1>1, <1>5 DEF Promise!Next

LEMMA StepImplements ==
  ASSUME WriterInv, [Next]_vars
  PROVE  [Promise!Next]_(Promise!vars)
<1> USE DEF chanVars, downVars, jobVars, txVars
<1>1. ASSUME NEW j \in Jobs, Call(j) PROVE UNCHANGED Promise!vars
  <2>1. Verdict' = Verdict /\ Reported' = Reported
    BY <1>1 DEF Call, Verdict, Failed, Reported, WriterInv, TypeOK
  <2> QED
    BY <1>1, <2>1 DEF Call, Promise!vars
<1>2. ASSUME NEW j \in Jobs, Send(j) PROVE [Promise!Next]_(Promise!vars)
  <2>1. CASE closed
    <3>1. j \notin Committed
      BY <1>2 DEF Send, Committed, WriterInv, PlaceInv
    <3>2. Promise!AnswerErr(j)
      BY <1>2, <2>1, <3>1, ErrStep DEF Send
    <3> QED
      BY <3>2 DEF Promise!Next
  <2>2. CASE ~closed
    <3>1. Verdict' = Verdict /\ Reported' = Reported
      BY <1>2, <2>2 DEF Send, Verdict, Failed, Reported, WriterInv, TypeOK
    <3> QED
      BY <1>2, <3>1 DEF Send, Promise!vars
  <2> QED
    BY <2>1, <2>2
<1>3. ASSUME NEW j \in Jobs, WriteDetached(j) PROVE [Promise!Next]_(Promise!vars)
  <2>1. CASE closed \/ ~HasRoom
    <3>1. j \notin Committed
      BY <1>3 DEF WriteDetached, Committed, WriterInv, PlaceInv
    <3>2. Promise!AnswerErr(j)
      BY <1>3, <2>1, <3>1, ErrStep DEF WriteDetached
    <3> QED
      BY <3>2 DEF Promise!Next
  <2>2. CASE ~(closed \/ ~HasRoom)
    <3>1. Verdict' = Verdict /\ Reported' = Reported
      BY <1>3, <2>2 DEF WriteDetached, Verdict, Failed, Reported, WriterInv, TypeOK
    <3> QED
      BY <1>3, <3>1 DEF WriteDetached, Promise!vars
  <2> QED
    BY <2>1, <2>2
<1>4. ASSUME NEW j \in Jobs, Abandon(j) PROVE [Promise!Next]_(Promise!vars)
  <2>1. j \notin Committed
    BY <1>4 DEF Abandon, Committed, WriterInv, PlaceInv
  <2>2. Promise!AnswerErr(j)
    BY <1>4, <2>1, ErrStep DEF Abandon
  <2> QED
    BY <2>2 DEF Promise!Next
<1>5. ASSUME NEW c \in Closers, Shutdown(c) PROVE UNCHANGED Promise!vars
  BY <1>5, InvisibleStep DEF Shutdown
<1>6. Receive \/ EndCollect \/ EndLoop \/ Acknowledge \/ Begin \/ SkipJob \/ StartJob \/ EndBatch
        => UNCHANGED Promise!vars
  BY InvisibleStep DEF Receive, EndCollect, EndLoop, Acknowledge, Begin, SkipJob, StartJob, EndBatch
<1>7. Refuse => [Promise!Next]_(Promise!vars)
  <2> SUFFICES ASSUME Refuse PROVE [Promise!Next]_(Promise!vars)
    OBVIOUS
  <2>1. CASE batch = <<>>
    BY <2>1, InvisibleStep DEF Refuse
  <2>2. CASE batch # <<>>
    <3>1. Head(batch) \in Jobs /\ Head(batch) \in Range(batch)
      <4>1. batch \in Seq(Jobs)
        BY DEF WriterInv, TypeOK
      <4> QED
        BY <2>2, <4>1, TailSeq
    <3>2. caller[Head(batch)] = "waiting" /\ Head(batch) \notin Committed
      BY <3>1 DEF Refuse, WriterInv, PlaceInv, Committed
    <3>3. Promise!AnswerErr(Head(batch))
      BY <2>2, <3>1, <3>2, ErrStep DEF Refuse, Reply
    <3> QED
      BY <3>1, <3>3 DEF Promise!Next
  <2> QED
    BY <2>1, <2>2
<1>8. Scope => UNCHANGED Promise!vars
  <2> SUFFICES ASSUME Scope PROVE UNCHANGED Promise!vars
    OBVIOUS
  <2>1. current \in Jobs /\ caller[current] = "waiting" /\ inBatch
    BY CurrentAlone DEF Scope, WriterInv, ControlInv
  <2>2. db' = db /\ stray' = stray /\ published' = published /\ caller' = caller
    BY <2>1 DEF Scope, ScopeAllowed, Publish
  <2>3. \A j \in Jobs : caller[j] = "ok" => returned'[j] = returned[j]
    BY <2>1 DEF Scope, Wrote, WriterInv, TypeOK
  <2> QED
    BY <2>2, <2>3, InvisibleStep
<1>14. BareWrite => [Promise!Next]_(Promise!vars)
  <2> SUFFICES ASSUME BareWrite PROVE [Promise!Next]_(Promise!vars)
    OBVIOUS
  <2>1. wpc = "job" /\ current \in Jobs /\ caller[current] = "waiting" /\ NextRow \in Rows(current)
    BY CurrentAlone, BoundsAssumption DEF BareWrite, WriterInv, TypeOK, NextRow, Rows
  <2>2. \A j \in Jobs : caller[j] = "ok" => returned'[j] = returned[j]
    BY <2>1 DEF BareWrite, Wrote, WriterInv, TypeOK
  <2>3. published' = published /\ caller' = caller
    BY DEF BareWrite
  <2>4. CASE db' = db /\ stray' = stray
    BY <2>2, <2>3, <2>4, InvisibleStep
  <2>5. CASE db' = db \cup {NextRow} /\ stray' = stray \cup {NextRow}
    BY <2>1, <2>2, <2>3, <2>5, EscapeStep
  <2> QED
    BY <2>4, <2>5 DEF BareWrite
<1>9. ASSUME NEW r \in {"ok", "err", "panic"}, EndJob(r) PROVE [Promise!Next]_(Promise!vars)
  <2>1. /\ wpc = "job" /\ current \in Jobs /\ caller[current] = "waiting" /\ current \notin Committed
        /\ (txOpen => Rows(current) \cap stray = {})
    BY <1>9, CurrentAlone DEF EndJob
  <2>2. \A j \in Jobs : caller[j] = "ok" => returned'[j] = returned[j]
    BY <1>9, <2>1 DEF EndJob, WriterInv, TypeOK
  <2>3. /\ published' = published
        /\ r # "panic" => caller' = caller
        /\ r = "panic" => caller' = [caller EXCEPT ![current] = "err"]
    BY <1>9 DEF EndJob, Reply
  <2>4. CASE db' = db /\ stray' = stray
    <3>1. CASE r = "panic"
      <4>1. Promise!AnswerErr(current)
        BY <2>1, <2>2, <2>3, <2>4, <3>1, ErrStep
      <4> QED
        BY <2>1, <4>1 DEF Promise!Next
    <3>2. CASE r # "panic"
      BY <2>2, <2>3, <2>4, <3>2, InvisibleStep
    <3> QED
      BY <3>1, <3>2
  <2>5. CASE txOpen /\ writes \subseteq Rows(current) /\ db' = db \cup writes /\ stray' = stray \cup writes
    BY <2>1, <2>2, <2>3, <2>5, EscapeStep
  <2>6. CASE db' = db /\ stray' = stray \cup (writes \cap Rows(current))
    BY <2>1, <2>2, <2>3, <2>6, EscapeStep
  <2> QED
    BY <1>9, <2>4, <2>5, <2>6, SavepointEnds
<1>10. Commit => [Promise!Next]_(Promise!vars)
  <2>1. Commit /\ wpc' = "flush" => Promise!Next
    BY CommitStep DEF Promise!Next
  <2>2. Commit /\ wpc' # "flush" => UNCHANGED Promise!vars
    BY InvisibleStep DEF Commit
  <2> QED
    BY <2>1, <2>2
<1>11. Flush => [Promise!Next]_(Promise!vars)
  <2> SUFFICES ASSUME Flush PROVE Promise!Announce
    BY DEF Promise!Next
  <2>1. published' = published \cup Range(staged) /\ published' \subseteq db /\ db' = db
    BY DEF Flush, WriterInv, DataInv
  <2>2. Verdict' = Verdict /\ Reported' = Reported
    BY DEF Flush, Verdict, Failed, Reported
  <2> QED
    BY <2>1, <2>2 DEF Flush, Promise!Announce
<1>12. Settle => [Promise!Next]_(Promise!vars)
  <2>1. Settle /\ outcomes # <<>> => Promise!Next
    BY SettleStep
  <2>2. Settle /\ outcomes = <<>> => UNCHANGED Promise!vars
    BY InvisibleStep DEF Settle
  <2> QED
    BY <2>1, <2>2
<1>13. UNCHANGED vars => UNCHANGED Promise!vars
  BY InvisibleStep DEF vars
<1> QED
  BY <1>1, <1>2, <1>3, <1>4, <1>5, <1>6, <1>7, <1>8, <1>9, <1>10, <1>11, <1>12, <1>13, <1>14
     DEF Next, Writer, RunJob, Finished

\* The group-commit writer implements the abstract promise DurableWrites:
\* whole jobs become durable while their callers wait, only durable rows are
\* announced, and every answer is truthful.
THEOREM Implementation == Spec => ImplementsPromise
<1>1. Init => Promise!Init
  BY DEF Init, Promise!Init, Verdict, Failed, Reported
<1>2. WriterInv /\ [Next]_vars => [Promise!Next]_(Promise!vars)
  BY StepImplements
<1> QED
  BY <1>1, <1>2, Invariance, PTL DEF Spec, ImplementsPromise, Promise!Spec
=============================================================================
