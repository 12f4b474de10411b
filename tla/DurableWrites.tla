--------------------------- MODULE DurableWrites ---------------------------
(***************************************************************************)
(* What the state layer promises the rest of the daemon, without threads,  *)
(* queues, batches or savepoints: a write either becomes durable as a      *)
(* whole and is answered ok, or leaves nothing behind and is answered with *)
(* an error.  Live subscribers are told of a row only once it is durable,  *)
(* and before the caller that wrote it is answered.  The promise has one   *)
(* hole, which it names: a row of a write that will be answered with an    *)
(* error may stray, and then it can be in the database all the same.       *)
(***************************************************************************)
CONSTANTS Jobs,     \* write jobs
          Scopes,   \* rows a job may write: <<job, k>> for k in Scopes
          Silent    \* rows that are not announced

VARIABLES durable,  \* rows committed to the database file
          stray,    \* rows that escaped the verdict of their job
          live,     \* rows announced on the event hub
          verdict,  \* what the caller of a job has been told
          reported  \* the rows an ok answer names

vars == <<durable, stray, live, verdict, reported>>

RowsOf(j) == {j} \X Scopes
Kept(j) == RowsOf(j) \cap (durable \ stray)

Init ==
  /\ durable = {} /\ stray = {} /\ live = {}
  /\ verdict = [j \in Jobs |-> "open"]
  /\ reported = [j \in Jobs |-> {}]

\* New rows appear in one step per job, and only while its caller waits;
\* only stray rows may appear later.
Commit ==
  /\ durable \subseteq durable' /\ durable' \subseteq Jobs \X Scopes
  /\ UNCHANGED <<stray, live, verdict, reported>>
  /\ \A j \in Jobs : Kept(j)' # Kept(j) => verdict[j] = "open" /\ Kept(j) = {}

\* Only durable rows are announced.
Announce ==
  /\ live \subseteq live' /\ live' \subseteq durable
  /\ UNCHANGED <<durable, stray, verdict, reported>>

\* ok names exactly the job's durable rows, all of them announced, none stray.
AnswerOk(j) ==
  /\ verdict[j] = "open"
  /\ verdict' = [verdict EXCEPT ![j] = "ok"]
  /\ reported' = [reported EXCEPT ![j] = Kept(j)]
  /\ RowsOf(j) \cap stray = {}
  /\ Kept(j) \ Silent \subseteq live
  /\ UNCHANGED <<durable, stray, live>>

\* An error is only reported for a job that left nothing but strays behind.
AnswerErr(j) ==
  /\ verdict[j] = "open"
  /\ Kept(j) = {}
  /\ verdict' = [verdict EXCEPT ![j] = "err"]
  /\ UNCHANGED <<durable, stray, live, reported>>

\* Rows of a job that has left nothing else behind stray while it is open,
\* some of them into the database at once; its failure may be known already.
Escape(j) ==
  /\ verdict[j] = "open" /\ Kept(j) = {}
  /\ stray \subseteq stray' /\ stray' \subseteq stray \cup RowsOf(j)
  /\ durable \subseteq durable' /\ durable' \subseteq durable \cup (RowsOf(j) \cap stray')
  /\ verdict' \in {verdict, [verdict EXCEPT ![j] = "err"]}
  /\ UNCHANGED <<live, reported>>

Next == \/ Commit \/ Announce
        \/ \E j \in Jobs : AnswerOk(j) \/ AnswerErr(j) \/ Escape(j)

Spec == Init /\ [][Next]_vars
=============================================================================
