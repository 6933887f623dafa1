------------------------------ MODULE EpochLog ------------------------------
(***************************************************************************)
(* The edge log between the catalog and the garbage collector.             *)
(*                                                                         *)
(* A catalog transaction that adds or drops a reference writes a row to    *)
(* ercat.AddEdges or ercat.DeleteEdges, tagged with the epoch_id its       *)
(* snapshot shows.  The ingestor thread of the collector (ingestGC) bumps  *)
(* the epoch, then reads every row that is two epochs old (and, for a      *)
(* dropped reference, whose retention has run out) into a GCTask; stage 1  *)
(* of the pipeline (clearCatalogEdges) later deletes by the same predicate *)
(* what the task has read.  The log is the only way the collector learns   *)
(* of a reference, so a row must reach it once, and never before a row     *)
(* that its writer could already see.                                      *)
(*                                                                         *)
(* PostgreSQL is external: a SERIALIZABLE writer that the ingest's         *)
(* predicate read has missed is the pivot of the dangerous structure       *)
(* ingest -> writer -> epoch increment, and is doomed.  A writer that runs *)
(* as one autocommit statement (the expireSnapshots handlers) is READ      *)
(* COMMITTED and is not.                                                   *)
(***************************************************************************)
EXTENDS Integers, Sequences, FiniteSets

CONSTANTS
    Txns,           \* catalog transactions; each writes one row of the log
    Adds,           \* those that write to AddEdges, the others to DeleteEdges
    Autocommit,     \* those that run as one statement outside SERIALIZABLE
    Retentions,     \* the retention periods a dropped reference may have
    PromptClear,    \* TRUE: an ingest starts only when earlier tasks are cleared
    ClearOutcomes,  \* how clearCatalogEdges may end: see Clear
    LastBegin,      \* bound: the last epoch in which a transaction begins
    MaxEpoch,       \* bound: the epoch counter saturates here
    MaxTasks,       \* bound: the tasks that may wait for stage 1
    MaxTime         \* bound: the clock stops here, past every delete_time

Outcomes == {"ok", "unsent", "unacknowledged"}

ASSUME ConstantsOK ==
    /\ Adds \subseteq Txns
    /\ Autocommit \subseteq Txns
    /\ Retentions \subseteq Nat
    /\ PromptClear \in BOOLEAN
    /\ ClearOutcomes \subseteq Outcomes
    /\ LastBegin \in Nat /\ MaxEpoch \in Nat /\ MaxTime \in Nat
    /\ LastBegin + 2 <= MaxEpoch /\ MaxTasks \in Nat

VARIABLES
    epoch_id,   \* ercat.EpochId
    cur_time,   \* ercat.CurTime
    now,        \* the clock of the metadata store
    state,      \* state[t]: "idle", "open", "doomed", "committed" or "aborted"
    tag,        \* tag[t]: the epoch_id of t's row, read in t's snapshot
    due,        \* due[t]: delete_time of t's row
    before,     \* before[t]: the transactions committed in t's snapshot
    late,       \* transactions that committed two or more epochs after their tag
    log,        \* the transactions whose row is in AddEdges or DeleteEdges
    ingested,   \* the transactions whose row was written to the graph store
    applied,    \* applied[t]: how often t's row went on to the graph engine
    tasks,      \* tasks that are ingested and not cleared, oldest first
    pc          \* the ingestor: "inc" or "ingest"

writerVars == <<state, tag, due, before, late>>
vars == <<epoch_id, cur_time, now, writerVars, log, ingested, applied, tasks, pc>>

Task == [rows : SUBSET Txns, epoch : Int, time : Int]

TypeOK ==
    /\ epoch_id \in 1..MaxEpoch
    /\ cur_time \in Nat /\ now \in Nat
    /\ state \in [Txns -> {"idle", "open", "doomed", "committed", "aborted"}]
    /\ tag \in [Txns -> Nat]
    /\ due \in [Txns -> Nat]
    /\ before \in [Txns -> SUBSET Txns]
    /\ late \subseteq Txns
    /\ log \subseteq Txns
    /\ ingested \subseteq Txns
    /\ applied \in [Txns -> Nat]
    /\ tasks \in Seq(Task)
    /\ pc \in {"inc", "ingest"}

Committed == {t \in Txns : state[t] = "committed"}

Init ==
    /\ epoch_id = 1 /\ cur_time = 0 /\ now = 0
    /\ state = [t \in Txns |-> "idle"]
    /\ tag = [t \in Txns |-> 0]
    /\ due = [t \in Txns |-> 0]
    /\ before = [t \in Txns |-> {}]
    /\ late = {}
    /\ log = {}
    /\ ingested = {}
    /\ applied = [t \in Txns |-> 0]
    /\ tasks = <<>>
    /\ pc = "inc"

-----------------------------------------------------------------------------
(* The writers: translated DML of InsertRel, InsertRoot, DeleteRel and      *)
(* DeleteRoot, run by the catalog service.                                  *)

\* NOW() + INTERVAL retention
DeleteTimeBackwards(r) == now - r    \* mutant: the interval is subtracted
DeleteTime(r) == now + r

\* The snapshot is taken: the row will carry this epoch and NOW() + retention.
Begin(t) ==
    /\ state[t] = "idle"
    /\ epoch_id <= LastBegin
    /\ IF t \in Adds THEN due' = due
       ELSE \E r \in Retentions :
              now + r < MaxTime /\ due' = [due EXCEPT ![t] = DeleteTime(r)]
    /\ state' = [state EXCEPT ![t] = "open"]
    /\ tag' = [tag EXCEPT ![t] = epoch_id]
    /\ before' = [before EXCEPT ![t] = Committed]
    /\ UNCHANGED <<epoch_id, cur_time, now, late, log, ingested, applied, tasks, pc>>

Commit(t) ==
    /\ state[t] = "open"
    /\ state' = [state EXCEPT ![t] = "committed"]
    /\ late' = IF epoch_id > tag[t] + 1 THEN late \cup {t} ELSE late
    /\ log' = log \cup {t}
    /\ UNCHANGED <<epoch_id, cur_time, now, tag, due, before, ingested, applied, tasks, pc>>

\* The statement fails, or serialization fails.
Abort(t) ==
    /\ state[t] \in {"open", "doomed"}
    /\ state' = [state EXCEPT ![t] = "aborted"]
    /\ UNCHANGED <<epoch_id, cur_time, now, tag, due, before, late, log, ingested,
                   applied, tasks, pc>>

Tick ==
    /\ now < MaxTime
    /\ now' = now + 1
    /\ UNCHANGED <<epoch_id, cur_time, writerVars, log, ingested, applied, tasks, pc>>

-----------------------------------------------------------------------------
(* The collector.                                                           *)

\* WHERE a.epoch_id < e.epoch_id - 1
AddDueLate(t, epoch) == t \in Adds /\ tag[t] < epoch - 2    \* mutant: a longer delay
AddDue(t, epoch) == t \in Adds /\ tag[t] < epoch - 1

\* WHERE d.epoch_id < e.epoch_id - 1 AND d.delete_time < c.cur_time
DeleteDueEarly(t, epoch, time) ==    \* mutant: the comparison is reversed
    t \notin Adds /\ tag[t] < epoch - 1 /\ due[t] > time
DeleteDue(t, epoch, time) == t \notin Adds /\ tag[t] < epoch - 1 /\ due[t] < time

Due(t, epoch, time) == AddDue(t, epoch) \/ DeleteDue(t, epoch, time)

\* execPGCommand repeats the increment until it sees it acknowledged, so the
\* epoch may advance by more than one.
IncEpoch ==
    /\ pc = "inc"
    /\ \E k \in 1..2 :
         epoch_id' = IF epoch_id + k <= MaxEpoch THEN epoch_id + k ELSE MaxEpoch
    /\ cur_time' = now
    /\ pc' = "ingest"
    /\ UNCHANGED <<now, writerVars, log, ingested, applied, tasks>>

\* Five failed sends: ingestGC ignores the result and goes on.
IncEpochFails ==
    /\ pc = "inc"
    /\ pc' = "ingest"
    /\ UNCHANGED <<epoch_id, cur_time, now, writerVars, log, ingested, applied, tasks>>

\* One SERIALIZABLE transaction reads the due rows; updateGraphStore then makes
\* them durable before the task enters the pipeline.  An empty task is dropped.
Ingest ==
    LET rows == {t \in log : Due(t, epoch_id, cur_time)}
        missed == {t \in Txns \ Autocommit :
                     state[t] = "open" /\ Due(t, epoch_id, cur_time)}
    IN  /\ pc = "ingest"
        /\ PromptClear => tasks = <<>>
        /\ Len(tasks) < MaxTasks
        /\ state' = [t \in Txns |-> IF t \in missed THEN "doomed" ELSE state[t]]
        /\ ingested' = ingested \cup rows
        /\ tasks' = IF rows = {} THEN tasks
                    ELSE Append(tasks, [rows |-> rows, epoch |-> epoch_id, time |-> cur_time])
        /\ pc' = "inc"
        /\ UNCHANGED <<epoch_id, cur_time, now, tag, due, before, late, log, applied>>

IngestFails ==
    /\ pc = "ingest"
    /\ pc' = "inc"
    /\ UNCHANGED <<epoch_id, cur_time, now, writerVars, log, ingested, applied, tasks>>

\* What clearCatalogEdges deletes: the predicate of the ingest, with the epoch
\* and time the task carries, over the rows that are there by now.
ClearedNow(task) == {t \in log : Due(t, epoch_id, cur_time)}    \* mutant: not the task's
ClearedDrops(task) ==    \* mutant: AddEdges is forgotten
    {t \in log : DeleteDue(t, task.epoch, task.time)}
Cleared(task) == {t \in log : Due(t, task.epoch, task.time)}

\* Stage 1.  "ok": deleted, the task goes on; "unsent": nothing deleted and the
\* task is dropped (valid_ is false); "unacknowledged": the deletion commits but
\* the connection is lost for good, and the task is dropped.
Clear ==
    /\ tasks # <<>>
    /\ LET task == Head(tasks) IN
       \E outcome \in ClearOutcomes :
         /\ log' = IF outcome = "unsent" THEN log ELSE log \ Cleared(task)
         /\ applied' = [t \in Txns |-> IF outcome = "ok" /\ t \in task.rows
                                       THEN applied[t] + 1 ELSE applied[t]]
    /\ tasks' = Tail(tasks)
    /\ UNCHANGED <<epoch_id, cur_time, now, writerVars, ingested, pc>>

-----------------------------------------------------------------------------
Writer(t) == Begin(t) \/ Commit(t) \/ Abort(t)
Ingestor == IncEpoch \/ IncEpochFails \/ Ingest \/ IngestFails

Next == (\E t \in Txns : Writer(t)) \/ Tick \/ Ingestor \/ Clear

Spec == Init /\ [][Next]_vars

\* The ingestor loops for ever and the pool of stage 1 runs what is posted to it;
\* the metadata store answers again and again, stage 1 too; the clock advances.
ClearSucceeds == Clear /\ applied' # applied

Fairness ==
    /\ WF_vars(Ingestor) /\ SF_vars(IncEpoch) /\ SF_vars(Ingest)
    /\ WF_vars(Clear) /\ SF_vars(ClearSucceeds)
    /\ WF_vars(Tick)

FairSpec == Spec /\ Fairness

-----------------------------------------------------------------------------
(* Properties.                                                              *)

\* A writer the two-epoch delay protects: it is SERIALIZABLE, or its statement
\* ended before the second increment after its snapshot.
Protected(t) ==
    t \notin Autocommit \/ t \notin late

\* The row of a committed, protected writer is in the catalog's log until the
\* graph store has it: clearCatalogEdges (gcmanager.cpp:267), which deletes by
\* predicate and not by row, never deletes a row that no ingest has read.
NothingLost ==
    \A t \in Committed : Protected(t) => t \in log \cup ingested

\* The ingested rows are a consistent cut: when a row has reached the collector,
\* so has every added reference its writer could see.  A dropped reference can
\* then never overtake the reference that keeps the same object alive.
ConsistentCut ==
    \A u \in ingested : \A t \in before[u] \cap Adds : Protected(t) => t \in ingested

\* The graph engine counts a row at most once: the log is re-read by every
\* ingest, and only the deletion of stage 1 keeps a row out of the next task.
AppliedAtMostOnce == \A t \in Txns : applied[t] <= 1

\* Every protected row that is committed reaches the graph engine.
EventuallyApplied ==
    \A t \in Txns : (state[t] = "committed" /\ Protected(t)) ~> applied[t] > 0
=============================================================================
