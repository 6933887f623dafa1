--------------------------- MODULE EpochLogProofs ---------------------------
(* Theorems about EpochLog, for any set of transactions and any bounds.     *)
EXTENDS EpochLog, TLAPS

\* The epoch only grows, so no row is tagged past it.
TagsBounded == \A t \in Txns : tag[t] <= epoch_id

\* Only a committed transaction has a row, in the log or in the graph store.
RowsCommitted == log \cup ingested \subseteq Committed

TasksBounded == \A i \in DOMAIN tasks : tasks[i].epoch <= epoch_id

\* A SERIALIZABLE writer that is still open is not due for any pending task:
\* it would be a row the ingest has missed, and is doomed.
NoLateCommit ==
    \A i \in DOMAIN tasks : \A t \in Txns \ Autocommit :
        state[t] = "open" => ~Due(t, tasks[i].epoch, tasks[i].time)

\* What the clear of a pending task would delete has been ingested.
ClearsOnlyIngested ==
    \A i \in DOMAIN tasks : \A t \in log :
        Protected(t) /\ Due(t, tasks[i].epoch, tasks[i].time) => t \in ingested

\* What a snapshot shows is committed, and tagged no later than the snapshot.
SnapshotsOrdered ==
    \A u \in Txns : \A t \in before[u] : t \in Committed /\ tag[t] <= tag[u]

\* The inductive invariant behind NothingLost and ConsistentCut.
LogInv ==
    /\ TypeOK
    /\ TagsBounded
    /\ RowsCommitted
    /\ TasksBounded
    /\ NoLateCommit
    /\ ClearsOnlyIngested
    /\ SnapshotsOrdered
    /\ NothingLost
    /\ ConsistentCut

\* The state is well typed: the base of every other theorem about EpochLog.
THEOREM TypeCorrect == Spec => []TypeOK
<1>1. Init => TypeOK
  BY ConstantsOK DEF Init, TypeOK, Task
<1>2. TypeOK /\ [Next]_vars => TypeOK'
  <2> SUFFICES ASSUME TypeOK, [Next]_vars PROVE TypeOK'
    OBVIOUS
  <2> USE ConstantsOK DEF TypeOK, writerVars
  <2>1. ASSUME NEW t \in Txns, Begin(t) PROVE TypeOK'
    <3>1. due' \in [Txns -> Nat]
      BY <2>1 DEF Begin, DeleteTime
    <3>2. /\ state' \in [Txns -> {"idle", "open", "doomed", "committed", "aborted"}]
          /\ tag' \in [Txns -> Nat]
      BY <2>1 DEF Begin, DeleteTime
    <3>3. before' \in [Txns -> SUBSET Txns]
      BY <2>1 DEF Begin, DeleteTime, Committed
    <3>4. QED
      BY <2>1, <3>1, <3>2, <3>3 DEF Begin, DeleteTime
  <2>2. ASSUME NEW t \in Txns, Commit(t) PROVE TypeOK'
    BY <2>2 DEF Commit
  <2>3. ASSUME NEW t \in Txns, Abort(t) PROVE TypeOK'
    BY <2>3 DEF Abort
  <2>4. CASE Tick
    BY <2>4 DEF Tick
  <2>5. CASE IncEpoch
    BY <2>5 DEF IncEpoch
  <2>6. CASE IncEpochFails
    BY <2>6 DEF IncEpochFails
  <2>7. CASE Ingest
    <3> DEFINE rows == {t \in log : Due(t, epoch_id, cur_time)}
    <3>1. [rows |-> rows, epoch |-> epoch_id, time |-> cur_time] \in Task
      BY DEF Task
    <3>2. tasks' \in Seq(Task)
      BY <2>7, <3>1 DEF Ingest
    <3>3. QED
      BY <2>7, <3>2 DEF Ingest
  <2>8. CASE IngestFails
    BY <2>8 DEF IngestFails
  <2>9. CASE Clear
    <3>1. tasks' \in Seq(Task)
      BY <2>9 DEF Clear
    <3>2. QED
      BY <2>9, <3>1 DEF Clear, Cleared
  <2>10. CASE UNCHANGED vars
    BY <2>10 DEF vars
  <2>11. QED
    BY <2>1, <2>2, <2>3, <2>4, <2>5, <2>6, <2>7, <2>8, <2>9, <2>10
       DEF Next, Writer, Ingestor
<1>3. QED
  BY <1>1, <1>2, PTL DEF Spec

\* The fields of a pending task are numbers.
LEMMA TaskFields ==
  ASSUME TypeOK, NEW i \in DOMAIN tasks
  PROVE  tasks[i].epoch \in Int /\ tasks[i].time \in Int
<1>1. tasks \in Seq(Task) /\ i \in 1..Len(tasks)
  BY DEF TypeOK
<1>2. tasks[i] \in Task
  BY <1>1
<1>3. QED
  BY <1>2 DEF Task

\* Taking a snapshot keeps the invariant: the new tag is the current epoch, so
\* no pending task is due for it, and what the snapshot shows is tagged earlier.
LEMMA BeginKeepsInv ==
  ASSUME LogInv, TypeOK', NEW t \in Txns, Begin(t)
  PROVE  LogInv'
<1> USE DEF LogInv
<1>1. /\ state[t] = "idle" /\ state' = [state EXCEPT ![t] = "open"]
      /\ tag' = [tag EXCEPT ![t] = epoch_id]
      /\ before' = [before EXCEPT ![t] = Committed]
      /\ UNCHANGED <<epoch_id, late, log, ingested, tasks>>
  BY DEF Begin, DeleteTime
<1>2. t \notin Committed /\ Committed' = Committed
  BY <1>1 DEF Committed, TypeOK
<1>3. \A u \in Txns \ {t} : tag'[u] = tag[u] /\ before'[u] = before[u] /\ due'[u] = due[u]
  BY <1>1 DEF Begin, DeleteTime, TypeOK
<1>4. tag'[t] = epoch_id /\ before'[t] = Committed
  BY <1>1 DEF TypeOK
<1>5. TagsBounded' /\ RowsCommitted' /\ TasksBounded'
  BY <1>1, <1>2 DEF TagsBounded, RowsCommitted, TasksBounded, TypeOK
<1>6. NoLateCommit'
  <2> SUFFICES ASSUME NEW i \in DOMAIN tasks, NEW u \in Txns \ Autocommit,
                      state'[u] = "open"
               PROVE  ~Due(u, tasks[i].epoch, tasks[i].time)'
    BY <1>1 DEF NoLateCommit
  <2>1. tasks[i].epoch \in Int /\ tasks[i].epoch <= epoch_id /\ epoch_id \in Int
    <3>1. epoch_id \in Int
      BY DEF TypeOK
    <3>2. QED
      BY <3>1, TaskFields DEF TasksBounded
  <2>2. CASE u = t
    <3>1. tasks'[i] = tasks[i] /\ ~(tag'[u] < tasks'[i].epoch - 1)
      BY <2>1, <2>2, <1>1, <1>4
    <3>2. QED
      BY <3>1 DEF Due, AddDue, DeleteDue
  <2>3. CASE u # t
    BY <2>3, <1>1, <1>3 DEF NoLateCommit, Due, AddDue, DeleteDue, TypeOK
  <2>4. QED
    BY <2>2, <2>3
<1>7. ClearsOnlyIngested'
  <2> SUFFICES ASSUME NEW i \in DOMAIN tasks, NEW u \in log, Protected(u)',
                      Due(u, tasks[i].epoch, tasks[i].time)'
               PROVE  u \in ingested
    BY <1>1 DEF ClearsOnlyIngested
  <2>1. u \in Txns \ {t}
    BY <1>2 DEF RowsCommitted, Committed
  <2>2. QED
    BY <2>1, <1>1, <1>3 DEF ClearsOnlyIngested, Protected, Due, AddDue, DeleteDue
<1>8. SnapshotsOrdered'
  BY <1>1, <1>2, <1>3, <1>4 DEF SnapshotsOrdered, TagsBounded, Committed
<1>9. NothingLost'
  BY <1>1, <1>2 DEF NothingLost, Protected
<1>10. ConsistentCut'
  <2> SUFFICES ASSUME NEW u \in ingested, NEW v \in before'[u] \cap Adds, Protected(v)'
               PROVE  v \in ingested
    BY <1>1 DEF ConsistentCut
  <2>1. u \in Txns \ {t}
    BY <1>2 DEF RowsCommitted, Committed
  <2>2. QED
    BY <2>1, <1>1, <1>3 DEF ConsistentCut, Protected
<1>11. QED
  BY <1>5, <1>6, <1>7, <1>8, <1>9, <1>10

\* A commit adds a row that no pending task is due for: a SERIALIZABLE writer
\* would have been doomed, an autocommit one is late and not protected.
LEMMA CommitKeepsInv ==
  ASSUME LogInv, TypeOK', NEW t \in Txns, Commit(t)
  PROVE  LogInv'
<1> USE DEF LogInv
<1>1. /\ state[t] = "open" /\ state' = [state EXCEPT ![t] = "committed"]
      /\ log' = log \cup {t}
      /\ UNCHANGED <<epoch_id, tag, due, before, ingested, tasks>>
  BY DEF Commit
<1>2. t \notin Committed /\ Committed' = Committed \cup {t}
  BY <1>1 DEF Committed, TypeOK
<1>3. \A u \in Txns \ {t} : Protected(u)' <=> Protected(u)
  BY DEF Commit, Protected
<1>4. \A u \in Txns \ {t} : state'[u] = state[u]
  BY <1>1 DEF TypeOK
<1>5. TagsBounded' /\ RowsCommitted' /\ TasksBounded'
  BY <1>1, <1>2 DEF TagsBounded, RowsCommitted, TasksBounded
<1>6. NoLateCommit'
  BY <1>1, <1>4 DEF NoLateCommit, Due, AddDue, DeleteDue, TypeOK
<1>7. ClearsOnlyIngested'
  <2> SUFFICES ASSUME NEW i \in DOMAIN tasks, NEW u \in log \cup {t}, Protected(u)',
                      Due(u, tasks[i].epoch, tasks[i].time)
               PROVE  u \in ingested
    BY <1>1 DEF ClearsOnlyIngested, Due, AddDue, DeleteDue
  <2>1. tasks[i].epoch \in Int /\ tasks[i].epoch <= epoch_id /\ epoch_id \in Int
    <3>1. epoch_id \in Int
      BY DEF TypeOK
    <3>2. QED
      BY <3>1, TaskFields DEF TasksBounded
  <2>2. CASE u # t
    BY <2>2, <1>3 DEF ClearsOnlyIngested, RowsCommitted, Committed
  <2>3. CASE u = t /\ t \notin Autocommit
    BY <2>3, <1>1 DEF NoLateCommit
  <2>4. CASE u = t /\ t \in Autocommit
    <3>1. epoch_id <= tag[t] + 1
      BY <2>4 DEF Commit, Protected, TypeOK
    <3>2. ~(tag[t] < tasks[i].epoch - 1)
      BY <3>1, <2>1 DEF TypeOK
    <3>3. QED
      BY <3>2, <2>4 DEF Due, AddDue, DeleteDue
  <2>5. QED
    BY <2>2, <2>3, <2>4
<1>8. SnapshotsOrdered'
  BY <1>1, <1>2 DEF SnapshotsOrdered
<1>9. NothingLost'
  <2> SUFFICES ASSUME NEW u \in Committed, u # t, Protected(u)'
               PROVE  u \in log' \cup ingested
    BY <1>1, <1>2 DEF NothingLost
  <2>1. QED
    BY <1>1, <1>3 DEF NothingLost, Committed
<1>10. ConsistentCut'
  <2> SUFFICES ASSUME NEW u \in ingested, NEW v \in before[u] \cap Adds, Protected(v)'
               PROVE  v \in ingested
    BY <1>1 DEF ConsistentCut
  <2>1. u \in Txns /\ v \in Committed /\ v \in Txns \ {t}
    BY <1>2 DEF SnapshotsOrdered, RowsCommitted, Committed
  <2>2. QED
    BY <2>1, <1>3 DEF ConsistentCut
<1>11. QED
  BY <1>5, <1>6, <1>7, <1>8, <1>9, <1>10

\* An ingest reads every due row, so what a later clear of its task deletes has
\* been ingested, and dooms the writers it has missed.
LEMMA IngestKeepsInv ==
  ASSUME LogInv, TypeOK', Ingest
  PROVE  LogInv'
<1> USE DEF LogInv
<1> DEFINE rows == {t \in log : Due(t, epoch_id, cur_time)}
           missed == {t \in Txns \ Autocommit : state[t] = "open" /\ Due(t, epoch_id, cur_time)}
           task == [rows |-> rows, epoch |-> epoch_id, time |-> cur_time]
<1>1. /\ state' = [t \in Txns |-> IF t \in missed THEN "doomed" ELSE state[t]]
      /\ ingested' = ingested \cup rows
      /\ tasks' = IF rows = {} THEN tasks ELSE Append(tasks, task)
      /\ UNCHANGED <<epoch_id, cur_time, tag, due, before, late, log>>
  BY DEF Ingest
<1>2. Committed' = Committed
  BY <1>1 DEF Committed
<1>3. \A i \in DOMAIN tasks' :
        \/ i \in DOMAIN tasks /\ tasks'[i] = tasks[i]
        \/ tasks'[i] = task
  BY <1>1 DEF TypeOK
<1>4. task.epoch = epoch_id /\ task.time = cur_time
  OBVIOUS
<1>5. \A t \in Txns : Protected(t)' <=> Protected(t)
  BY <1>1 DEF Protected
<1>6. TagsBounded' /\ RowsCommitted'
  BY <1>1, <1>2 DEF TagsBounded, RowsCommitted
<1>7. TasksBounded'
  <2>1. epoch_id \in Int
    BY DEF TypeOK
  <2>2. \A i \in DOMAIN tasks' : tasks'[i].epoch <= epoch_id
    BY <2>1, <1>3, <1>4 DEF TasksBounded
  <2>3. QED
    BY <2>2, <1>1 DEF TasksBounded
<1>8. NoLateCommit'
  <2> SUFFICES ASSUME NEW i \in DOMAIN tasks', NEW t \in Txns \ Autocommit,
                      state'[t] = "open"
               PROVE  ~Due(t, tasks'[i].epoch, tasks'[i].time)
    BY <1>1 DEF NoLateCommit, Due, AddDue, DeleteDue
  <2>1. state[t] = "open" /\ t \notin missed
    BY <1>1
  <2>2. QED
    BY <2>1, <1>3, <1>4 DEF NoLateCommit
<1>9. ClearsOnlyIngested'
  <2> SUFFICES ASSUME NEW i \in DOMAIN tasks', NEW t \in log, Protected(t),
                      Due(t, tasks'[i].epoch, tasks'[i].time)
               PROVE  t \in ingested'
    BY <1>1, <1>5 DEF ClearsOnlyIngested, Due, AddDue, DeleteDue, TypeOK
  <2>1. QED
    BY <1>1, <1>3, <1>4 DEF ClearsOnlyIngested
<1>10. SnapshotsOrdered'
  BY <1>1, <1>2 DEF SnapshotsOrdered
<1>11. NothingLost'
  BY <1>1, <1>2, <1>5 DEF NothingLost, Committed
<1>12. ConsistentCut'
  <2> SUFFICES ASSUME NEW u \in ingested', NEW t \in before[u] \cap Adds, Protected(t)
               PROVE  t \in ingested'
    BY <1>1, <1>5 DEF ConsistentCut, RowsCommitted, Committed, TypeOK
  <2>1. CASE u \in ingested
    BY <2>1, <1>1 DEF ConsistentCut
  <2>2. CASE u \in rows
    <3>1. /\ u \in Txns /\ t \in Committed /\ tag[t] <= tag[u]
          /\ tag[u] \in Int /\ tag[t] \in Int /\ epoch_id \in Int
      BY <2>2 DEF SnapshotsOrdered, RowsCommitted, Committed, TypeOK
    <3>2. Due(t, epoch_id, cur_time)
      BY <2>2, <3>1 DEF Due, AddDue, DeleteDue
    <3>3. QED
      BY <1>1, <3>1, <3>2 DEF NothingLost
  <2>3. QED
    BY <1>1, <2>1, <2>2
<1>13. QED
  BY <1>6, <1>7, <1>8, <1>9, <1>10, <1>11, <1>12

\* Stage 1 deletes rows of the log, all of them ingested or unprotected.
LEMMA ClearKeepsInv ==
  ASSUME LogInv, TypeOK', Clear
  PROVE  LogInv'
<1> USE DEF LogInv
<1>1. /\ tasks # <<>> /\ tasks' = Tail(tasks)
      /\ log' = log \/ log' = log \ Cleared(Head(tasks))
      /\ UNCHANGED <<epoch_id, state, tag, due, before, late, ingested>>
  BY DEF Clear, writerVars
<1>2. \A i \in DOMAIN tasks' : i + 1 \in DOMAIN tasks /\ tasks'[i] = tasks[i + 1]
  BY <1>1 DEF TypeOK
<1>3. 1 \in DOMAIN tasks /\ Head(tasks) = tasks[1]
  BY <1>1 DEF TypeOK
<1>4. Committed' = Committed /\ \A t \in Txns : Protected(t)' <=> Protected(t)
  BY <1>1 DEF Committed, Protected
<1>5. log' \subseteq log
  BY <1>1
<1>6. TagsBounded' /\ RowsCommitted' /\ TasksBounded'
  BY <1>1, <1>2, <1>4, <1>5 DEF TagsBounded, RowsCommitted, TasksBounded
<1>7. NoLateCommit'
  BY <1>1, <1>2 DEF NoLateCommit, Due, AddDue, DeleteDue
<1>8. ClearsOnlyIngested'
  BY <1>1, <1>2, <1>4, <1>5 DEF ClearsOnlyIngested, Due, AddDue, DeleteDue, RowsCommitted, Committed
<1>9. SnapshotsOrdered'
  BY <1>1, <1>4 DEF SnapshotsOrdered
<1>10. NothingLost'
  <2> SUFFICES ASSUME NEW t \in Committed, Protected(t)
               PROVE  t \in log' \cup ingested
    BY <1>1, <1>4 DEF NothingLost, Committed
  <2>1. t \in log /\ t \notin log' => t \in ingested
    BY <1>1, <1>3 DEF Cleared, ClearsOnlyIngested
  <2>2. QED
    BY <2>1 DEF NothingLost
<1>11. ConsistentCut'
  BY <1>1, <1>4 DEF ConsistentCut, SnapshotsOrdered, RowsCommitted, Committed
<1>12. QED
  BY <1>6, <1>7, <1>8, <1>9, <1>10, <1>11

\* The remaining steps end a writer, move the clock, the epoch or the ingestor.
LEMMA OtherStepsKeepInv ==
  ASSUME LogInv, TypeOK',
         \/ \E t \in Txns : Abort(t)
         \/ Tick \/ IncEpoch \/ IncEpochFails \/ IngestFails
         \/ UNCHANGED vars
  PROVE  LogInv'
<1> USE DEF LogInv
<1>1. /\ UNCHANGED <<tag, due, before, late, log, ingested, tasks>>
      /\ epoch_id <= epoch_id'
  BY ConstantsOK DEF Abort, Tick, IncEpoch, IncEpochFails, IngestFails, vars, writerVars, TypeOK
<1>2. /\ \A t \in Txns : state'[t] = "open" => state[t] = "open"
      /\ Committed' = Committed
  BY DEF Abort, Tick, IncEpoch, IncEpochFails, IngestFails, vars, writerVars, TypeOK, Committed
<1>3. \A t \in Txns : Protected(t)' <=> Protected(t)
  BY <1>1 DEF Protected
<1>4. TagsBounded' /\ TasksBounded'
  <2>1. epoch_id \in Int /\ epoch_id' \in Int /\ \A t \in Txns : tag[t] \in Int
    BY DEF TypeOK
  <2>2. TagsBounded'
    BY <2>1, <1>1 DEF TagsBounded
  <2>3. TasksBounded'
    BY <2>1, <1>1, TaskFields DEF TasksBounded
  <2>4. QED
    BY <2>2, <2>3
<1>5. RowsCommitted' /\ NothingLost' /\ SnapshotsOrdered'
  BY <1>1, <1>2, <1>3 DEF RowsCommitted, NothingLost, SnapshotsOrdered, Committed
<1>6. NoLateCommit' /\ ClearsOnlyIngested'
  <2>1. NoLateCommit'
    BY <1>1, <1>2 DEF NoLateCommit, Due, AddDue, DeleteDue
  <2>2. ClearsOnlyIngested'
    BY <1>1, <1>3 DEF ClearsOnlyIngested, Due, AddDue, DeleteDue, RowsCommitted, Committed
  <2>3. QED
    BY <2>1, <2>2
<1>7. ConsistentCut'
  BY <1>1, <1>3 DEF ConsistentCut, SnapshotsOrdered, RowsCommitted, Committed
<1>8. QED
  BY <1>4, <1>5, <1>6, <1>7

LEMMA LogInvInductive == Spec => []LogInv
<1>1. Init => LogInv
  <2> SUFFICES ASSUME Init PROVE LogInv
    OBVIOUS
  <2>1. TypeOK
    BY ConstantsOK DEF Init, TypeOK, Task
  <2>2. QED
    BY <2>1 DEF Init, LogInv, TagsBounded, RowsCommitted, TasksBounded, NoLateCommit,
       ClearsOnlyIngested, SnapshotsOrdered, NothingLost, ConsistentCut, Committed
<1>2. LogInv /\ TypeOK' /\ [Next]_vars => LogInv'
  BY BeginKeepsInv, CommitKeepsInv, IngestKeepsInv, ClearKeepsInv, OtherStepsKeepInv
     DEF Next, Writer, Ingestor
<1>3. QED
  BY <1>1, <1>2, TypeCorrect, PTL DEF Spec

\* No protected row is deleted from the log before it is ingested.
THEOREM NothingIsLost == Spec => []NothingLost
BY LogInvInductive, PTL DEF LogInv

\* What has been ingested is always a consistent cut of the catalog's history.
THEOREM CutsAreConsistent == Spec => []ConsistentCut
BY LogInvInductive, PTL DEF LogInv
-----------------------------------------------------------------------------
\* With prompt clears at most one task is pending, its rows are still in the log
\* and its clear deletes them; a row that was applied has left the log.
QueueInv ==
    /\ Len(tasks) <= 1
    /\ \A i \in DOMAIN tasks : \A t \in tasks[i].rows :
         t \in log /\ Due(t, tasks[i].epoch, tasks[i].time)
    /\ \A t \in Txns : applied[t] > 0 => t \in Committed \ log
    /\ AppliedAtMostOnce

LEMMA WriterKeepsQueue ==
  ASSUME TypeOK, RowsCommitted, QueueInv, NEW t \in Txns, Writer(t)
  PROVE  QueueInv'
<1>1. /\ UNCHANGED <<applied, tasks>>
      /\ log' = log \/ (log' = log \cup {t} /\ t \notin Committed)
      /\ Committed \subseteq Committed'
  BY DEF Writer, Begin, DeleteTime, Commit, Abort, Committed, TypeOK
<1>2. \A u \in Committed : tag'[u] = tag[u] /\ due'[u] = due[u]
  BY DEF Writer, Begin, DeleteTime, Commit, Abort, Committed, TypeOK
<1>3. \A i \in DOMAIN tasks : \A u \in tasks[i].rows :
        u \in log' /\ Due(u, tasks[i].epoch, tasks[i].time)'
  BY <1>1, <1>2 DEF QueueInv, RowsCommitted, Due, AddDue, DeleteDue
<1>4. \A u \in Txns : applied[u] > 0 => u \in Committed' \ log'
  BY <1>1 DEF QueueInv
<1>5. QED
  BY <1>1, <1>3, <1>4 DEF QueueInv, AppliedAtMostOnce

LEMMA IngestKeepsQueue ==
  ASSUME TypeOK, QueueInv, PromptClear, Ingest
  PROVE  QueueInv'
<1> DEFINE rows == {t \in log : Due(t, epoch_id, cur_time)}
           task == [rows |-> rows, epoch |-> epoch_id, time |-> cur_time]
<1>1. /\ tasks = <<>>
      /\ tasks' = tasks \/ tasks' = Append(tasks, task)
      /\ UNCHANGED <<log, applied, tag, due>>
  BY DEF Ingest
<1>2. Committed' = Committed
  BY DEF Ingest, Committed
<1>3. Len(tasks') <= 1 /\ \A i \in DOMAIN tasks' : tasks'[i] = task
  <2>1. Append(<<>>, task) = <<task>>
    OBVIOUS
  <2>2. CASE tasks' = <<>>
    BY <2>2
  <2>3. CASE tasks' = <<task>>
    BY <2>3
  <2>4. QED
    BY <1>1, <2>1, <2>2, <2>3
<1>4. \A i \in DOMAIN tasks' : \A t \in tasks'[i].rows :
        t \in log' /\ Due(t, tasks'[i].epoch, tasks'[i].time)
  BY <1>1, <1>3
<1>5. \A i \in DOMAIN tasks' : \A t \in tasks'[i].rows :
        t \in log' /\ Due(t, tasks[i].epoch, tasks[i].time)'
  BY <1>1, <1>4 DEF Due, AddDue, DeleteDue
<1>6. QED
  BY <1>1, <1>2, <1>3, <1>5 DEF QueueInv, AppliedAtMostOnce

LEMMA ClearKeepsQueue ==
  ASSUME TypeOK, RowsCommitted, QueueInv, Clear
  PROVE  QueueInv'
<1> DEFINE task == Head(tasks)
<1>1. PICK outcome \in ClearOutcomes :
        /\ log' = IF outcome = "unsent" THEN log ELSE log \ Cleared(task)
        /\ applied' = [t \in Txns |-> IF outcome = "ok" /\ t \in task.rows
                                      THEN applied[t] + 1 ELSE applied[t]]
  BY DEF Clear
<1>2. /\ tasks # <<>> /\ tasks' = Tail(tasks)
      /\ UNCHANGED <<tag, due, state>>
  BY DEF Clear, writerVars
<1>3. Committed' = Committed
  BY <1>2 DEF Committed
<1>4. 1 \in DOMAIN tasks /\ task = tasks[1]
  BY <1>2 DEF TypeOK
<1>5. tasks' = <<>>
  BY <1>2 DEF QueueInv, TypeOK
<1>6. \A t \in task.rows : t \in log /\ t \in Cleared(task)
  BY <1>4 DEF QueueInv, Cleared
<1>7. ASSUME NEW t \in Txns
      PROVE  applied'[t] <= 1 /\ (applied'[t] > 0 => t \in Committed' \ log')
  <2>1. applied[t] \in Nat /\ applied[t] <= 1 /\ (applied[t] > 0 => t \in Committed \ log)
    BY DEF QueueInv, AppliedAtMostOnce, TypeOK
  <2>2. CASE outcome = "ok" /\ t \in task.rows
    <3>1. applied[t] = 0 /\ t \in Committed /\ t \notin log'
      BY <2>1, <2>2, <1>1, <1>6 DEF RowsCommitted
    <3>2. applied'[t] = 1
      BY <3>1, <2>2, <1>1
    <3>3. QED
      BY <3>1, <3>2, <1>3
  <2>3. CASE ~(outcome = "ok" /\ t \in task.rows)
    <3>1. applied'[t] = applied[t] /\ log' \subseteq log
      BY <2>3, <1>1
    <3>2. QED
      BY <3>1, <2>1, <1>3
  <2>4. QED
    BY <2>2, <2>3
<1>8. QED
  BY <1>5, <1>7 DEF QueueInv, AppliedAtMostOnce

\* When every ingest waits for the clear of the task before it, no row is ever
\* counted twice by the graph engine, whatever clears fail.
THEOREM RowsAreAppliedOnce == ASSUME PromptClear PROVE Spec => []AppliedAtMostOnce
<1>1. Init => QueueInv
  <2> SUFFICES ASSUME Init PROVE QueueInv
    OBVIOUS
  <2>1. tasks = <<>> /\ applied = [t \in Txns |-> 0]
    BY DEF Init
  <2>2. QED
    BY <2>1 DEF QueueInv, AppliedAtMostOnce
<1>2. TypeOK /\ RowsCommitted /\ QueueInv /\ [Next]_vars => QueueInv'
  <2> SUFFICES ASSUME TypeOK, RowsCommitted, QueueInv, [Next]_vars PROVE QueueInv'
    OBVIOUS
  <2>1. CASE \E t \in Txns : Writer(t)
    BY <2>1, WriterKeepsQueue
  <2>2. CASE Ingest
    BY <2>2, IngestKeepsQueue
  <2>3. CASE Clear
    BY <2>3, ClearKeepsQueue
  <2>4. CASE Tick \/ IncEpoch \/ IncEpochFails \/ IngestFails \/ UNCHANGED vars
    <3>1. UNCHANGED <<applied, tasks, log, state, tag, due>>
      BY <2>4 DEF Tick, IncEpoch, IncEpochFails, IngestFails, vars, writerVars
    <3>2. QED
      BY <3>1 DEF QueueInv, AppliedAtMostOnce, Committed, Due, AddDue, DeleteDue
  <2>5. QED
    BY <2>1, <2>2, <2>3, <2>4 DEF Next, Ingestor
<1>3. QueueInv => AppliedAtMostOnce
  BY DEF QueueInv
<1>4. LogInv => RowsCommitted
  BY DEF LogInv
<1>5. QED
  BY <1>1, <1>2, <1>3, <1>4, TypeCorrect, LogInvInductive, PTL DEF Spec
=============================================================================
