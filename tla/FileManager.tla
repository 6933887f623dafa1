---------------------------- MODULE FileManager ----------------------------
(***************************************************************************)
(* Removal of files no version sees (filemanager.cpp).                     *)
(*                                                                         *)
(* The catalog keeps a row in AddFiles for every list a path was added to, *)
(* and a row in DeleteFiles for every list rcCommit took it from: a path   *)
(* with as many of one as of the other is garbage.  Each thread of a pool  *)
(* scans its partitions of the two tables and posts batches of garbage;    *)
(* executors remove the files of a batch from the disk or the object store *)
(* and then the rows of those that are gone.  Nothing marks a path that is *)
(* in a batch: scans go on meanwhile and find it again.                    *)
(***************************************************************************)
EXTENDS Integers, Sequences, FiniteSets

CONSTANTS
    Paths,          \* file paths
    Remote,         \* those in the object store (s3://)
    PartOf,         \* PartOf[p]: the partition the catalog hashes p to
    NumParts,       \* partitions are 0..NumParts - 1 (32)
    NumThreads,     \* num_ingestors; a thread is named by its myIngestorId
    Executors,      \* threads of file_task_executors_
    MaxAdds,        \* bound: MaxAdds[p] is how often p is added to a list
    MaxPosted,      \* bound: ingestion tasks that wait for a thread
    MaxQueue,       \* bound: batches that wait for an executor
    ReAdd,          \* TRUE: a path that is in no list may be added to one again
    HiddenErrors    \* TRUE: the object store may fail on a path a batch holds twice

Parts == 0..(NumParts - 1)
Threads == 0..(NumThreads - 1)

\* A vector of paths: those in it, and those more than once in it.
Batch == [has : SUBSET Paths, twice : SUBSET Paths]
Empty == [has |-> {}, twice |-> {}]
Plus(b, S) == [has |-> b.has \cup S, twice |-> b.twice \cup (b.has \cap S)]

ASSUME FileManagerOK ==
    /\ Remote \subseteq Paths
    /\ NumParts \in Nat \ {0} /\ NumThreads \in Nat \ {0}
    /\ PartOf \in [Paths -> Parts]
    /\ MaxAdds \in [Paths -> Nat] /\ MaxPosted \in Nat /\ MaxQueue \in Nat
    /\ ReAdd \in BOOLEAN /\ HiddenErrors \in BOOLEAN

VARIABLES
    lists,      \* lists[p]: how many file lists (ercat.Files) name p
    added,      \* added[p]: its rows in AddFiles
    deleted,    \* deleted[p]: its rows in DeleteFiles
    stored,     \* the paths with a file behind them
    known,      \* the paths that are or were in a list
    posted,     \* tasks in the queue of file_task_ingestors_
    left,       \* left[t]: the partitions thread t has yet to scan
    task,       \* task[t]: the batch it is filling
    queue,      \* batches in the queue of file_task_executors_
    work,       \* work[e]: the batch an executor is about to remove
    stage,      \* stage[e]: "idle", "remove" or "write"
    removed,    \* removed[e]: the paths it takes for removed
    todo        \* todo[e]: the partitions it has yet to delete rows from

catalogVars == <<lists, added, deleted, known>>
scanVars == <<left, task>>
execVars == <<work, stage, removed, todo>>
vars == <<catalogVars, stored, posted, scanVars, queue, execVars>>

TypeOK ==
    /\ {lists, added, deleted} \subseteq [Paths -> Nat]
    /\ \A p \in Paths : added[p] <= MaxAdds[p]
    /\ stored \subseteq Paths /\ known \subseteq Paths
    /\ posted \in 0..MaxPosted
    /\ left \in [Threads -> SUBSET Parts]
    /\ task \in [Threads -> Batch]
    /\ queue \in Seq(Batch \ {Empty})
    /\ work \in [Executors -> Batch]
    /\ stage \in [Executors -> {"idle", "remove", "write"}]
    /\ removed \in [Executors -> SUBSET Paths]
    /\ todo \in [Executors -> SUBSET Parts]

Init ==
    /\ lists = [p \in Paths |-> 0] /\ added = lists /\ deleted = lists
    /\ stored = Paths       \* clients write files before they commit them
    /\ known = {}
    /\ posted = 0
    /\ left = [t \in Threads |-> {}]
    /\ task = [t \in Threads |-> Empty]
    /\ queue = <<>>
    /\ work = [e \in Executors |-> Empty]
    /\ stage = [e \in Executors |-> "idle"]
    /\ removed = [e \in Executors |-> {}]
    /\ todo = [e \in Executors |-> {}]

-----------------------------------------------------------------------------
(* Clients and the collector.                                               *)

\* A client's commit adds p to a list: new, or known to it from another list.
Add(p) ==
    /\ added[p] < MaxAdds[p]
    /\ p \notin known \/ lists[p] > 0 \/ ReAdd
    /\ lists' = [lists EXCEPT ![p] = @ + 1]
    /\ added' = [added EXCEPT ![p] = @ + 1]
    /\ known' = known \cup {p}
    /\ UNCHANGED <<deleted, stored, posted, scanVars, queue, execVars>>

\* rcCommit moves p out of a list none of whose versions sees it any more.
Move(p) ==
    /\ lists[p] > 0
    /\ lists' = [lists EXCEPT ![p] = @ - 1]
    /\ deleted' = [deleted EXCEPT ![p] = @ + 1]
    /\ UNCHANGED <<added, known, stored, posted, scanVars, queue, execVars>>

\* One task for each thread, though nothing makes each thread take one.
IngestFileTasks ==
    /\ posted + NumThreads <= MaxPosted
    /\ posted' = posted + NumThreads
    /\ UNCHANGED <<catalogVars, stored, scanVars, queue, execVars>>

-----------------------------------------------------------------------------
(* ingestFileTasksImpl.                                                     *)

ShareButLast(t) == {i \in 0..(NumParts - 2) : i % NumThreads = t}   \* mutant: i < 31
Share(t) == {i \in Parts : i % NumThreads = t}

EligibleEarly(i) == {p \in Paths : PartOf[p] = i /\ deleted[p] > 0}     \* mutant: no counts
Eligible(i) == {p \in Paths : PartOf[p] = i /\ deleted[p] > 0 /\ deleted[p] = added[p]}

StartScan(t) ==
    /\ posted > 0 /\ left[t] = {}
    /\ posted' = posted - 1
    /\ left' = [left EXCEPT ![t] = Share(t)]
    /\ UNCHANGED <<catalogVars, stored, task, queue, execVars>>

PostAlways(b, q) == Append(q, b)    \* mutant: an empty batch is posted as well
Post(b, q) == IF b = Empty THEN q ELSE Append(q, b)

\* On to the next partition; after the last one the batch is posted.
Proceed(t, i, b, q) ==
    /\ left' = [left EXCEPT ![t] = @ \ {i}]
    /\ IF left[t] = {i}
       THEN task' = [task EXCEPT ![t] = Empty] /\ queue' = Post(b, q)
       ELSE task' = [task EXCEPT ![t] = b] /\ queue' = q

\* The rows of the query fill the batch, and the next one where it becomes full.
Filled(t, S) ==
    {<<Plus(task[t], S), queue>>}
    \cup {<<Plus(Empty, S \ F), Append(queue, Plus(task[t], F))>> : F \in (SUBSET S) \ {{}}}

Partition(t, i) == i \in left[t] /\ \A j \in left[t] : i <= j

Scan(t, i) ==
    /\ Partition(t, i)
    /\ \E f \in Filled(t, Eligible(i)) : Proceed(t, i, f[1], f[2])
    /\ Len(queue') <= MaxQueue
    /\ UNCHANGED <<catalogVars, stored, posted, execVars>>

\* The connection fails after the rows: they stay, and the query is sent again.
ScanAgain(t, i) ==
    /\ Partition(t, i)
    /\ \E f \in Filled(t, Eligible(i)) :
         task' = [task EXCEPT ![t] = f[1]] /\ queue' = f[2]
    /\ Len(queue') <= MaxQueue
    /\ UNCHANGED <<catalogVars, stored, posted, left, execVars>>

\* Five times no connection.
SkipPart(t, i) ==
    /\ Partition(t, i)
    /\ Proceed(t, i, task[t], queue)
    /\ Len(queue') <= MaxQueue
    /\ UNCHANGED <<catalogVars, stored, posted, execVars>>

-----------------------------------------------------------------------------
(* execFileTask.                                                            *)

Take(e) ==
    /\ stage[e] = "idle" /\ queue # <<>>
    /\ work' = [work EXCEPT ![e] = Head(queue)]
    /\ stage' = [stage EXCEPT ![e] = "remove"]
    /\ queue' = Tail(queue)
    /\ UNCHANGED <<catalogVars, stored, posted, scanVars, removed, todo>>

\* The failures that are noted: an error of the object store names a path, and
\* inverted_idx knows one of its places in the batch.
NotedNone(b, failed) == {}      \* mutant: the list of errors is not looked at
Noted(b, failed) == {p \in failed : p \in Remote => p \notin b.twice}

\* Of the files that fail, some in the store may be gone all the same.  A file that
\* is missing counts as removed.
Remove(e, failed) ==
    /\ stage[e] = "remove"
    /\ LET b == work[e]
           gone == b.has \ Noted(b, failed)
       IN  /\ b.twice \cap failed \cap Remote # {} => HiddenErrors
           /\ \E late \in SUBSET (failed \cap Remote) :
                stored' = stored \ ((b.has \ failed) \cup late)
           /\ removed' = [removed EXCEPT ![e] = gone]
           /\ todo' = [todo EXCEPT ![e] = {PartOf[p] : p \in gone}]
           /\ stage' = [stage EXCEPT ![e] = IF gone = {} THEN "idle" ELSE "write"]
           /\ work' = [work EXCEPT ![e] = Empty]
    /\ UNCHANGED <<catalogVars, posted, scanVars, queue>>

\* The next partition, and after the last one the next batch.
Done(e, i) ==
    /\ todo' = [todo EXCEPT ![e] = @ \ {i}]
    /\ IF todo[e] = {i}
       THEN /\ stage' = [stage EXCEPT ![e] = "idle"]
            /\ removed' = [removed EXCEPT ![e] = {}]
       ELSE UNCHANGED <<stage, removed>>
    /\ UNCHANGED work

Turn(e, i) == stage[e] = "write" /\ i \in todo[e] /\ \A j \in todo[e] : i <= j

RowsKept(e, i) == added    \* mutant: the rows of AddFiles stay
RowsLeft(e, i) == [p \in Paths |-> IF p \in removed[e] /\ PartOf[p] = i THEN 0 ELSE added[p]]

\* One statement deletes the rows of both tables.  If its answer is lost, it is sent
\* again.
DeleteRows(e, i) ==
    /\ Turn(e, i)
    /\ added' = RowsLeft(e, i)
    /\ deleted' = [p \in Paths |->
                     IF p \in removed[e] /\ PartOf[p] = i THEN 0 ELSE deleted[p]]
    /\ Done(e, i) \/ UNCHANGED execVars
    /\ UNCHANGED <<lists, known, stored, posted, scanVars, queue>>

\* execPGCommand fails five times; the result is not looked at.
RowsStay(e, i) ==
    /\ Turn(e, i)
    /\ Done(e, i)
    /\ UNCHANGED <<catalogVars, stored, posted, scanVars, queue>>

Thread(t) ==
    \/ StartScan(t)
    \/ \E i \in Parts : Scan(t, i) \/ ScanAgain(t, i) \/ SkipPart(t, i)

Executor(e) ==
    \/ Take(e)
    \/ \E failed \in SUBSET work[e].has : Remove(e, failed)
    \/ \E i \in Parts : DeleteRows(e, i) \/ RowsStay(e, i)

Next ==
    \/ \E p \in Paths : Add(p) \/ Move(p)
    \/ IngestFileTasks
    \/ \E t \in Threads : Thread(t)
    \/ \E e \in Executors : Executor(e)

Spec == Init /\ [][Next]_vars

-----------------------------------------------------------------------------
(* Properties.                                                              *)

\* However scans, batches and failures overlap, no file that a list names is removed.
ListedFilesAreStored == \A p \in Paths : lists[p] > 0 => p \in stored

\* The rows of a path tell in how many lists it is, whatever executors delete and
\* whichever of their statements fail or are repeated.
RowsCountLists == \A p \in Paths : added[p] = lists[p] + deleted[p]

\* A file that was in lists and is in none keeps the rows a scan looks for as long as
\* it is stored, and some thread looks: nothing else would bring it back to a batch
\* after a failure.
GarbageIsFound ==
    \A p \in known : lists[p] = 0 /\ p \in stored =>
        /\ p \in Eligible(PartOf[p])
        /\ \E t \in Threads : PartOf[p] \in Share(t)
=============================================================================
