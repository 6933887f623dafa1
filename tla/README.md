# A verification project for Raven

Raven is a catalog for data lakes.  Clients describe entities, relations and
lists of files in ERQL; a catalog service translates ERQL to SQL and runs it on
a PostgreSQL metadata store; a separate process collects what no entity can
reach any more, from the catalog and from storage.  This directory holds TLA+
models of that program, TLC configurations that check them on small instances,
and proofs checked by TLAPS.

Paths below are relative to the repository; `gc/` is `src/gc/` and so on.

## 1. Inventory

| Component | State it keeps | Operations | Interacts with |
|---|---|---|---|
| **Edge log and epochs** (`experiments/metadatastore/catalog.sql`, `catalog/translator/transcontext.cpp`, `gc/gcmanager.cpp`) | `AddEdges`, `DeleteEdges`, `EpochId`, `CurTime` in the store | writers append rows tagged with the epoch of their snapshot; the ingestor bumps the epoch and reads rows two epochs old; stage 1 deletes them by predicate | shared tables only: catalog clients and collector never talk to each other |
| **GC pipeline** `GCManager` (`gc/gcmanager.cpp`) | tasks in seven one-thread pools | `ingestGC`, `handleGCTask`, `pipeGCTask`, `clearCatalogEdges`, `rcCommit` | calls the graph engine, the version map and the file manager; writes the catalog |
| **Graph engine** `GCGraph` (`gc/gcgraph.cpp`) | vertex descriptors in pages, `i_vertex_map_`, `o_vertex_map_`, free pages, a RocksDB store | `updateGraphStore`, `updateVertexMaps`, `updateGraphEngine`, `execRC`, `postRCCommit`, each a fork and join over worker threads | called by the stages, several at once |
| **Version map** (`gc/versionmap.cpp`, `gc/versionchain.cpp`) | per file list a linked list of versions and an index | `insert`, `remove` under a striped mutex | stages 0 and 5 |
| **Files of versions** (`gc/gcmanager.cpp`, `transcontext.cpp`) | `Files` rows with `start_vid`, `end_vid`; `DeleteFiles` | commits start and end files; `rcCommit` moves files inside the gaps that removed versions leave | clients, collector, file manager |
| **File manager** (`gc/filemanager.cpp`) | scan positions, batches, connections | partitioned scans of `DeleteFiles`, removal from disk or S3, write-back | called at the end of `rcCommit` |
| **Catalog service** (`catalog/service/catalogservice.cpp`) | per-worker translators and connections | `GetTable`, `ListFiles`, `AppendFiles`, `RewriteFiles`, `StartTransaction`, `Commit`, `ExpireSnapshots`, `ExecQuery` | gRPC server, transaction manager, translator, PostgreSQL |
| **Transaction manager** (`catalog/service/txnmgr.cpp`) | open transactions: read versions and accumulated text | new, get, remove | used by all service workers at once |
| **ERQL translator** (`catalog/translator/`) | none between calls | one translation per statement; cycle check of ALTER RELATIONSHIP; join orders | reads the catalog cache |
| **Catalog cache** (`utils/catcache.cpp`) | maps from names to ids, relations, retentions | refresh, lookups | shared by translators and collector |
| **PostgreSQL access** (`utils/pgutil.cpp`) | a connection | `execPGCommand` (repeats), `execPGCommandOnce` | everybody |
| **gRPC server** (`catalog/grpc/grpcserver.cpp`) | completion queues, `CatalogTask` objects | accept, dispatch, finish, shut down | the service |
| **Queue, spin lock, pools** (`utils/`) | a linked queue with two locks | push, pop | graph engine, cache |
| **Grammars, configuration, shells** | none of interest | | |

What is hard in this code:

* Writers and collector meet only in the log.  Which rows an ingest sees
  depends on snapshots, on the epoch at their start and on how long they stay
  open; the deletion of stage 1 repeats a predicate, not a list of rows.
* Seven stages run at once on one engine.  Vertices are noted as missing in the
  ingestor, get slots in stage 2, lose their slots in stage 4 and their map
  entries in stage 6.
* A statement may be given up after retries, or carried out without an answer;
  the task is then dropped with the work of its later stages.
* Visibility of files is arithmetic on version ranges, over chains from which
  any version may vanish.
* Commits are optimistic: the conditions on versions are inside the SQL, and a
  client learns what became of its commit from one answer that may be lost.
* Nothing marks a path that is about to be removed: scans find it again while
  its file is being removed and its rows are being deleted.
* Calls of the engine keep their counter and mutex on the caller's stack, and
  fill and empty the same pages at the same time.

What makes each component correct:

* Log: no row is lost before it is ingested; what is ingested is closed under
  "its writer could see"; no row is counted twice; every row gets there.
* Pipeline and engine: nothing in use is collected; counts are the numbers of
  references; maps and slots agree; at rest nothing has leaked; garbage goes.
* Version map: links, index and order agree, and removals return neighbours.
* Files: every version sees the files its commit left; files nobody sees go.
* File manager: a file is removed only when no list holds it; every row is
  handled.
* Commit protocol: one winner per version; the client is told the truth; the
  head of a table names a version that exists.
* Transactions, queues, server: no use after removal, no lost element, no task
  left behind.

`PROJECT.json` lists each hazard at its line, with the properties that catch it.

## 2. Modules

| Module | Models | Extended or used by |
|---|---|---|
| `EpochLog` | edge log, epochs, ingest, stage 1 | `MCEpochLog`, `EpochLogProofs` |
| `CatalogGC` | the promise to clients (abstract) | `GCPipeline` (as `Catalog`), `MCCatalogGC`, `CatalogGCProofs` |
| `GCPipeline` | ingest, stages 0 to 6, graph engine | `MCGCPipeline`, `GCInvariant` |
| `GCInvariant` | nothing of its own: the inductive invariants of `GCPipeline` | `GCPipelineProofs` |
| `GraphCalls` | how the engine's calls fork and join, pages of vertices | `GraphCallsProofs` |
| `VersionSet` | the promise of the version map (abstract) | `VersionChain`, `VersionFiles` |
| `VersionChain` | the linked list of one file list | `VersionChainProofs` |
| `VersionFiles` | files, versions, gaps and moves | `VersionFilesProofs` |
| `FileManager` | scans, batches, removal, write-back | `MCFileManager`, `FileManagerProofs` |
| `TableLog` | the promise to writers and readers of tables (abstract) | `TableCommit` (as `Log`) |
| `TableCommit` | clients, transactions, commits, expiry | `MCTableCommit`, `TableCommitProofs` |

The modules meet where the parts of the system do.  The pipeline abstracts the
log to the consistent cuts `EpochLog` guarantees; `VersionFiles` abstracts the
pipeline to the versions that become unreachable; `FileManager.Move` is
`VersionFiles.Move` seen by a path, and `FileManager.Add` a commit;
`TableCommit.Collect` is the removal of a version by `GCPipeline`, and its
`Expire` what makes it happen; the set of free slots of `GCPipeline` is what
`GraphCalls` keeps in pages.

### EpochLog

A writer is one transaction that writes one row.  `Begin` takes its snapshot:
the row's epoch (`tag`), its `delete_time` (`due`) and the transactions it can
see (`before`).  `Commit` puts the row in `log`.  `IncEpoch` is the first
transaction of `ingestGC`, `Ingest` its second (with `updateGraphStore`, which
follows before the task is posted) and `Clear` is `clearCatalogEdges`.
PostgreSQL is represented by one rule: a SERIALIZABLE writer whose row the
ingest should have read and did not is doomed, because the ingest's predicate
read, the writer and the increment form the dangerous structure that
serializable snapshot isolation refuses.  The `expireSnapshots` handlers run as
single autocommit statements without that protection (`Autocommit`); a writer
is `Protected` when it is serializable or ends before the second increment.
Failure: the increment may be given up or carried out twice, the read may fail,
and the deletion may succeed, not be sent, or commit without an answer.

### CatalogGC and GCPipeline

`CatalogGC` says what the collector promises: references come and go as clients
say, an expired retention is forgotten, and `Collect` removes only entities the
root does not reach over references in force or retained, and never an entity
before its references.

`GCPipeline` is the program.  `Refer`, `DropRel` and `DropRoot` are the
translated statements.  `Ingest` reads a cut of the log and appends a task.
`Store`, `Clear`, `Maps`, `Adds`, `Deletes`, `Start`, `Cascade`,
`DeleteSources`, `DeleteDests`, `DeleteEnts` and `Post` are the stages, split
where another stage or a client can run in between: stage 3 is two fork-joins,
stage 4 one step per edge list, stage 5 one statement per step.  `Turn` is the
thread pool: a stage handles tasks in order, different stages run at once.
A slot is a vertex descriptor with its count `rc` and its edge list `out`; the
three layouts of an edge list are one bag of slots.  An uninitialized `src` or
`dest` in `applyAddEdges` is any slot.  `Fail` drops a task as `pipeGCTask`
does.

Two parameters bound the environment, because the code itself does not:
`QuietStage` (an ingest starts when all tasks have passed that stage; the code
waits only for the epoch period) and `DropsInOrder` (no drop is ingested before
an older one; retentions that differ break this).

### VersionSet, VersionChain, VersionFiles

`VersionChain` has `prev`, `next`, `tail` and the index, and implements
`VersionSet`: a set of ids whose removal returns the neighbours.  `VersionFiles`
uses the operators of `VersionSet` for the chains: the gaps of a task (`Gaps`)
are what `remove` returns for its versions one after the other, from the lowest
up.  `Commit` is the transaction
of `commitAppendFiles` and `commitRewriteFiles`; `NewVersion` is the insertion
of stage 0; `Collect` is `rcCommit` up to the merged ranges and `Move` one move
to `DeleteFiles`.  `CollectFails` is `rcCommit` when a statement that deletes
relations or rows is given up: the chains lose the versions all the same
(`Release`), the moves are not tried, and the versions whose rows stay go from
`vers` to `kept`, which together are the rows of the catalog.  The tables come
one after the other, so the lists up to `done` lose their rows and those after
it keep them.  `content` is a history variable: what each version was meant
to hold; `stuck` names the files of the moves that were given up or never tried.

### GraphCalls

Stages 2, 3 and 4 call the engine, and each call posts a task per worker and
waits.  `at` is where the stage's thread is, `job` what each worker does next,
`count` the votes: the atomic counter of a first round, which the last worker
raises a second time with the mutex held (`Lock`), or the size of the reduce
buffer of a second one (`votes`).  `Sleep`, `Join` and `Notify` are
`cv.wait` and `cv.notify_one`; `WakeUp` is a spurious return, which also stands
for a notification that comes when its call is over.  `Pop`, `Fill`, `Grow` and
`Push` are `allocateVertices`: it takes a page from `free_pages_`, fills it
under the page's mutex and returns it if it is not `Filled` (66 percent), or
enlarges the engine while no reader holds `engine_mtx_`.  `Free` and `PushFreed`
are a worker of `execRC`, which returns the page on which it crossed that
limit.  `Share` is what `partitionRange` gives a worker of the sorted list of the
vertices to free (`Rank`).  The edges themselves are in `GCPipeline`; here stage 4 frees any set of
vertices that is live.  The number of vertices a task allocates is free.

### FileManager

A path has as many rows in `AddFiles` as lists it was added to, and as many in
`DeleteFiles` as lists it was moved from.  `Add` and `Move` are clients and
`rcCommit`.  `IngestFileTasks` posts one task per thread, and nothing makes
each thread take one: a thread scans the partitions `Share(t)` of its own
number.  `Scan` is one partition, whose rows may fill a batch (`Filled`);
`ScanAgain` is a connection lost after the rows were read, which leaves them in
the batch and reads them again, so a batch is a set with the paths it holds
twice; `SkipPart` is a connection that does not come back.  `Take`, `Remove`,
`DeleteRows` and `RowsStay` are `execFileTask` and `writeBack`.  `Noted` is
`inverted_idx`: an error of the object store is noted at one place of a path.

### TableLog, TableCommit

`TableLog` says what writers and readers may rely on: a transaction adds the
next snapshot to each table it writes, in one step, and snapshots never change.

In `TableCommit` a client reads a version (`GetTable`, `StartTransaction`), adds
statements to its transaction (`AddStmt`; without one the statement is the
commit, `SendSingle`), sends the commit, may send it again, and gives up or goes
on.  `Succeed` is the SQL of the commit, which is one serializable transaction:
`Conflicts` are the primary keys it can hit, `Grows` and `Changed` the
conditions on the version in its INSERT and DELETE statements, `Effective` the
statements that run before the version is there, and `Commit` their effect on
the five tables of versions and references and on the files.  `Refuse` is any
failure: a conflict, no connection, an unknown transaction.  Answers may be
lost, and so may the result of a COMMIT on its way to the service (`unsure`).
`Expire` is `retain_last` with the stale head it read, `Collect` the collector.
A transaction is gone once it was answered (`closed`); a client's own requests
are served one after the other.

Two parameters bound the environment, because the code itself does not:
`LateClients` (versions are collected under clients that work on them or on
older ones; the code has only the retention times) and `Misuse` (orders of
statements the service accepts and that do not do what they say).

## 3. Runs

| Run | Checks | Shows |
|---|---|---|
| `EpochLogSlow` | `TypeOK`, `NothingLost`, `ConsistentCut` | with overlapping tasks, and clears lost or unacknowledged |
| `EpochLogPrompt` | `AppliedAtMostOnce`, `EventuallyApplied` | when an ingest finds the last task cleared, each row is counted exactly once, though statements fail |
| `CatalogPromise` | `InUseIsThere`, `NothingDangles` | the promise is worth having |
| `GCSerial` | `TypeOK`, `RefCountsAreReferences`, `MapsAgree`, `EndsHaveSlots`, `NothingLiveCollected`, `ExactAtRest` | one task at a time, drops in any order, root entities deleted twice, any statement of stages 1 and 5 given up |
| `GCPipelined` | `NothingLiveCollected`, `RefCountsAreReferences`, `MapsAgree`, `EndsHaveSlots`, `ExactAtRest`, `ImplementsCatalogGC` | three tasks overlap in stages 3 to 6; every step is a step of the promise |
| `GCLive` | `EventuallyCollected` | garbage leaves the catalog |
| `GCOverlap` | `NothingLiveCollected` (violated) | an ingest that does not wait for stages 1 and 2 |
| `GraphCalls` | `TypeOK`, `RoomIsQueuedOnce`, `VertexHasOneOwner`, `JoinsComeLast`, `EveryCallReturns` | stages 2, 3 and 4 call the engine at once |
| `VersionChain` | `WellLinked`, `ImplementsVersionSet` | the linked list |
| `VersionFiles` | `TypeOK`, `FilesAreAccessible`, `SnapshotsIntact` | two lists, versions expire in any order, rows stay and moves are given up, commits name versions that are gone |
| `FileManager` | `TypeOK`, `ListedFilesAreStored`, `RowsCountLists`, `GarbageIsFound` | scans, batches and removals overlap, and any of their statements fails or repeats |
| `TableCommit` | `TypeOK`, `HeadIsNewest`, `YesMeansCommitted`, `NoMeansNothing`, `LandsOnce`, `ImplementsTableLog` | two clients race each other, expiry and the collector, and send commits again |

In `GCSerial` a task that was dropped for good sets `lost`, and
`NothingLiveCollected`, `ExactAtRest`, `RefCountsAreReferences` and the sign of
the counts in `TypeOK` are stated for histories without one.  After one they are
false: stage 1 that deletes its rows and is given up loses their adds, a vertex
that clients reach is taken, and when its task is given up in stage 5 the vertex
keeps its entry in `i_vertex_map_`; an add that names it later raises the count
of a slot that is free or stands for another vertex by now.
`MapsAgree` and `EndsHaveSlots` hold either way in `GCSerial`.

Bounds.  *Log*: three writers (two that add, one that drops and is
unprotected), epochs to 4 with a saturating counter, two tasks in the pipeline,
a clock of two ticks.  Two adds and a drop are enough for a row to be seen, be
missed, and be overtaken; the counter saturates two epochs after the last
writer begins, so every row becomes due.  *Graph*: four vertices with a chain
and a shared end, as many slots, six or seven log rows, up to three tasks: all
references made and then enough of them dropped to cascade, or one dropped and
made anew.  *Calls*: two workers, two tasks and three pages of three vertices,
a page being filled from two on, so that one allocation fills a page, needs two,
or enlarges the engine, and one worker crosses the limit on a page the allocator
holds.  *Versions*: lists of six versions, so that gaps of several adjacent
and separate versions occur; two files.  *Removal*: a path on the disk added
once and a path in the object store added to two lists, found by the same thread
in different partitions of three; two threads, so that one of them scans two
partitions and the other one; two executors, two posted tasks and one waiting
batch, so that the same path is in two batches.  *Commits*: two clients, two tables, an attempt each of
at most two statements, sent at most twice, versions up to 2: the loser of a
race on one table wins the other, in both orders, and a version above the one
read exists; `retain_last` 0 expires whatever can expire.

Most runs stop when clients have used up their bounds, so deadlock is not
checked there; `VersionChain` and `FileManager` never stop and are checked for
it.  `SlotSymmetry` permutes the slots that are not the root's, which no
property names; `Interchangeable` the two adding writers of the log, or the
clients and the tables; `AnyExecutor` the executors.  Runs with temporal
properties that need fairness use no symmetry.

Fairness.  *Log*: the ingestor's loop and stage 1 run on their own threads
(weak fairness); the store answers again and again, so the statements that may
fail are strongly fair; time passes.  *Pipeline*: the ingestor polls, pools run
what is posted to them (weak), and the deletion of stage 1 succeeds again and
again (strong).  *Calls*: pools run what is posted to them and a thread that was
woken with its predicate true goes on (weak); nothing wakes a sleeping thread but
a notification, and `EveryCallReturns` is what shows that one comes.  Clients
owe nothing.

That garbage is removed from storage in the end is stated as a safety property:
a file that failed is not tried again by its executor, so what brings it back is
a row that some thread will scan when the collector posts its next task.
`GarbageIsFound` says that this row is always there.  With fairness for posting,
scanning and the object store it would follow that the file goes; that formula
is too expensive for TLC on two paths.

### Where the code departs from what it says

* `GCOverlap`.  `ingestGC` sleeps for the epoch period and reads the log again,
  whether or not stages 1 and 2 of the last task are done.  The counterexample
  counts a reference twice or gives a vertex two slots; a live entity is
  collected.  All passing runs assume `QuietStage` at least 2.
* The dummy head of a version chain (`versionchain.cpp:6`) is the node of
  version 0.  Once that version expires, the gap of the oldest version no longer
  reaches back, and files that span several versions are never moved, against
  the comment at `gcmanager.cpp:497`.  `FilesAreAccessible` leaves such lists
  out; without its exception TLC finds this with `OldestFirst`.
* When `rcCommit` gives up the deletion of a version's row, it takes the version
  from its chain all the same (`gcmanager.cpp:469`) and never comes back to it:
  the row stays for good, and a gap that later reaches across it moves files the
  version still sees.  `SnapshotsIntact` leaves such versions (`kept`) out,
  because no reference leads to them; over all `Rows` TLC finds it false.
* Pipeline, with other constants: with `DropsInOrder` FALSE and two tasks a slot
  freed in stage 4 is reused before stage 6 cleans the maps, and a late drop
  takes a reference from its new owner; the same happens when a task is dropped
  in stage 5; when the deletion of stage 1 commits unacknowledged, the added
  references of the task never reach the engine; with `Stay = {"first"}` the
  files of the newest version of a list are never moved.
* File removal, with other constants.  `HiddenErrors`: `inverted_idx`
  (`filemanager.cpp:404`, "inverted index for error handling") keeps one place
  of a path; after a repeated scan a batch holds it twice, the other place
  counts as removed, the rows go and the object stays.  `ReAdd`: a path that is
  added to a list again between its scan and its removal loses its file.
* File removal, seen while modelling: a scan whose query is refused, rather than
  the connection, does not count as a retry (`filemanager.cpp:155`) and never
  ends; an object-store path without a slash after the bucket counts as removed
  (line 411).
* Commits, with other constants.  `LateClients`: a commit on a version that was
  collected inserts a Head that no version backs and answers yes.  `Misuse`:
  a rewrite of no files does the same; a prepared change that no final statement
  follows is left for whoever commits the next version, and one that comes after
  the final statement is dropped; the client is told yes in both cases.
* Commits, seen while modelling: `ListFiles` does not ask whether the version
  exists.  A client told no that tries anew may add its file a second time when
  only the result was lost.  A statement that does not translate cuts the rest
  of the transaction off (`translator.cpp:69`), COMMIT included, and the service
  answers yes.  `execPGCommandOnce` replaces a lost connection for its own
  caller only.  Transactions nobody commits are never removed.  The queries of
  `ExpireSnapshots` for one version and for older ones lack a blank
  (`catalogservice.cpp:926`, "SELECT t.obj_id" before "FROM") and are always
  refused.
* Calls: the last worker notifies after it has let the mutex go, when the
  condition variable on the caller's stack may be gone.  `JoinsComeLast` shows
  that this is all that comes late.

## 4. Proofs

`EpochLogProofs` proves, for any number of writers, retentions, epochs and
tasks:

* `TypeCorrect`, the type invariant.
* `NothingIsLost` and `CutsAreConsistent`, from the inductive invariant `LogInv`:
  the epoch bounds the tags and the tasks' epochs; only committed transactions
  have rows; an open serializable writer is not due for any pending task (a row
  the ingest missed dooms its writer); what the clear of a pending task would
  delete has been ingested; and what a snapshot shows is committed, with no
  later tag.  Neither property is inductive alone: a `Clear` deletes by epoch
  and time, not by the rows its task read, so its harmlessness has to be
  carried from the ingest to the clear, past every commit in between.
* `RowsAreAppliedOnce`, under `PromptClear`: a row is in the log and not
  applied, or in the one task, or out of both.

`CatalogGCProofs` proves for every finite or infinite graph that the promise
keeps `InUseIsThere` and `NothingDangles`.  The invariant adds that every
reference in force or retained starts at an entity that was created: ids are
never used again, so a new entity has no references yet, and a new reference
makes reachable no more than its destination.  The argument rests on three
lemmas on `Reach`, the least closed set.

`GCPipelineProofs` proves, for any graph, any number of slots, rows and tasks,
and whichever statements of stages 1 and 5 are given up:

* `SlotsAndMapsAgree`, if an ingest waits until all tasks have passed stage 2
  (`QuietStage` in 2..6; `GCOverlap` runs without).  `MapsInv` adds to
  `MapsAgree` that only the youngest task is short of stage 3 (`InTurn`), that
  the vertices it noted in stage 0 still have no slot when stage 2 gives them
  one (`FreshHaveNoSlot`), and that what `execRC` took keeps its entry in
  `i_vertex_map_` until stage 6 of the same task, belongs to one task, and is
  named by no slot in use (`DeadInv`).
* `NothingLiveIsCollected`, `CountsAreReferences` and `TypeCorrect`, under
  `Ordered`: an ingest waits for the whole task before it, or it waits for stage
  2 and drops come in order and none of them twice.  These are the two ways of
  running that `GCSerial` and `GCPipelined` check, and the departures below say
  what happens otherwise.
* `EndsAreFound`, under `Ordered`, if an ingest waits for the whole task before
  it or only stage 1 is given up.
* `PipelineImplementsCatalogGC`, under `Ordered`, if only stage 1 is given up:
  initial states of `GCPipeline` map to initial states of `CatalogGC` and every
  step to a step or a stutter.  So `InUseIsThere` and `NothingDangles`, which
  `CatalogGCProofs` has, hold of the pipeline.
* `NothingLeaks`, under `Ordered` and `Acyclic`: at rest, and unless something
  was lost, the catalog, the vertex maps and the slots in use are what is
  reachable, no more.  `Acyclic` is what ALTER RELATIONSHIP sees to:
  `createsCycle` (`transcontext.cpp:158`) refuses a reference that closes a
  cycle of entity types, so an entity refers to entities of a lower type only.
  (It takes abstract types for types like others and does not look at which
  types implement them: of a cycle over an abstract type and one that implements
  it the theorem says nothing.)
  Entities that refer to each other in a cycle would keep their counts for ever;
  only the mark and sweep that is not implemented could find them.

The invariant, `IInv` in `GCInvariant`, is `MapsInv`, the shape of the state
(`Basic`: which rows are in the log and in which task, in what order) and
`Deep`.  That nothing live is collected is far from inductive: a task collects
what the engine no longer reaches, the engine lags behind the catalog, and
clients go on meanwhile.  `Deep` therefore looks at the engine and the log as a
history: a graph K, the references the engine holds (`Kept`), and a set U of
operations that are still to come (`Pending`).  A cut is a part of U with all
the adds that are older than one of its members; with every cut comes the graph
K would be with it applied.  A vertex that none of these graphs reaches is
`CutOff`.  Three facts hold of K and U (`HistInv`): an old vertex that a cut
does not reach no larger cut reaches (`Monotone`); every operation starts at a
vertex that is reached when it is written (`Sourced`); an edge is added once and
dropped after that (`Unique`).  They are why a slot whose count goes to zero is
cut off: it has no references in K, and one that came later would have to start
at a vertex that reaches nothing new.  They survive the moves of an operation
from U to K, in the order of the pipeline, which is where `Ordered` is needed: a
drop that overtakes an older one, or an add, breaks `Monotone`.  `CatInv` ties
the history to the catalog: what is in force is in K or added by U, or starts at
a vertex that is cut off; what was collected is cut off.  `EngInv` ties it to
the counts: a slot's count is the number of entries for it in edge lists and in
the lists `execRC` has yet to process, an edge list has an entry once, what is
hit has count zero, and an entry of `i_vertex_map_` names its slot or is dead.
After a loss (`lost`) none of this is claimed, but for the types.  TLC found the
invariant inductive on small instances before it was proved.

That nothing leaks needs the converse, `Exact`, which is an invariant on top of
`IInv`: a slot that counts nothing is the root's, was hit by a task that has yet
to run `execRC`, or got its slot from a task that has yet to apply the reference
to it (`ZeroesGo`); what the engine holds or will hold is in force, is dropped
by a pending operation, or starts at a vertex that is cut off (`InForce`); and
an entity of the catalog has a slot, will have one, or was taken by a task that
has yet to delete it (`EntsTracked`, `GoneAreGone`).  The first is where a slot
could be forgotten.  Stage 2 gives slots to sources as well as to destinations
of added references, and a source is not counted; but a source without a slot is
new, so the reference that made it reachable is older and not applied, and the
only task that can have it is the same one (`FreshAreDests`, from `Sourced` and
the order of the rows).  At rest, then, every slot in use but the root's is
counted by an edge list, its source has a slot in turn, and without cycles that
ends at the root.

The refinement needs one invariant more, `Tidy`: no row of a rel table names an
entity that is gone, since stage 5 deletes the rows first, and no client names
an entity that is dead.

`VersionChainProofs` proves, for any version ids:

* `StaysWellLinked`, from the inductive invariant `Linked`: there is no list, or
  links, index and tail form a `Chain`.  `WellLinked` alone would do for a
  removal and not for an insertion: that the node `Seek` stops at and the one
  after it are the neighbours of the new id takes the order of all ids, so
  `Chain` says that nothing lies between a node and its next.  The walk is a
  recursive function; `SeekFindsPlace` follows it by least counterexample, over
  the node it starts from.
* `ImplementsSet`: the list implements `VersionSet`, results of removals
  included.

`VersionFilesProofs` proves, for any lists, versions and files, and whichever
deletions and moves are given up or commits name versions that are gone:

* `TypeCorrect`.  The range of a gap is a range because a merge takes its lower
  end from one gap and its upper end from another of the same list.
* `SnapshotsStay`, for every version the collector has not taken, if the newest
  version of a list is not collected (`"newest" \in Stay`, which holds while the
  list refers to it).  The property is about the present files; what keeps it is
  that no version in `vers` is inside a range that waits to be moved
  (`MovesHollow`), however the gaps were merged: `MergedFold` shows that a merged
  range has no version inside, because the gaps of a list ascend and overlap only
  if the version between them went with the task.  `FilesKnown` bounds the files by the newest version, and `ListOK` says
  which versions the collector does not know yet: only the newest ones in a row,
  so an id that enters the chain enters above it and no gap is around it.
* `FilesStayAccessible`, under the same condition and with the exceptions the
  property names: a file that loses its last version is in the gap that the
  highest of these versions left (`GapAround`), which some merged range covers;
  when the task fails before its moves, that range is among those whose files
  are `stuck` (`CollectFailsAInv`).

The arguments about `Gaps`, `Nth`, `FlattenSeq` and `FoldLeft` are inductions by
least counterexample (`Least`): the first place at which a recursive function of
the natural numbers departs from what it should be does not exist.

`GraphCallsProofs` proves, for any number of workers, pages and tasks:

* `CallsJoinLast`: a caller goes on only when its workers are through with what
  is on its stack.  The invariant `CallInv` counts: while a call waits, votes and
  workers at work add up to `NumWorkers` and nobody is about to lock, or everyone
  has voted and the last one alone has yet to count, or has counted.  A predicate
  that asks for `NumWorkers` votes of the counter, not for one more, would not
  follow from it (and is the mutant of the property).
* `RoomStaysQueued`: `RoomInv` says where stage 2 is when it holds a page, that
  no page is in two places, and that a page is in one exactly if it has room.
  The page the allocator is filling is in no queue while workers free vertices on
  it, and the one of them that crosses the limit must not return it; that one
  does exactly if the page was full before, by the count of its vertices.
* `OneOwner`: `OwnerInv` says the same of vertices.  Its lemma `SharesPartition`
  shows that `partitionRange` hands out every vertex of a list once, for any
  number of vertices and workers.
* `AllocatesAll`: a task that returns a page to the queue, or starts its workers,
  has all the vertices it needs.
* `TypeCorrect`.

`FileManagerProofs` proves, for any paths, partitions, threads and executors,
and whatever fails or repeats:

* `ListedFilesStay` and `RowsStayCounts`, if a path that left all lists is not
  added again (`~ReAdd`), with the types.  The invariant `FInv` says that what
  is in a batch, or taken for removed, is garbage (`OnlyGarbage`): it was when
  it was scanned, since rows count lists, and garbage stays garbage.  The two
  properties need each other: rows are deleted for garbage only, and what is
  garbage is read off the rows.
* `GarbageStaysFound`, if moreover no error is hidden: rows are deleted only for
  files that are gone (`GInv`), so a file that is stored and in no list has
  equal counts, and every partition belongs to a thread.

`TableCommitProofs` proves, for any number of clients, tables, statements and
repeated commits:

* `TypeCorrect`.
* `HeadStaysNewest`, under `Careful` (not `LateClients`, no empty rewrites).
  The property is not inductive: what stops a slow client is the primary key of
  version v + 1, so that version has to be there if any later one is.  `HInv`
  adds that no version is missing between one a client works on and the newest
  (`BaseKept`), nor after one with a Contains row, which a client may yet read
  (`ContKept`), and that statements name tables their client has read
  (`StmtsOnBase`).
* `TablesAreLogs`: under the same condition `TableCommit` implements `TableLog`;
  initial states map to initial states and every step to a step or a stutter.
  A commit leaves the content of the old versions alone because the files it
  adds start, and those it replaces end, after all of them.
* `RefusalsChangeNothing`, without any condition: `NInv` says that an attempt
  has left no file before its commit was sent and while its only request is
  unanswered, and that names of later attempts are not used yet.

Its second half proves, under `Orderly` (no version is
collected under a client at work, and no misuse of statements, the case the run
checks):

* `CommitsLandOnce`: however often a commit is sent and whatever becomes of its
  answers, it lands once, in all of its tables or in none.
* `YesIsTrue`: whoever is told yes finds what it added in the next version of
  each table, and nothing of what it replaced.

The invariant `AInv` adds to those above that a file of an attempt starts at the
version after the one its client works on and that this version is there
(`Placed`).  So the commit, sent again, is not on the newest version any more
and adds nothing; `UniqueFiles` follows.  `Together` says that the files of an
attempt are all there or none, `YesIsDone` that a yes is only given for what is
done, and `Finished`, `Ordered` and `DropsOthers` that what is sent has a final
statement for each table, after those that prepare it, and does not replace its
own file.  Without them the statements before and after the final one see
different versions, which section 3 describes.

Assumptions: the named ones of the modules (`ConstantsOK`, `GraphOK`,
`PipelineOK`, `GraphCallsOK`, `ChainOK`, `FilesOK`, `FileManagerOK`,
`TablesOK`), which TLC evaluates
in the runs.

Every invariant and every refinement that a run checks is stated by a theorem.
Only model-checked is what needs fairness (`EventuallyApplied`,
`EventuallyCollected`, `EveryCallReturns`), which is out of the prover's reach.

## 5. Not modelled

* Recovery.  `gcgraph.h:360` speaks of it, but the graph store is written and
  never read back, so a restart of the collector begins with an empty engine;
  there is no code to model.  The store itself is left out with it; its
  read-modify-write in the ingestor and its deletions in stage 6 are not atomic
  with each other.
* Mark and sweep, which is announced in `gc/mark.h` and not implemented.
* The three layouts of an edge list and the merge of edge vectors: data
  structures with the same content, sequential within the step that uses them.
* The gRPC server, its completion queues and its shutdown: their behaviour is
  that of a library outside the repository.
* `ExecQuery`, which passes any statement on, and the two forms of
  `ExpireSnapshots` that never run.
* Requests of one client that overlap on one transaction, the cache refresh
  under its readers, the notification on a dead stack frame: undefined behaviour
  of C++ that the models mention where it bites (see the hazards) and do not
  give a meaning to.
* The retry loops inside `execPGCommand` and `execPGCommandOnce`; the modules
  have their outcomes.
* The text of ERQL and SQL, the parse-tree visitor, the join orders, the cycle
  check of ALTER RELATIONSHIP; grammars, lexer bases, configuration, shells and
  metrics.  They are sequential, and tests reach them.

## 6. Plan

What would come next:

1. `AlterRel` and `JoinGen`, as functions against a reference definition over
   small schemas.
2. `PGCommand`: the two retry loops with a connection that fails, implementing
   the outcomes the other modules assume, and with the pointer the service keeps.
3. `ConcurrentQueue` with its two locks, implementing the sequence `freePages`.
4. Runs for the departures that are only described above.
