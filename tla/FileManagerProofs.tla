------------------------- MODULE FileManagerProofs -------------------------
(***************************************************************************)
(* Proofs about FileManager, for any number of paths, partitions, threads  *)
(* and executors, and whatever statements and removals fail or repeat.     *)
(*                                                                         *)
(* All rest on one fact: a path in a batch, or taken for removed, is in no *)
(* list.  It was in none when it was scanned, as its rows tell, and a path *)
(* that left its last list does not come back (~ReAdd).                    *)
(***************************************************************************)
EXTENDS FileManager, TLAPS

\* The paths that have left every list they were in.
Garbage == {p \in known : lists[p] = 0}

\* Batches of garbage.
Chosen == {b \in Batch : b.has \subseteq Garbage}

\* A path not known to the catalog has no rows, and its writer has stored it.
Unknown == \A p \in Paths \ known : added[p] = 0 /\ p \in stored

\* Whatever is scanned, queued or removed is garbage.
OnlyGarbage ==
    /\ task \in [Threads -> Chosen]
    /\ queue \in Seq(Chosen \ {Empty})
    /\ work \in [Executors -> Chosen]
    /\ \A e \in Executors : removed[e] \subseteq Garbage

FInv == TypeOK /\ Unknown /\ RowsCountLists /\ ListedFilesAreStored /\ OnlyGarbage

LEMMA EmptyIsChosen == Empty \in Batch /\ Empty \in Chosen
  BY DEF Empty, Batch, Chosen

LEMMA InitFInv == Init => FInv
<1> SUFFICES ASSUME Init PROVE FInv
  OBVIOUS
<1>1. TypeOK
  BY FileManagerOK, EmptyIsChosen DEF Init, TypeOK
<1>2. Unknown /\ RowsCountLists /\ ListedFilesAreStored
  BY DEF Init, Unknown, RowsCountLists, ListedFilesAreStored
<1>3. OnlyGarbage
  BY EmptyIsChosen DEF Init, OnlyGarbage
<1> QED BY <1>1, <1>2, <1>3 DEF FInv

\* More garbage, more batches of it.
LEMMA MoreGarbage ==
  ASSUME FInv, Garbage \subseteq Garbage', UNCHANGED <<task, queue, work, removed>>
  PROVE  OnlyGarbage'
<1>1. Chosen \subseteq Chosen'
  BY DEF Chosen
<1>2. queue \in Seq(Chosen' \ {Empty})
  <2>1. queue \in Seq(Chosen \ {Empty})
    BY DEF FInv, OnlyGarbage
  <2>2. \A k \in 1..Len(queue) : queue[k] \in Chosen' \ {Empty}
    BY <2>1, <1>1
  <2> QED BY <2>1, <2>2
<1> QED BY <1>1, <1>2 DEF FInv, OnlyGarbage

-----------------------------------------------------------------------------
(* Clients and the collector.                                               *)

LEMMA AddFInv ==
  ASSUME FInv, ~ReAdd, NEW p \in Paths, Add(p)
  PROVE  FInv'
<1> USE DEF FInv, Add
<1>1. TypeOK'
  <2>1. lists' \in [Paths -> Nat] /\ added' \in [Paths -> Nat] /\ known' \subseteq Paths
    BY DEF TypeOK
  <2>2. \A q \in Paths : added'[q] <= MaxAdds[q]
    <3>1. \A q \in Paths : added[q] \in Nat /\ MaxAdds[q] \in Nat /\ added[q] <= MaxAdds[q]
      BY FileManagerOK DEF TypeOK
    <3>2. \A q \in Paths : added'[q] = IF q = p THEN added[q] + 1 ELSE added[q]
      BY DEF TypeOK
    <3> QED BY <3>1, <3>2
  <2> QED BY <2>1, <2>2 DEF TypeOK, scanVars, execVars
<1>2. Unknown' /\ RowsCountLists' /\ ListedFilesAreStored'
  BY DEF TypeOK, Unknown, RowsCountLists, ListedFilesAreStored
<1>3. Garbage \subseteq Garbage'
  BY DEF Garbage, TypeOK
<1>4. OnlyGarbage'
  BY <1>3, MoreGarbage DEF scanVars, execVars
<1> QED BY <1>1, <1>2, <1>4

LEMMA MoveFInv ==
  ASSUME FInv, NEW p \in Paths, Move(p)
  PROVE  FInv'
<1> USE DEF FInv, Move
<1>1. TypeOK'
  BY DEF TypeOK, scanVars, execVars
<1>2. RowsCountLists'
  BY DEF TypeOK, RowsCountLists
<1>3. Unknown' /\ ListedFilesAreStored'
  BY DEF TypeOK, Unknown, ListedFilesAreStored
<1>4. Garbage \subseteq Garbage'
  BY DEF Garbage, TypeOK
<1>5. OnlyGarbage'
  BY <1>4, MoreGarbage DEF scanVars, execVars
<1> QED BY <1>1, <1>2, <1>3, <1>5

LEMMA IngestFInv ==
  ASSUME FInv, IngestFileTasks
  PROVE  FInv'
<1> USE DEF FInv, IngestFileTasks, catalogVars, scanVars, execVars
<1>1. TypeOK'
  BY FileManagerOK DEF TypeOK, Threads
<1>2. Unknown' /\ RowsCountLists' /\ ListedFilesAreStored'
  BY DEF Unknown, RowsCountLists, ListedFilesAreStored
<1>3. OnlyGarbage'
  BY MoreGarbage DEF Garbage
<1> QED BY <1>1, <1>2, <1>3

-----------------------------------------------------------------------------
(* Scans.                                                                   *)

\* A step that leaves the catalog and the store alone.
CatalogSame == UNCHANGED <<catalogVars, stored>>

LEMMA SameCatalog ==
  ASSUME FInv, CatalogSame
  PROVE  /\ Unknown' /\ RowsCountLists' /\ ListedFilesAreStored'
         /\ Garbage' = Garbage /\ Chosen' = Chosen
  BY DEF FInv, CatalogSame, catalogVars, Unknown, RowsCountLists, ListedFilesAreStored,
         Garbage, Chosen

LEMMA PlusChosen ==
  ASSUME FInv, NEW b \in Chosen, NEW S \in SUBSET Garbage
  PROVE  Plus(b, S) \in Chosen /\ (S # {} => Plus(b, S) # Empty)
<1>1. Garbage \subseteq Paths
  BY DEF FInv, TypeOK, Garbage
<1> QED BY <1>1 DEF Plus, Chosen, Batch, Empty

LEMMA EligibleIsGarbage ==
  ASSUME FInv, NEW i \in Parts
  PROVE  Eligible(i) \subseteq Garbage
  BY DEF FInv, TypeOK, Unknown, RowsCountLists, Eligible, Garbage

LEMMA FilledChosen ==
  ASSUME FInv, NEW t \in Threads, NEW i \in Parts, NEW f \in Filled(t, Eligible(i))
  PROVE  f[1] \in Chosen /\ f[2] \in Seq(Chosen \ {Empty})
<1> DEFINE S == Eligible(i)
<1>1. S \subseteq Garbage
  BY EligibleIsGarbage
<1>2. task[t] \in Chosen /\ queue \in Seq(Chosen \ {Empty})
  BY DEF FInv, OnlyGarbage
<1> HIDE DEF S
<1>3. CASE f = <<Plus(task[t], S), queue>>
  BY <1>1, <1>2, <1>3, PlusChosen
<1>4. ASSUME NEW F \in (SUBSET S) \ {{}},
             f = <<Plus(Empty, S \ F), Append(queue, Plus(task[t], F))>>
      PROVE  f[1] \in Chosen /\ f[2] \in Seq(Chosen \ {Empty})
  <2>1. F \in SUBSET Garbage /\ F # {} /\ S \ F \in SUBSET Garbage
    BY <1>1
  <2>2. Plus(Empty, S \ F) \in Chosen
    BY <2>1, EmptyIsChosen, PlusChosen
  <2>3. Plus(task[t], F) \in Chosen \ {Empty}
    BY <2>1, <1>2, PlusChosen
  <2>4. Append(queue, Plus(task[t], F)) \in Seq(Chosen \ {Empty})
    BY <2>3, <1>2
  <2> QED BY <1>4, <2>2, <2>4
<1> QED BY <1>3, <1>4 DEF Filled, S

LEMMA ProceedChosen ==
  ASSUME FInv, NEW t \in Threads, NEW i \in Parts, NEW b \in Chosen,
         NEW q \in Seq(Chosen \ {Empty}), Proceed(t, i, b, q)
  PROVE  task' \in [Threads -> Chosen] /\ queue' \in Seq(Chosen \ {Empty})
         /\ left' \in [Threads -> SUBSET Parts]
<1>1. Post(b, q) \in Seq(Chosen \ {Empty})
  BY DEF Post
<1> QED BY <1>1, EmptyIsChosen DEF Proceed, FInv, TypeOK, OnlyGarbage

\* What is left to show of a step that scans.
LEMMA Scanned ==
  ASSUME FInv, CatalogSame, UNCHANGED execVars, posted' \in 0..MaxPosted,
         task' \in [Threads -> Chosen], queue' \in Seq(Chosen \ {Empty}),
         left' \in [Threads -> SUBSET Parts]
  PROVE  FInv'
<1>1. task' \in [Threads -> Batch] /\ queue' \in Seq(Batch \ {Empty})
  <2>1. Chosen \subseteq Batch
    BY DEF Chosen
  <2>2. \A k \in 1..Len(queue') : queue'[k] \in Batch \ {Empty}
    BY <2>1
  <2> QED BY <2>1, <2>2
<1>2. TypeOK'
  BY <1>1 DEF FInv, TypeOK, CatalogSame, catalogVars, execVars
<1>3. OnlyGarbage'
  BY SameCatalog DEF FInv, OnlyGarbage, execVars
<1> QED BY <1>2, <1>3, SameCatalog DEF FInv

LEMMA ThreadFInv ==
  ASSUME FInv, NEW t \in Threads, Thread(t)
  PROVE  FInv'
<1>1. task \in [Threads -> Chosen] /\ queue \in Seq(Chosen \ {Empty})
      /\ left \in [Threads -> SUBSET Parts] /\ posted \in 0..MaxPosted
  BY DEF FInv, TypeOK, OnlyGarbage
<1>2. CASE StartScan(t)
  <2>1. left' \in [Threads -> SUBSET Parts] /\ posted' \in 0..MaxPosted
    BY <1>1, <1>2, FileManagerOK DEF StartScan, Share
  <2> QED BY <1>1, <1>2, <2>1, Scanned DEF StartScan, CatalogSame
<1>3. ASSUME NEW i \in Parts, Scan(t, i) PROVE FInv'
  <2>1. PICK f \in Filled(t, Eligible(i)) : Proceed(t, i, f[1], f[2])
    BY <1>3 DEF Scan
  <2>2. f[1] \in Chosen /\ f[2] \in Seq(Chosen \ {Empty})
    BY FilledChosen
  <2>3. task' \in [Threads -> Chosen] /\ queue' \in Seq(Chosen \ {Empty})
        /\ left' \in [Threads -> SUBSET Parts]
    BY <2>1, <2>2, ProceedChosen
  <2> QED BY <1>1, <1>3, <2>3, Scanned DEF Scan, CatalogSame
<1>4. ASSUME NEW i \in Parts, ScanAgain(t, i) PROVE FInv'
  <2>1. PICK f \in Filled(t, Eligible(i)) : task' = [task EXCEPT ![t] = f[1]] /\ queue' = f[2]
    BY <1>4 DEF ScanAgain
  <2>2. f[1] \in Chosen /\ f[2] \in Seq(Chosen \ {Empty})
    BY FilledChosen
  <2>3. task' \in [Threads -> Chosen] /\ queue' \in Seq(Chosen \ {Empty})
    BY <1>1, <2>1, <2>2
  <2> QED BY <1>1, <1>4, <2>3, Scanned DEF ScanAgain, CatalogSame
<1>5. ASSUME NEW i \in Parts, SkipPart(t, i) PROVE FInv'
  <2>1. task' \in [Threads -> Chosen] /\ queue' \in Seq(Chosen \ {Empty})
        /\ left' \in [Threads -> SUBSET Parts]
    BY <1>1, <1>5, ProceedChosen DEF SkipPart
  <2> QED BY <1>1, <1>5, <2>1, Scanned DEF SkipPart, CatalogSame
<1> QED BY <1>2, <1>3, <1>4, <1>5 DEF Thread

-----------------------------------------------------------------------------
(* Removal.                                                                 *)

LEMMA TakeFInv ==
  ASSUME FInv, NEW e \in Executors, Take(e)
  PROVE  FInv'
<1> USE DEF Take, scanVars
<1>1. queue \in Seq(Chosen \ {Empty}) /\ queue # <<>> /\ work \in [Executors -> Chosen]
  BY DEF FInv, OnlyGarbage
<1>2. Head(queue) \in Chosen \ {Empty} /\ Tail(queue) \in Seq(Chosen \ {Empty})
  BY <1>1
<1>3. queue \in Seq(Batch \ {Empty})
  BY DEF FInv, TypeOK
<1>4. Head(queue) \in Batch /\ Tail(queue) \in Seq(Batch \ {Empty})
  BY <1>1, <1>3
<1>5. TypeOK'
  BY <1>4 DEF FInv, TypeOK, catalogVars
<1>6. OnlyGarbage'
  BY <1>1, <1>2, SameCatalog DEF FInv, OnlyGarbage, CatalogSame
<1> QED BY <1>5, <1>6, SameCatalog DEF FInv, CatalogSame

LEMMA RemoveFInv ==
  ASSUME FInv, NEW e \in Executors, NEW failed \in SUBSET work[e].has, Remove(e, failed)
  PROVE  FInv'
<1> DEFINE b == work[e]
           gone == b.has \ Noted(b, failed)
<1>1. b \in Chosen /\ b.has \subseteq Garbage /\ b.has \subseteq Paths
  BY DEF FInv, OnlyGarbage, Chosen, TypeOK, Batch
<1>2. stored' \subseteq stored /\ stored \ stored' \subseteq Garbage
  BY <1>1 DEF Remove
<1>3. TypeOK'
  <2>1. gone \subseteq Paths /\ {PartOf[p] : p \in gone} \subseteq Parts
    BY <1>1, FileManagerOK
  <2> HIDE DEF gone
  <2>2. /\ removed' = [removed EXCEPT ![e] = gone]
        /\ todo' = [todo EXCEPT ![e] = {PartOf[p] : p \in gone}]
        /\ stage' = [stage EXCEPT ![e] = IF gone = {} THEN "idle" ELSE "write"]
        /\ work' = [work EXCEPT ![e] = Empty]
        /\ UNCHANGED <<catalogVars, posted, scanVars, queue>>
    BY DEF Remove, gone
  <2> QED BY <1>2, <2>1, <2>2, EmptyIsChosen DEF FInv, TypeOK, catalogVars, scanVars
<1>4. UNCHANGED <<lists, added, deleted, known>>
  BY DEF Remove, catalogVars
<1>5. Unknown' /\ RowsCountLists' /\ ListedFilesAreStored'
  BY <1>2, <1>4 DEF FInv, Unknown, RowsCountLists, ListedFilesAreStored, Garbage
<1>6. OnlyGarbage'
  <2>1. Garbage' = Garbage /\ Chosen' = Chosen
    BY <1>4 DEF Garbage, Chosen
  <2>2. gone \subseteq Garbage
    BY <1>1
  <2> HIDE DEF gone
  <2>3. removed' = [removed EXCEPT ![e] = gone] /\ work' = [work EXCEPT ![e] = Empty]
        /\ UNCHANGED <<task, queue>>
    BY DEF Remove, gone, scanVars
  <2> QED BY <2>1, <2>2, <2>3, EmptyIsChosen DEF FInv, TypeOK, OnlyGarbage
<1> QED BY <1>3, <1>5, <1>6 DEF FInv

LEMMA DoneTypes ==
  ASSUME FInv, NEW e \in Executors, NEW i \in Parts, Done(e, i) \/ UNCHANGED execVars
  PROVE  /\ work' = work /\ stage' \in [Executors -> {"idle", "remove", "write"}]
         /\ removed' \in [Executors -> SUBSET Paths] /\ todo' \in [Executors -> SUBSET Parts]
         /\ \A d \in Executors : removed'[d] \subseteq removed[d]
  BY DEF FInv, TypeOK, Done, execVars

LEMMA DeleteRowsFInv ==
  ASSUME FInv, NEW e \in Executors, NEW i \in Parts, DeleteRows(e, i)
  PROVE  FInv'
<1> DEFINE rows == {p \in Paths : p \in removed[e] /\ PartOf[p] = i}
<1>1. rows \subseteq Garbage
  BY DEF FInv, OnlyGarbage
<1>2. /\ added' = [p \in Paths |-> IF p \in rows THEN 0 ELSE added[p]]
      /\ deleted' = [p \in Paths |-> IF p \in rows THEN 0 ELSE deleted[p]]
      /\ UNCHANGED <<lists, known, stored, posted, scanVars, queue>>
  BY DEF DeleteRows, RowsLeft
<1>3. Done(e, i) \/ UNCHANGED execVars
  BY DEF DeleteRows
<1> HIDE DEF rows
<1>4. TypeOK'
  <2>1. added' \in [Paths -> Nat] /\ deleted' \in [Paths -> Nat]
    BY <1>2 DEF FInv, TypeOK
  <2>2. \A p \in Paths : added'[p] <= MaxAdds[p]
    BY <1>2, FileManagerOK DEF FInv, TypeOK
  <2> QED BY <1>2, <1>3, <2>1, <2>2, DoneTypes DEF FInv, TypeOK, scanVars
<1>5. Unknown'
  BY <1>2 DEF FInv, Unknown
<1>6. RowsCountLists'
  BY <1>1, <1>2 DEF FInv, TypeOK, RowsCountLists, Garbage
<1>7. ListedFilesAreStored'
  BY <1>2 DEF FInv, ListedFilesAreStored
<1>8. OnlyGarbage'
  <2>1. Garbage' = Garbage /\ Chosen' = Chosen
    BY <1>2 DEF Garbage, Chosen
  <2> QED BY <1>2, <1>3, <2>1, DoneTypes DEF FInv, OnlyGarbage, scanVars
<1> QED BY <1>4, <1>5, <1>6, <1>7, <1>8 DEF FInv

LEMMA RowsStayFInv ==
  ASSUME FInv, NEW e \in Executors, NEW i \in Parts, RowsStay(e, i)
  PROVE  FInv'
<1> USE DEF RowsStay, scanVars
<1>1. TypeOK'
  BY DoneTypes DEF FInv, TypeOK, catalogVars
<1>2. OnlyGarbage'
  BY DoneTypes, SameCatalog DEF FInv, OnlyGarbage, CatalogSame
<1> QED BY <1>1, <1>2, SameCatalog DEF FInv, CatalogSame

LEMMA StepFInv == ~ReAdd /\ FInv /\ [Next]_vars => FInv'
<1> SUFFICES ASSUME ~ReAdd, FInv, [Next]_vars PROVE FInv'
  OBVIOUS
<1>1. CASE UNCHANGED vars
  <2>1. UNCHANGED <<catalogVars, stored, posted, left, task, queue, work, stage, removed, todo>>
    BY <1>1 DEF vars, scanVars, execVars
  <2>2. TypeOK'
    BY <2>1 DEF FInv, TypeOK, catalogVars
  <2>3. OnlyGarbage'
    BY <2>1, SameCatalog DEF FInv, OnlyGarbage, CatalogSame
  <2> QED BY <2>1, <2>2, <2>3, SameCatalog DEF FInv, CatalogSame
<1>2. ASSUME NEW e \in Executors, Executor(e) PROVE FInv'
  BY <1>2, TakeFInv, RemoveFInv, DeleteRowsFInv, RowsStayFInv DEF Executor
<1> QED BY <1>1, <1>2, AddFInv, MoveFInv, IngestFInv, ThreadFInv DEF Next

\* The types of FileManager.
THEOREM TypeCorrect == ~ReAdd => (Spec => []TypeOK)
<1> SUFFICES ASSUME ~ReAdd PROVE Spec => []TypeOK
  OBVIOUS
<1>1. FInv /\ [Next]_vars => FInv'
  BY StepFInv
<1>2. FInv => TypeOK
  BY DEF FInv
<1> QED BY <1>1, <1>2, InitFInv, PTL DEF Spec

\* However many threads scan and executors remove at once, and whatever fails, no file
\* that a list names is removed, if a path that left its last list does not come back.
THEOREM ListedFilesStay == ~ReAdd => (Spec => []ListedFilesAreStored)
<1> SUFFICES ASSUME ~ReAdd PROVE Spec => []ListedFilesAreStored
  OBVIOUS
<1>1. FInv /\ [Next]_vars => FInv'
  BY StepFInv
<1>2. FInv => ListedFilesAreStored
  BY DEF FInv
<1> QED BY <1>1, <1>2, InitFInv, PTL DEF Spec

\* The rows of AddFiles and DeleteFiles always tell in how many lists a path is.
THEOREM RowsStayCounts == ~ReAdd => (Spec => []RowsCountLists)
<1> SUFFICES ASSUME ~ReAdd PROVE Spec => []RowsCountLists
  OBVIOUS
<1>1. FInv /\ [Next]_vars => FInv'
  BY StepFInv
<1>2. FInv => RowsCountLists
  BY DEF FInv
<1> QED BY <1>1, <1>2, InitFInv, PTL DEF Spec

-----------------------------------------------------------------------------
(* What is stored and no longer listed stays within reach of the scans.     *)

\* A path taken for removed is removed: no failure is hidden by a path that a batch
\* holds twice.
RemovedAreGone == \A e \in Executors : removed[e] \cap stored = {}

\* Such a path still has the rows a scan looks for.
RowsRemain == \A p \in known : lists[p] = 0 /\ p \in stored => deleted[p] > 0

GInv == FInv /\ RemovedAreGone /\ RowsRemain

LEMMA InitGInv == Init => GInv
  BY InitFInv DEF Init, GInv, RemovedAreGone, RowsRemain

LEMMA CatalogGInv ==
  ASSUME GInv, FInv', NEW p \in Paths, Add(p) \/ Move(p)
  PROVE  GInv'
<1>1. RemovedAreGone'
  BY DEF Add, Move, execVars, GInv, RemovedAreGone
<1>2. RowsRemain'
  <2>1. CASE Add(p)
    BY <2>1 DEF Add, GInv, FInv, TypeOK, RowsRemain
  <2>2. CASE Move(p)
    BY <2>2 DEF Move, GInv, FInv, TypeOK, RowsRemain
  <2> QED BY <2>1, <2>2
<1> QED BY <1>1, <1>2 DEF GInv

LEMMA SameGInv ==
  ASSUME GInv, FInv', UNCHANGED <<catalogVars, stored>>,
         \A e \in Executors : removed'[e] \subseteq removed[e]
  PROVE  GInv'
  BY DEF GInv, RemovedAreGone, RowsRemain, catalogVars

LEMMA RemoveGInv ==
  ASSUME GInv, FInv', ~HiddenErrors, NEW e \in Executors,
         NEW failed \in SUBSET work[e].has, Remove(e, failed)
  PROVE  GInv'
<1> DEFINE b == work[e]
           gone == b.has \ Noted(b, failed)
<1>1. /\ UNCHANGED <<lists, deleted, known>> /\ stored' \subseteq stored
      /\ removed' = [removed EXCEPT ![e] = gone]
  BY DEF Remove, catalogVars
<1>2. gone \cap stored' = {}
  BY DEF Remove, Noted
<1>3. RemovedAreGone'
  <2> HIDE DEF gone
  <2> QED BY <1>1, <1>2 DEF GInv, FInv, TypeOK, RemovedAreGone
<1>4. RowsRemain'
  BY <1>1 DEF GInv, RowsRemain
<1> QED BY <1>3, <1>4 DEF GInv

LEMMA DeleteRowsGInv ==
  ASSUME GInv, FInv', NEW e \in Executors, NEW i \in Parts, DeleteRows(e, i)
  PROVE  GInv'
<1>1. \A d \in Executors : removed'[d] \subseteq removed[d]
  BY DoneTypes DEF DeleteRows, GInv
<1>2. RemovedAreGone'
  BY <1>1 DEF DeleteRows, GInv, RemovedAreGone
<1>3. RowsRemain'
  BY DEF DeleteRows, GInv, FInv, TypeOK, RemovedAreGone, RowsRemain
<1> QED BY <1>2, <1>3 DEF GInv

LEMMA ExecutorGInv ==
  ASSUME GInv, FInv', ~HiddenErrors, NEW e \in Executors, Executor(e)
  PROVE  GInv'
<1>1. CASE Take(e)
  BY <1>1, SameGInv DEF Take
<1>2. ASSUME NEW i \in Parts, RowsStay(e, i) PROVE GInv'
  BY <1>2, SameGInv, DoneTypes DEF RowsStay, GInv
<1> QED BY <1>1, <1>2, RemoveGInv, DeleteRowsGInv DEF Executor

LEMMA StepGInv == ~ReAdd /\ ~HiddenErrors /\ GInv /\ [Next]_vars => GInv'
<1> SUFFICES ASSUME ~ReAdd, ~HiddenErrors, GInv, [Next]_vars PROVE GInv'
  OBVIOUS
<1>1. FInv'
  BY StepFInv DEF GInv
<1>2. CASE UNCHANGED vars
  BY <1>1, <1>2, SameGInv DEF vars, execVars
<1>3. CASE IngestFileTasks
  BY <1>1, <1>3, SameGInv DEF IngestFileTasks, execVars
<1>4. ASSUME NEW t \in Threads, Thread(t) PROVE GInv'
  BY <1>1, <1>4, SameGInv DEF Thread, StartScan, Scan, ScanAgain, SkipPart, execVars
<1> QED BY <1>1, <1>2, <1>3, <1>4, CatalogGInv, ExecutorGInv DEF Next

\* Every partition has a thread.
LEMMA EveryPartHasThread ==
  ASSUME NEW i \in Parts
  PROVE  \E t \in Threads : i \in Share(t)
<1>1. i \in Nat /\ NumThreads \in Nat \ {0}
  BY FileManagerOK DEF Parts
<1>2. i % NumThreads \in Threads
  BY <1>1 DEF Threads
<1> QED BY <1>2 DEF Share

\* A file that has left its lists and is still stored is found by the next scan, however
\* many removals failed, if no failure is hidden by a path that a batch holds twice.
THEOREM GarbageStaysFound == ~ReAdd /\ ~HiddenErrors => (Spec => []GarbageIsFound)
<1> SUFFICES ASSUME ~ReAdd, ~HiddenErrors PROVE Spec => []GarbageIsFound
  OBVIOUS
<1>1. GInv /\ [Next]_vars => GInv'
  BY StepGInv
<1>2. GInv => GarbageIsFound
  <2> SUFFICES ASSUME GInv, NEW p \in known, lists[p] = 0, p \in stored
               PROVE  p \in Eligible(PartOf[p]) /\ \E t \in Threads : PartOf[p] \in Share(t)
    BY DEF GarbageIsFound
  <2>1. p \in Paths /\ PartOf[p] \in Parts
    BY FileManagerOK DEF GInv, FInv, TypeOK
  <2>2. p \in Eligible(PartOf[p])
    BY <2>1 DEF GInv, FInv, TypeOK, RowsCountLists, RowsRemain, Eligible
  <2> QED BY <2>1, <2>2, EveryPartHasThread
<1> QED BY <1>1, <1>2, InitGInv, PTL DEF Spec
=============================================================================
