----------------------------- MODULE GCPipeline -----------------------------
(***************************************************************************)
(* The reference-counting collector: ingestGC, the seven-stage task        *)
(* pipeline of GCManager and the in-memory graph engine of GCGraph.        *)
(*                                                                         *)
(* A task carries a batch of log rows through the stages.  Every stage is  *)
(* a thread pool with one thread, so a stage handles the tasks in order    *)
(* but different tasks are in different stages at once.  The engine keeps  *)
(* one vertex descriptor per slot: reference count and list of neighbours. *)
(* Slots are reused; i_vertex_map_ and o_vertex_map_ tie them to entities. *)
(*                                                                         *)
(* The log is the one EpochLog models: what an ingest reads is a           *)
(* consistent cut, and what clearCatalogEdges deletes is what its task     *)
(* read.  Mark-and-sweep is not implemented in the code (mark.h).          *)
(***************************************************************************)
EXTENDS Integers, SequencesExt

CONSTANTS
    Vertices, Root, Schema,  \* as in CatalogGC
    Slots,          \* vertex descriptors (bound: the pages that may exist)
    RootSlot,       \* the descriptor the constructor of GCGraph allocates
    MaxRows,        \* bound: the log rows clients write
    MaxTasks,       \* bound: the tasks in the pipeline
    QuietStage,     \* an ingest starts when all tasks have passed this stage
    DropsInOrder,   \* TRUE: a drop is ingested only with all older drops, and
                    \* clients drop references of reachable entities only
    RepeatDrops,    \* TRUE: clients may delete a root entity more than once
    MayFail         \* the phases whose statement may be given up: "clear",
                    \* "sources", "dests", "ents"; and "unacknowledged": when
                    \* stage 1 is given up its rows may be gone all the same

Stage == [store |-> 0, clear |-> 1, maps |-> 2, adds |-> 3, deletes |-> 3,
          init |-> 4, cascade |-> 4, sources |-> 5, dests |-> 5, ents |-> 5,
          post |-> 6]

Phases == DOMAIN Stage
Edges == Vertices \X Vertices
Row == [id : 1..MaxRows, op : {"add", "drop"}, edge : Edges, due : BOOLEAN]
Nowhere == [s \in Slots |-> 0]

ASSUME PipelineOK ==
    /\ Root \in Vertices
    /\ Schema \subseteq Vertices \X (Vertices \ {Root})
    /\ RootSlot \in Slots /\ IsFiniteSet(Slots)
    /\ MaxRows \in Nat /\ MaxTasks \in Nat
    /\ QuietStage \in 0..6
    /\ DropsInOrder \in BOOLEAN /\ RepeatDrops \in BOOLEAN
    /\ MayFail \subseteq {"clear", "sources", "dests", "ents", "unacknowledged"}

VARIABLES
    ents,       \* the catalog: entities
    rels,       \* references in force (for the root: those not deleted again)
    dropped,    \* rows of the rel tables whose delete_time is set
    used,       \* entities created so far: obj_id values are never reused
    log,        \* rows of AddEdges and DeleteEdges
    rows,       \* the number of rows written so far
    iMap,       \* i_vertex_map_
    oMap,       \* o_vertex_map_
    alloc,      \* slots whose V_ALLOC bit is set
    rc,         \* rc[s]: the reference count of slot s
    out,        \* out[s][t]: how often t is in the edge list of slot s
    tasks,      \* the GCTasks in the pipeline, oldest first
    lost        \* auxiliary: work was given up that no later task repeats

catalogVars == <<ents, rels, dropped, used>>
mapVars == <<iMap, oMap>>
engineVars == <<alloc, rc, out>>
vars == <<catalogVars, log, rows, mapVars, engineVars, tasks, lost>>

Catalog == INSTANCE CatalogGC WITH
    retained <- {r.edge : r \in {r \in log : r.op = "drop" /\ r.edge[1] # Root /\ ~r.due}}

Live == Catalog!Reach(rels)

Task == [phase : Phases, rows : SUBSET Row, fresh : SUBSET Vertices,
         hit : SUBSET Slots, lists : SUBSET ((SUBSET Vertices) \X [Slots -> Nat]),
         dead : SUBSET Vertices]

TypeOK ==
    /\ ents \subseteq Vertices /\ used \subseteq Vertices
    /\ rels \subseteq Edges /\ dropped \subseteq Edges
    /\ log \subseteq Row /\ rows \in 0..MaxRows
    /\ DOMAIN iMap \subseteq Vertices /\ DOMAIN oMap \subseteq Slots
    /\ \A v \in DOMAIN iMap : iMap[v] \in Slots
    /\ \A s \in DOMAIN oMap : oMap[s] \in Vertices
    /\ alloc \subseteq Slots
    /\ rc \in [Slots -> Int] /\ (~lost => \A s \in Slots : rc[s] >= 0)
    /\ out \in [Slots -> [Slots -> Nat]]
    /\ tasks \in Seq(Task) /\ Len(tasks) <= MaxTasks
    /\ lost \in BOOLEAN

Init ==
    /\ ents = {} /\ rels = {} /\ dropped = {} /\ used = {}
    /\ log = {} /\ rows = 0
    /\ iMap = [v \in {Root} |-> RootSlot]
    /\ oMap = [s \in {RootSlot} |-> Root]
    /\ alloc = {RootSlot}
    /\ rc = Nowhere
    /\ out = [s \in Slots |-> Nowhere]
    /\ tasks = <<>>
    /\ lost = FALSE

-----------------------------------------------------------------------------
(* Clients of the catalog.                                                  *)

Write(op, e) ==
    /\ rows < MaxRows
    /\ rows' = rows + 1
    /\ log' = log \cup {[id |-> rows + 1, op |-> op, edge |-> e, due |-> FALSE]}

\* INSERT of a root entity, or INSERT of a referential relation from a reachable
\* entity to a reachable one or to one created in the same transaction.  A row
\* that is dropped still holds the primary key.
Refer(e) ==
    /\ e \in Schema \ (rels \cup dropped)
    /\ e[1] \in Live
    /\ \/ e[2] \in Live /\ e[1] # Root
       \/ e[2] \notin used
    /\ Write("add", e)
    /\ ents' = ents \cup {e[2]}
    /\ used' = used \cup {e[2]}
    /\ rels' = rels \cup {e}
    /\ UNCHANGED <<dropped, mapVars, engineVars, tasks, lost>>

\* DELETE of a relation sets delete_time on the row and logs it.
DropRel(e) ==
    /\ e \in rels /\ e[1] # Root
    /\ DropsInOrder => e[1] \in Live
    /\ Write("drop", e)
    /\ rels' = rels \ {e}
    /\ dropped' = dropped \cup {e}
    /\ UNCHANGED <<ents, used, mapVars, engineVars, tasks, lost>>

\* DELETE of a root entity logs the root reference; nothing in the catalog
\* records that it is gone, so it can be deleted again.
DropRoot(e) ==
    /\ e[1] = Root /\ e[2] \in ents
    /\ e \in rels \/ RepeatDrops
    /\ Write("drop", e)
    /\ rels' = rels \ {e}
    /\ UNCHANGED <<ents, dropped, used, mapVars, engineVars, tasks, lost>>

Client == \E e \in Schema : Refer(e) \/ DropRel(e) \/ DropRoot(e)

-----------------------------------------------------------------------------
(* The ingestor.                                                            *)

\* Rows without a retention: adds, and drops of root references (NOW()).
AtOnce(r) == r.op = "add" \/ r.edge[1] = Root

\* What an ingest may read: what earlier ones could, and with a row everything
\* before it, except for drops whose retention is longer.
Cuts ==
    {R \in SUBSET log :
        /\ \A r \in log : r.due => r \in R
        /\ \A r \in R, q \in log :
             (q.id < r.id /\ (AtOnce(q) \/ DropsInOrder)) => q \in R}

NewTask(R) ==
    [phase |-> "store", rows |-> R, fresh |-> {}, hit |-> {}, lists |-> {}, dead |-> {}]

Ingest ==
    /\ Len(tasks) < MaxTasks
    /\ \A i \in DOMAIN tasks : Stage[tasks[i].phase] > QuietStage
    /\ \E R \in Cuts \ {{}} :
         LET read == {[r EXCEPT !.due = TRUE] : r \in R}
         IN  /\ log' = (log \ R) \cup read
             /\ tasks' = Append(tasks, NewTask(read))
    /\ UNCHANGED <<catalogVars, rows, mapVars, engineVars, lost>>

-----------------------------------------------------------------------------
(* The stages.                                                              *)

\* It is task i's turn in phase p: the pool of its stage is done with the others.
Turn(i, p) ==
    /\ i \in DOMAIN tasks
    /\ tasks[i].phase = p
    /\ \A j \in 1..(i - 1) : Stage[tasks[j].phase] > Stage[p]

Pass(i, p) == tasks' = [tasks EXCEPT ![i].phase = p]

\* pipeGCTask of a task that is no longer valid, or the end of the last stage.
Finish(i) == tasks' = RemoveAt(tasks, i)

Added(i) == {r \in tasks[i].rows : r.op = "add"}
Removed(i) == {r \in tasks[i].rows : r.op = "drop"}
Ends(R) == UNION {{r.edge[1], r.edge[2]} : r \in R}

\* The vertices among the ends of added references that have no slot yet.
FreshAlways(i) == Ends(Added(i))    \* mutant: i_vertex_map_ is not consulted
FreshSources(i) ==                  \* mutant: dest_ is not looked up
    {r.edge[1] : r \in Added(i)} \ DOMAIN iMap
Fresh(i) == Ends(Added(i)) \ DOMAIN iMap

\* updateGraphStore, in the ingestor: the rows become durable, and the vertices
\* that are missing from the vertex map are noted.
Store(i) ==
    /\ Turn(i, "store")
    /\ tasks' = [tasks EXCEPT ![i].phase = "clear", ![i].fresh = Fresh(i)]
    /\ UNCHANGED <<catalogVars, log, rows, mapVars, engineVars, lost>>

\* Stage 1, clearCatalogEdges.
Clear(i) ==
    /\ Turn(i, "clear")
    /\ log' = log \ tasks[i].rows
    /\ Pass(i, "maps")
    /\ UNCHANGED <<catalogVars, rows, mapVars, engineVars, lost>>

\* Stage 2, updateVertexMaps: a free slot for every vertex noted, whether it has
\* one by now or not; a slot is handed out with its count and edges reset.
Maps(i) ==
    /\ Turn(i, "maps")
    /\ LET fresh == tasks[i].fresh IN
       \E pos \in Injection(fresh, Slots \ alloc) :
         LET taken == Range(pos) IN
         /\ alloc' = alloc \cup taken
         /\ rc' = [s \in Slots |-> IF s \in taken THEN 0 ELSE rc[s]]
         /\ out' = [s \in Slots |-> IF s \in taken THEN Nowhere ELSE out[s]]
         /\ iMap' = [v \in DOMAIN iMap \cup fresh |-> IF v \in fresh THEN pos[v] ELSE iMap[v]]
         /\ oMap' = [s \in DOMAIN oMap \cup taken |->
                       IF s \in taken THEN CHOOSE v \in fresh : pos[v] = s ELSE oMap[s]]
    /\ Pass(i, "adds")
    /\ UNCHANGED <<catalogVars, log, rows, lost>>

\* Stage 3, applyAddEdges.  An end without a slot leaves src or dest
\* uninitialized: any slot may be hit.
Adds(i) ==
    /\ Turn(i, "adds")
    /\ \E pos \in [Ends(Added(i)) -> Slots] :
         /\ \A v \in DOMAIN pos \cap DOMAIN iMap : pos[v] = iMap[v]
         /\ LET new(s, t) == {r \in Added(i) : pos[r.edge[1]] = s /\ pos[r.edge[2]] = t}
            IN  /\ out' = [s \in Slots |-> [t \in Slots |-> out[s][t] + Cardinality(new(s, t))]]
                /\ rc' = [t \in Slots |->
                            rc[t] + Cardinality({r \in Added(i) : pos[r.edge[2]] = t})]
    /\ Pass(i, "deletes")
    /\ UNCHANGED <<catalogVars, log, rows, mapVars, alloc, lost>>

\* How many of a task's dropped references between two slots are found: both
\* ends need a slot, and the edge list of the source an entry.
Asked(i, s, t) ==
    Cardinality({r \in Removed(i) : /\ {r.edge[1], r.edge[2]} \subseteq DOMAIN iMap
                                    /\ iMap[r.edge[1]] = s /\ iMap[r.edge[2]] = t})
FoundAll(i, s, t) == Asked(i, s, t)    \* mutant: remove's result is ignored
Found(i, s, t) == IF Asked(i, s, t) < out[s][t] THEN Asked(i, s, t) ELSE out[s][t]

\* The allocated slots whose count goes from 1 to 0 on the way to rc - less.
ZeroedAny(less) == {t \in alloc : less[t] > 0}        \* mutant: any decrement
ZeroedBelow(less) == {t \in alloc : less[t] > rc[t]}  \* mutant: off by one
Zeroed(less) == {t \in alloc : rc[t] > 0 /\ less[t] >= rc[t]}

\* Stage 3, applyDeleteEdges: a slot that loses its last reference is hit.
Deletes(i) ==
    /\ Turn(i, "deletes")
    /\ LET less == [t \in Slots |-> SumFunction([s \in Slots |-> Found(i, s, t)])]
       IN  /\ out' = [s \in Slots |-> [t \in Slots |-> out[s][t] - Found(i, s, t)]]
           /\ rc' = [t \in Slots |-> IF t \in alloc THEN rc[t] - less[t] ELSE rc[t]]
           /\ tasks' = [tasks EXCEPT ![i].phase = "init", ![i].hit = Zeroed(less)]
    /\ UNCHANGED <<catalogVars, log, rows, mapVars, alloc, lost>>

\* The entities o_vertex_map_ has for a set of slots.
Owners(slots) == {oMap[s] : s \in slots \cap DOMAIN oMap}

\* execRC takes slots out of the engine: their edge lists join the lists to be
\* processed, each with its source, and the entities they stand for are unreachable.
ActiveNone(slots, lists) == lists    \* mutant: the edge lists are not followed
Active(slots, lists) ==
    lists \cup {<<Owners({s}), out[s]>> : s \in {s \in slots : out[s] # Nowhere}}

Take(i, slots, lists) ==
    LET active == Active(slots, lists)
    IN  /\ alloc' = alloc \ slots
        /\ out' = [s \in Slots |-> IF s \in slots THEN Nowhere ELSE out[s]]
        /\ tasks' = [tasks EXCEPT
             ![i].phase = IF active = {} THEN "sources" ELSE "cascade",
             ![i].lists = active,
             ![i].dead = @ \cup Owners(slots)]

\* Stage 4, execRC: first the slots that were hit and are still allocated ...
Start(i) ==
    /\ Turn(i, "init")
    /\ LET slots == tasks[i].hit \cap alloc
       IN  /\ Take(i, slots, {})
           /\ rc' = [s \in Slots |-> IF s \in slots THEN 0 ELSE rc[s]]
    /\ UNCHANGED <<catalogVars, log, rows, mapVars, lost>>

\* ... then, list by list, their neighbours, of which those that lose their last
\* reference follow.
Cascade(i) ==
    /\ Turn(i, "cascade")
    /\ \E list \in tasks[i].lists :
         LET less == list[2]
             slots == Zeroed(less)
         IN  /\ Take(i, slots, tasks[i].lists \ {list})
             /\ rc' = [t \in Slots |-> IF t \in slots THEN 0
                                       ELSE IF t \in alloc THEN rc[t] - less[t] ELSE rc[t]]
    /\ UNCHANGED <<catalogVars, log, rows, mapVars, lost>>

Without(edges, dead, k) == {e \in edges : e[1] = Root \/ e[k] \notin dead}

\* Stage 5, rcCommit: the rows of the rel tables with an unreachable source go,
\* then those with an unreachable destination, then the entities.
DeleteSources(i) ==
    /\ Turn(i, "sources")
    /\ rels' = Without(rels, tasks[i].dead, 1)
    /\ dropped' = Without(dropped, tasks[i].dead, 1)
    /\ Pass(i, "dests")
    /\ UNCHANGED <<ents, used, log, rows, mapVars, engineVars, lost>>

SkipDests(i) ==    \* mutant: dropped references to what goes are left behind
    /\ Turn(i, "dests")
    /\ Pass(i, "ents")
    /\ UNCHANGED <<catalogVars, log, rows, mapVars, engineVars, lost>>

DeleteDests(i) ==
    /\ Turn(i, "dests")
    /\ rels' = Without(rels, tasks[i].dead, 2)
    /\ dropped' = Without(dropped, tasks[i].dead, 2)
    /\ Pass(i, "ents")
    /\ UNCHANGED <<ents, used, log, rows, mapVars, engineVars, lost>>

DeleteEnts(i) ==
    /\ Turn(i, "ents")
    /\ ents' = ents \ tasks[i].dead
    /\ Pass(i, "post")
    /\ UNCHANGED <<rels, dropped, used, log, rows, mapVars, engineVars, lost>>

\* Stage 6, postRCCommit: the vertex maps forget the unreachable vertices.
Post(i) ==
    /\ Turn(i, "post")
    /\ LET gone == tasks[i].dead \cap DOMAIN iMap
           stale == {s \in DOMAIN oMap : oMap[s] \in gone /\ iMap[oMap[s]] = s}
       IN  /\ iMap' = Restrict(iMap, DOMAIN iMap \ gone)
           /\ oMap' = Restrict(oMap, DOMAIN oMap \ stale)
    /\ Finish(i)
    /\ UNCHANGED <<catalogVars, log, rows, engineVars, lost>>

\* A statement of stage 1 or 5 is given up (execPGCommand returns false) and
\* pipeGCTask drops the task.  A statement that was carried out and whose answer
\* is lost matters in stage 1 only: elsewhere the next one fails as well.
Fail(i) ==
    /\ \E p \in MayFail : Turn(i, p)
    /\ \/ tasks[i].phase = "clear" /\ UNCHANGED <<log, lost>>
       \/ tasks[i].phase # "clear" /\ lost' = TRUE /\ UNCHANGED log
       \/ /\ "unacknowledged" \in MayFail /\ tasks[i].phase = "clear"
          /\ log' = log \ tasks[i].rows
          /\ lost' = TRUE
    /\ Finish(i)
    /\ UNCHANGED <<catalogVars, rows, mapVars, engineVars>>

Stages(i) ==
    \/ Store(i) \/ Clear(i) \/ Maps(i) \/ Adds(i) \/ Deletes(i)
    \/ Start(i) \/ Cascade(i)
    \/ DeleteSources(i) \/ DeleteDests(i) \/ DeleteEnts(i) \/ Post(i)

Next == Client \/ Ingest \/ (\E i \in 1..MaxTasks : Stages(i) \/ Fail(i))

Spec == Init /\ [][Next]_vars

\* The ingestor polls for ever, the thread of every pool runs what is posted to
\* it, and the catalog answers again and again; clients owe nothing.
Fairness ==
    /\ WF_vars(Ingest)
    /\ WF_vars(\E i \in 1..MaxTasks : Stages(i))
    /\ SF_vars(\E i \in 1..MaxTasks : Clear(i))

FairSpec == Spec /\ Fairness

-----------------------------------------------------------------------------
(* Properties.                                                              *)

\* execRC never finds an entity unreachable that a client can still reach, over
\* references in force or over dropped ones whose retention runs, and rcCommit
\* never takes one from the catalog, as long as no failure has cut the engine
\* off from what the catalog holds.
NothingLiveCollected ==
    ~lost =>
        /\ \A i \in DOMAIN tasks : tasks[i].dead \cap Catalog!InUse = {}
        /\ Catalog!InUse \subseteq ents \cup {Root}

\* The count of an allocated slot is "the number of references to the vertex"
\* (gcgraph.h:21): the entries for it in the edge lists of the engine and in the
\* lists execRC has yet to process.  (A failure that cuts the engine off from the
\* catalog may leave stale entries in the vertex maps, and then miscounts.)
RefCountsAreReferences ==
    ~lost => \A t \in alloc :
        rc[t] = SumFunction([s \in Slots |-> out[s][t]])
                + SumFunction([i \in DOMAIN tasks |->
                      SumFunction([list \in tasks[i].lists |-> list[2][t]])])

\* An allocated slot stands for one vertex, and that vertex has no other slot:
\* otherwise its references are counted in two places.
MapsAgree ==
    \A s \in alloc :
        s \in DOMAIN oMap /\ oMap[s] \in DOMAIN iMap /\ iMap[oMap[s]] = s

\* applyAddEdges finds a slot for both ends of every reference it adds.
EndsHaveSlots ==
    \A i \in DOMAIN tasks :
        Turn(i, "adds") => Ends(Added(i)) \subseteq DOMAIN iMap

\* When all that clients have written is through the pipeline, nothing leaks:
\* the catalog, the vertex maps and the engine hold what is reachable, no more.
ExactAtRest ==
    (log = {} /\ tasks = <<>> /\ ~lost) =>
        /\ ents = Live \ {Root}
        /\ DOMAIN iMap = Live
        /\ alloc = Range(iMap)

\* The pipeline implements the promise of CatalogGC.
ImplementsCatalogGC == Catalog!Spec

\* What becomes unreachable is deleted from the catalog eventually.
EventuallyCollected ==
    \A v \in Vertices : (v \in ents /\ v \notin Live) ~> v \notin ents
=============================================================================
