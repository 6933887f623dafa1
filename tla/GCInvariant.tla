---------------------------- MODULE GCInvariant ----------------------------
(***************************************************************************)
(* Why the collector is right: the inductive invariant of GCPipeline.      *)
(*                                                                         *)
(* The engine lags behind the catalog.  What it holds is a graph K, and    *)
(* what is still to reach it is a set U of operations: the rows of the log *)
(* and those of the tasks that are not applied yet.  K with every part of  *)
(* U the engine may apply first (a cut) is a graph it may come to hold; a  *)
(* vertex none of these graphs reaches is cut off, and stays so whatever   *)
(* clients do.  Everything the collector takes is cut off, and nothing a   *)
(* client reaches is.                                                      *)
(***************************************************************************)
EXTENDS GCPipeline

-----------------------------------------------------------------------------
(* The vertex maps.                                                         *)

\* The tasks are records, whatever their fields hold.
TaskOf(any) ==
    [phase : Phases, rows : any, fresh : any, hit : any, lists : any, dead : any]
TasksShaped == \E any : tasks \in Seq(TaskOf(any))

\* Only the youngest task may be short of stage 3: the vertices it found missing
\* are still missing when stage 2 gives them slots.
Early == {"store", "clear", "maps"}
InTurn == \A i \in 1..(Len(tasks) - 1) : tasks[i].phase \notin Early

FreshHaveNoSlot ==
    \A i \in DOMAIN tasks : tasks[i].phase \in {"clear", "maps"} =>
        tasks[i].fresh \cap DOMAIN iMap = {}

\* What execRC has taken keeps its entry in i_vertex_map_ until stage 6 of the
\* same task, and no other task has taken it.
DeadHaveEntries == \A i \in DOMAIN tasks : tasks[i].dead \subseteq DOMAIN iMap
DeadOnce == \A i, j \in DOMAIN tasks : i # j => tasks[i].dead \cap tasks[j].dead = {}
DeadHaveNoSlot ==
    \A i \in DOMAIN tasks : \A s \in alloc : oMap[s] \notin tasks[i].dead

DeadInv == DeadHaveEntries /\ DeadOnce /\ DeadHaveNoSlot
MapsInv == TasksShaped /\ InTurn /\ FreshHaveNoSlot /\ DeadInv /\ MapsAgree

-----------------------------------------------------------------------------
(* Histories: a graph K, and a set U of operations that are still to come.  *)

Reach(edges) == Catalog!Reach(edges)

Operation == [id : Nat, op : {"add", "drop"}, edge : Schema]

AddsOf(c) == {r.edge : r \in {r \in c : r.op = "add"}}
DropsOf(c) == {r.edge : r \in {r \in c : r.op = "drop"}}
Graph(K, c) == (K \cup AddsOf(c)) \ DropsOf(c)

\* A part of the operations, with all adds that are older than one of them.
Cut(c, U) ==
    /\ c \subseteq U
    /\ \A r \in c, q \in U : q.op = "add" /\ q.id < r.id => q \in c

\* Vertices that were created before the operations outside of c.
Known(O, c) == O \cup {e[2] : e \in AddsOf(c)}

\* What exists and is not reachable is not reachable later.
Monotone(K, U, O) ==
    \A c, d \in SUBSET U : Cut(c, U) /\ Cut(d, U) /\ c \subseteq d =>
        Reach(Graph(K, d)) \cap Known(O, c) \subseteq Reach(Graph(K, c))

CutOff(v, K, U) == \A c \in SUBSET U : Cut(c, U) => v \notin Reach(Graph(K, c))

\* All that is older than r and adds is in c, and nothing younger that drops.
Around(r, c, U) ==
    /\ \A q \in c : q.op = "drop" => q.id < r.id
    /\ \A q \in U : q.op = "add" /\ q.id < r.id => q \in c

\* Clients refer from what they reach, and drop what they reach.
SourcedBy(r, K, c, inOrder) ==
    /\ r.op = "add" => r.edge[1] \in Reach(Graph(K, c))
    /\ r.op = "drop" /\ inOrder => {r.edge[1], r.edge[2]} \subseteq Reach(Graph(K, c))
Sourced(K, U, inOrder) ==
    \A r \in U, c \in SUBSET U : Cut(c, U) /\ Around(r, c, U) => SourcedBy(r, K, c, inOrder)

\* An edge is added once and dropped after that; only the root's are dropped again.
UniqueTo(r, K, U) ==
    \A q \in U :
        /\ r.id = q.id => r = q
        /\ r.op = "add" => r.edge \notin K
        /\ r.op = "add" /\ q.op = "add" /\ r.edge = q.edge => r = q
        /\ r.op = "add" /\ q.op = "drop" /\ r.edge = q.edge => r.id < q.id
        /\ r.op = "drop" /\ q.op = "drop" /\ r.edge = q.edge /\ r.edge[1] # Root => r = q
Unique(K, U) == \A r \in U : UniqueTo(r, K, U)

-----------------------------------------------------------------------------
(* The state as a history.                                                  *)

\* A row without the mark of the ingestor.
Op(r) == [id |-> r.id, op |-> r.op, edge |-> r.edge]
Ops(R) == {Op(r) : r \in R}

\* The rows of a task that left the log and are not applied to the engine yet.
Waiting(task) ==
    {r \in task.rows : \/ task.phase \in {"maps", "adds"}
                       \/ task.phase = "deletes" /\ r.op = "drop"}
PendingRows == log \cup UNION {Waiting(tasks[i]) : i \in DOMAIN tasks}
Pending == Ops(PendingRows)

\* The references the engine holds.
Held(names, slots, edges) ==
    {<<names[p[1]], names[p[2]]>> : p \in {p \in slots \X slots : edges[p[1]][p[2]] > 0}}
Kept == Held(oMap, alloc, out)

Dead == UNION {tasks[i].dead : i \in DOMAIN tasks}
Lists == UNION {tasks[i].lists : i \in DOMAIN tasks}
HitBy(task) == IF task.phase = "init" THEN task.hit ELSE {}
Hits == UNION {HitBy(tasks[i]) : i \in DOMAIN tasks}

\* The vertices that were referred to once: those counted, hit or taken.
Old == {oMap[s] : s \in {s \in alloc : rc[s] > 0 \/ s \in Hits}} \cup Dead

InOrder == DropsInOrder /\ ~RepeatDrops
Ordered == QuietStage \in 2..6 /\ (QuietStage = 6 \/ InOrder)
-----------------------------------------------------------------------------
(* What holds whatever fails.                                               *)

Spans(e, us) == e \in Schema /\ e[1] \in us \cup {Root} /\ e[2] \in us \cup {Root}
Fits(r, n, us) == r \in Row /\ r.id <= n /\ Spans(r.edge, us)

Types ==
    /\ ents \subseteq used /\ used \subseteq Vertices \ {Root}
    /\ rows \in 0..MaxRows
    /\ DOMAIN iMap \subseteq used \cup {Root} /\ DOMAIN oMap \subseteq Slots
    /\ \A v \in DOMAIN iMap : iMap[v] \in Slots
    /\ \A s \in DOMAIN oMap : oMap[s] \in Vertices
    /\ alloc \subseteq Slots
    /\ rc \in [Slots -> Int] /\ out \in [Slots -> [Slots -> Nat]]
    /\ tasks \in Seq(Task) /\ Len(tasks) <= MaxTasks
    /\ lost \in BOOLEAN
    /\ \A e \in rels \cup dropped : Spans(e, used)

LogFits ==
    /\ IsFiniteSet(log)
    /\ \A r \in log : Fits(r, rows, used)
    /\ \A r \in log : \A q \in log : r.id = q.id => r = q

Unread == {"store", "clear"}
Unapplied == {"store", "clear", "maps", "adds", "deletes"}

TaskFits(task, n, us) ==
    /\ IsFiniteSet(task.rows) /\ IsFiniteSet(task.lists)
    /\ \A r \in task.rows : Fits(r, n, us) /\ r.due
    /\ \A r \in task.rows : \A q \in task.rows : r.id = q.id => r = q
    /\ task.fresh \subseteq us \cup {Root}
    /\ task.phase # "cascade" => task.lists = {}
    /\ task.phase \in Unapplied => task.dead = {} /\ task.hit = {}

\* Rows stay in the log until stage 1; what an ingest left in it is younger.
ReadFrom(task, L) ==
    /\ task.phase \in Unread => task.rows \subseteq L
    /\ task.phase \notin Unread => \A r \in task.rows, q \in L : r.id # q.id
    /\ \A r \in task.rows, q \in L :
         AtOnce(q) \/ DropsInOrder => q \in task.rows \/ r.id < q.id

Before(one, other) ==
    /\ \A r \in one.rows, q \in other.rows : r.id < q.id
    /\ other.phase = "cascade" => Stage[one.phase] > 4

TasksFit ==
    /\ QuietStage = 6 => Len(tasks) <= 1
    /\ \A i \in DOMAIN tasks : TaskFits(tasks[i], rows, used) /\ ReadFrom(tasks[i], log)
    /\ \A i, j \in DOMAIN tasks : i < j => Before(tasks[i], tasks[j])

Basic == Types /\ LogFits /\ TasksFit
-----------------------------------------------------------------------------
(* What holds as long as nothing is lost.                                   *)

HistInv ==
    /\ Monotone(Kept, Pending, Old)
    /\ Sourced(Kept, Pending, InOrder)
    /\ Unique(Kept, Pending)

\* The catalog is what the engine holds and the operations add and drop, but for
\* what is cut off: K and U as above, with the references in force, those on file
\* and the vertices that are gone or taken.
Backed(e, K, U) == e \in K \cup AddsOf(U) \/ CutOff(e[1], K, U)
OnFile(e, file, K, U) == e \in file \/ CutOff(e[1], K, U) \/ CutOff(e[2], K, U)
Reflects(force, file, gone, K, U) ==
    /\ force \cap DropsOf(U) = {}
    /\ \A e \in force : Backed(e, K, U)
    /\ \A e \in DropsOf(U) : e[1] # Root => Backed(e, K, U)
    /\ \A e \in K \cup AddsOf(U) \cup DropsOf(U) : e[1] # Root => OnFile(e, file, K, U)
    /\ \A v \in gone : CutOff(v, K, U)

CatInv == Reflects(rels, rels \cup dropped, (used \ ents) \cup Dead, Kept, Pending)

EndsFound ==
    \A i \in DOMAIN tasks :
        /\ tasks[i].phase \in {"clear", "maps"} =>
             Ends(Added(i)) \subseteq DOMAIN iMap \cup tasks[i].fresh
        /\ tasks[i].phase = "adds" => Ends(Added(i)) \subseteq DOMAIN iMap

\* The entries for a slot in edge lists, and in the lists execRC has yet to process.
Sum(f, D) == SumFunctionOnSet(f, D)
ColumnOf(edges, t) == Sum([s \in Slots |-> edges[s][t]], Slots)
Column(t) == ColumnOf(out, t)
InLists(t, lists) == Sum([list \in lists |-> list[2][t]], lists)

Current(v) == iMap[v] \in alloc /\ oMap[iMap[v]] = v

EngMaps ==
    /\ RootSlot \in alloc /\ oMap[RootSlot] = Root
    /\ \A v \in DOMAIN iMap : Current(v) \/ v \in Dead
EngOut ==
    /\ \A s, t \in Slots : out[s][t] \in {0, 1}
    /\ \A s, t \in Slots : out[s][t] > 0 =>
         s \in alloc /\ t \in alloc /\ <<oMap[s], oMap[t]>> \in Schema
EngLists ==
    \A i \in DOMAIN tasks : \A list \in tasks[i].lists :
        /\ \E v \in tasks[i].dead : list[1] = {v}
        /\ \A t \in Slots : list[2][t] > 0 => t \in alloc
EngHits ==
    /\ \A s \in Hits : s \in alloc /\ rc[s] = 0 /\ s # RootSlot
    /\ \A i, j \in DOMAIN tasks : i # j => HitBy(tasks[i]) \cap HitBy(tasks[j]) = {}
EngCounts ==
    /\ rc[RootSlot] = 0
    /\ \A s \in Slots : s \notin alloc => rc[s] = 0
    /\ \A t \in alloc : rc[t] = Column(t) + InLists(t, Lists)

EngInv == EngMaps /\ EngOut /\ EngLists /\ EngHits /\ EngCounts

Whole == HistInv /\ CatInv /\ EngInv
Deep == (~lost => Whole) /\ (QuietStage = 6 \/ ~lost => EndsFound)

\* The inductive invariant: the maps, the shape of the state, and its history.
IInv == MapsInv /\ Basic /\ Deep

-----------------------------------------------------------------------------
(* What stage 5 leaves in the catalog.                                      *)

\* No row of a rel table names an entity that is gone, and stage 5 deletes an
\* entity only when it has deleted every row that names it.
Rows == rels \cup dropped
Committed(task, edges) ==
    /\ task.phase \in {"dests", "ents", "post"} => \A e \in edges : e[1] \notin task.dead
    /\ task.phase \in {"ents", "post"} => \A e \in edges : e[2] \notin task.dead
Tidy ==
    /\ \A e \in Rows : e[1] \in ents \cup {Root} /\ e[2] \in ents \cup {Root}
    /\ \A e \in dropped : e[1] # Root
    /\ \A i \in DOMAIN tasks : Committed(tasks[i], Rows)

-----------------------------------------------------------------------------
(* What leaks would be.                                                     *)

\* A slot that counts nothing was hit, or is about to be referred to.
Awaited(s) ==
    \E i \in DOMAIN tasks : tasks[i].phase = "adds" /\ \E r \in Added(i) : r.edge[2] = oMap[s]
ZeroesGo == \A s \in alloc : rc[s] = 0 => s = RootSlot \/ s \in Hits \/ Awaited(s)

\* What the engine holds, or will, is in force, unless it is dropped or cut off.
InForce(force, K, U) ==
    \A e \in K \cup AddsOf(U) : e \in force \cup DropsOf(U) \/ CutOff(e[1], K, U)

\* An entity of the catalog has a slot, or will have one, or was taken.
Tracked(v) ==
    \/ v \in Dead
    \/ \E s \in alloc : oMap[s] = v
    \/ \E e \in AddsOf(Pending) : e[2] = v
EntsTracked == \A v \in ents : Tracked(v)
GoneAreGone == \A i \in DOMAIN tasks : tasks[i].phase = "post" => tasks[i].dead \cap ents = {}

\* Stage 2 gives slots to ends of references the task adds only.
FreshAreEnds ==
    \A i \in DOMAIN tasks : tasks[i].phase \in {"clear", "maps"} =>
        tasks[i].fresh \subseteq Ends(Added(i))

Exact ==
    /\ ZeroesGo /\ InForce(rels, Kept, Pending) /\ EntsTracked
    /\ GoneAreGone /\ FreshAreEnds

\* No entity refers to itself over others: ALTER RELATIONSHIP refuses references
\* that close a cycle of entity types (createsCycle, transcontext.cpp:158).
Acyclic == \E rank \in [Vertices -> Nat] : \A e \in Schema : rank[e[1]] < rank[e[2]]
=============================================================================
