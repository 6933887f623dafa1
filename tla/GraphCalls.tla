---------------------------- MODULE GraphCalls ----------------------------
(***************************************************************************)
(* The calls of GCGraph: a thread of the pipeline posts one task for each  *)
(* of NumWorkers workers and waits until the last one has voted.  The      *)
(* counter, the mutex and the condition variable are on its stack.         *)
(*                                                                         *)
(* Stage 2 (updateVertexMaps) allocates vertices on pages of the engine    *)
(* while the workers of stage 4 (execRC) free others.  Pages with room are *)
(* in the queue free_pages_: they leave it when the allocator fills them   *)
(* and return when a worker makes room.  Stage 3 (updateGraphEngine) is a  *)
(* call with two rounds of votes.                                          *)
(***************************************************************************)
EXTENDS Integers, SequencesExt

CONSTANTS
    NumWorkers,     \* num_rc_workers_
    Capacity,       \* Page::capacity_
    MaxPages,       \* bound: pages of the engine
    MaxTasks,       \* bound: tasks of the pipeline
    MaxNew          \* bound: vertices a task allocates

ASSUME GraphCallsOK ==
    /\ NumWorkers \in Nat \ {0} /\ Capacity \in Nat \ {0}
    /\ MaxPages \in Nat \ {0} /\ MaxTasks \in Nat /\ MaxNew \in Nat

Stages == {"maps", "edges", "rc"}
Workers == 0..(NumWorkers - 1)
Pages == 0..(MaxPages - 1)
NoPage == -1
Vertices == 0..(MaxPages * Capacity - 1)
PageOf(v) == v \div Capacity

VARIABLES
    alloc,      \* vertices with V_ALLOC_TRUE
    numPages,   \* graph_engine_.size()
    freePages,  \* free_pages_
    live,       \* vertices the maps name and no task is about to free
    passed,     \* passed[c]: how many tasks went through stage c
    at,         \* at[c]: where the thread of stage c is
    need,       \* stage 2: the vertices it has yet to allocate,
    got,        \* those it has, and
    page,       \* cur_page or the new page, while it is in no queue
    votes,      \* votes[c]: "counter" or "buffer", what the workers vote with
    count,      \* count[c]: rc_counter, or the size of the reduce buffer
    asleep,     \* asleep[c]: the thread is blocked in cv.wait
    job,        \* job[c][w]: what worker w has to do next
    todo,       \* todo[c][w]: the vertices it has yet to free
    hand        \* hand[c][w]: the page it has yet to push

pageVars == <<alloc, numPages, freePages, live>>
allocVars == <<need, got, page>>
callVars == <<passed, at, votes, count, asleep, job, todo, hand>>
vars == <<pageVars, allocVars, callVars>>

TypeOK ==
    /\ numPages \in 0..MaxPages
    /\ alloc \subseteq 0..(numPages * Capacity - 1)
    /\ freePages \in Seq(0..(numPages - 1))
    /\ live \subseteq alloc /\ got \subseteq alloc
    /\ passed \in [Stages -> 0..MaxTasks]
    /\ at \in [Stages -> {"idle", "pop", "fill", "push", "grow", "fork", "wait"}]
    /\ need \in 0..MaxNew /\ page \in Pages \cup {NoPage}
    /\ votes \in [Stages -> {"counter", "buffer"}]
    /\ count \in [Stages -> 0..(NumWorkers + 1)]
    /\ asleep \in [Stages -> BOOLEAN]
    /\ job \in [Stages -> [Workers -> {"none", "work", "push", "lock", "notify"}]]
    /\ todo \in [Stages -> [Workers -> SUBSET alloc]]
    /\ hand \in [Stages -> [Workers -> Pages \cup {NoPage}]]

NoWork == [w \in Workers |-> {}]
NoJobs == [w \in Workers |-> "none"]

\* The constructor allocates the vertex of the root.
Init ==
    /\ alloc = {0} /\ numPages = 1 /\ live = {}
    /\ freePages = IF 100 > 66 * Capacity THEN <<>> ELSE <<0>>
    /\ passed = [c \in Stages |-> 0]
    /\ at = [c \in Stages |-> "idle"]
    /\ need = 0 /\ got = {} /\ page = NoPage
    /\ votes = [c \in Stages |-> "counter"]
    /\ count = [c \in Stages |-> 0]
    /\ asleep = [c \in Stages |-> FALSE]
    /\ job = [c \in Stages |-> NoJobs]
    /\ todo = [c \in Stages |-> NoWork]
    /\ hand = [c \in Stages |-> [w \in Workers |-> NoPage]]

\* Page::filled: size_ / capacity_ > 0.66.
Filled(A, p) == 100 * Cardinality({v \in A : PageOf(v) = p}) > 66 * Capacity

-----------------------------------------------------------------------------
(* allocateVertices.                                                        *)

Goto(c, l) == at' = [at EXCEPT ![c] = l]

StartMaps ==
    /\ at["maps"] = "idle" /\ passed["maps"] < MaxTasks
    /\ need' \in 0..MaxNew
    /\ Goto("maps", IF need' = 0 THEN "fork" ELSE "pop")
    /\ UNCHANGED <<pageVars, got, page, passed, votes, count, asleep, job, todo, hand>>

Pop ==
    /\ at["maps"] = "pop"
    /\ IF freePages = <<>>
       THEN Goto("maps", "grow") /\ UNCHANGED <<freePages, page>>
       ELSE Goto("maps", "fill") /\ freePages' = Tail(freePages) /\ page' = Head(freePages)
    /\ UNCHANGED <<alloc, numPages, live, need, got,
                   passed, votes, count, asleep, job, todo, hand>>

\* How many vertices of a list come before v.
Rank(S, v) == Cardinality({u \in S : u < v})

\* The first n vertices on p that are not allocated, or all of them.
FirstAny(p, n) ==    \* mutant: V_ALLOC_TRUE is not looked at
    {v \in Vertices : PageOf(v) = p /\ v < p * Capacity + n}
FirstFree(p, n) ==
    LET free == {v \in Vertices : PageOf(v) = p /\ v \notin alloc}
    IN  {v \in free : Rank(free, v) < n}

\* Allocates on the page under its mutex.  A page that still has room is pushed back.
Fill ==
    /\ at["maps"] = "fill"
    /\ LET new == FirstFree(page, need)
           filled == Filled(alloc \cup new, page)
           rest == need - Cardinality(new)
       IN  /\ alloc' = alloc \cup new /\ got' = got \cup new /\ need' = rest
           /\ Goto("maps", IF ~filled THEN "push" ELSE IF rest > 0 THEN "pop" ELSE "fork")
           /\ page' = IF filled THEN NoPage ELSE page
    /\ UNCHANGED <<numPages, freePages, live,
                   passed, votes, count, asleep, job, todo, hand>>

NewPagesShort(n) == n \div Capacity     \* mutant: no page for the remainder
NewPages(n) == (n + Capacity - 1) \div Capacity

\* New pages, while no call that reads the vector of pages holds engine_mtx_.
Grow ==
    /\ at["maps"] = "grow" /\ at["edges"] # "wait" /\ at["rc"] # "wait"
    /\ LET n == numPages + NewPages(need)
           new == (numPages * Capacity)..(numPages * Capacity + need - 1)
           filled == Filled(alloc \cup new, n - 1)
       IN  /\ n <= MaxPages
           /\ numPages' = n
           /\ alloc' = alloc \cup new /\ got' = got \cup new
           /\ Goto("maps", IF filled THEN "fork" ELSE "push")
           /\ page' = IF filled THEN NoPage ELSE n - 1
    /\ need' = 0
    /\ UNCHANGED <<freePages, live, passed, votes, count, asleep, job, todo, hand>>

Push ==
    /\ at["maps"] = "push"
    /\ freePages' = Append(freePages, page) /\ page' = NoPage
    /\ Goto("maps", "fork")
    /\ UNCHANGED <<alloc, numPages, live, need, got,
                   passed, votes, count, asleep, job, todo, hand>>

-----------------------------------------------------------------------------
(* Calls: fork and join.                                                    *)

Round(c, kind, work) ==
    /\ votes' = [votes EXCEPT ![c] = kind]
    /\ count' = [count EXCEPT ![c] = 0]
    /\ job' = [job EXCEPT ![c] = [w \in Workers |-> "work"]]
    /\ todo' = [todo EXCEPT ![c] = work]

ForkMaps ==
    /\ at["maps"] = "fork"
    /\ Goto("maps", "wait") /\ Round("maps", "counter", NoWork)
    /\ UNCHANGED <<pageVars, allocVars, passed, asleep, hand>>

StartEdges ==
    /\ at["edges"] = "idle" /\ passed["edges"] < passed["maps"]
    /\ Goto("edges", "wait") /\ Round("edges", "counter", NoWork)
    /\ UNCHANGED <<pageVars, allocVars, passed, asleep, hand>>

\* The part of n items that worker i takes: those from [1] to below [2].
partitionRange(n, i) ==
    LET base == n \div NumWorkers
        remainder == n % NumWorkers
        first == i * base + (IF i < remainder THEN i ELSE remainder)
    IN  IF i >= n THEN <<0, 0>>
        ELSE IF NumWorkers >= n THEN <<i, i + 1>>
        ELSE <<first, first + base + (IF i < remainder THEN 1 ELSE 0)>>

\* The vertices worker w takes from the list of D in ascending order.
Share(D, w) ==
    LET range == partitionRange(Cardinality(D), w)
    IN  {v \in D : Rank(D, v) \in range[1]..(range[2] - 1)}

\* The references are gone from any set of vertices.
StartRC ==
    /\ at["rc"] = "idle" /\ passed["rc"] < passed["edges"]
    /\ \E D \in SUBSET live :
         /\ live' = live \ D
         /\ Round("rc", "buffer", [w \in Workers |-> Share(D, w)])
    /\ Goto("rc", "wait")
    /\ UNCHANGED <<alloc, numPages, freePages, allocVars, passed, asleep, hand>>

Ready1(c) == count[c] >= NumWorkers     \* mutant: the second vote is not waited for
Ready(c) == IF votes[c] = "counter" THEN count[c] > NumWorkers ELSE count[c] >= NumWorkers

Sleep(c) ==
    /\ at[c] = "wait" /\ ~asleep[c] /\ ~Ready(c)
    /\ asleep' = [asleep EXCEPT ![c] = TRUE]
    /\ UNCHANGED <<pageVars, allocVars, passed, at, votes, count, job, todo, hand>>

\* cv.wait returns.  Stage 3 has another round to start, the others are done.
Join(c) ==
    /\ at[c] = "wait" /\ ~asleep[c] /\ Ready(c)
    /\ job' = [job EXCEPT ![c] = NoJobs]
    /\ IF c = "edges" /\ votes[c] = "counter"
       THEN Goto(c, "fork") /\ UNCHANGED passed
       ELSE Goto(c, "idle") /\ passed' = [passed EXCEPT ![c] = @ + 1]
    /\ IF c = "maps" THEN live' = live \cup got /\ got' = {} ELSE UNCHANGED <<live, got>>
    /\ UNCHANGED <<alloc, numPages, freePages, need, page, votes, count, asleep, todo, hand>>

\* Between the rounds engine_mtx_ is free.
SecondRound ==
    /\ at["edges"] = "fork"
    /\ Goto("edges", "wait") /\ Round("edges", "buffer", NoWork)
    /\ UNCHANGED <<pageVars, allocVars, passed, asleep, hand>>

-----------------------------------------------------------------------------
(* Workers.                                                                 *)

DoNext(c, w, j) == job' = [job EXCEPT ![c][w] = j]

CrossedBelow(A, B, p) == ~Filled(B, p)      \* mutant: whether it was filled is not asked
Crossed(A, B, p) == Filled(A, p) /\ ~Filled(B, p)

\* Frees the next vertex under the mutex of its page.
Free(c, w) ==
    /\ job[c][w] = "work" /\ todo[c][w] # {}
    /\ LET v == CHOOSE v \in todo[c][w] : \A u \in todo[c][w] : v <= u
           crossed == Crossed(alloc, alloc \ {v}, PageOf(v))
       IN  /\ alloc' = alloc \ {v}
           /\ todo' = [todo EXCEPT ![c][w] = @ \ {v}]
           /\ DoNext(c, w, IF crossed THEN "push" ELSE "work")
           /\ hand' = [hand EXCEPT ![c][w] = IF crossed THEN PageOf(v) ELSE NoPage]
    /\ UNCHANGED <<numPages, freePages, live, allocVars, passed, at, votes, count, asleep>>

PushFreed(c, w) ==
    /\ job[c][w] = "push"
    /\ freePages' = Append(freePages, hand[c][w])
    /\ hand' = [hand EXCEPT ![c][w] = NoPage]
    /\ DoNext(c, w, "work")
    /\ UNCHANGED <<alloc, numPages, live, allocVars,
                   passed, at, votes, count, asleep, todo>>

\* A push to the reduce buffer, or the fetch_add without the mutex.
Vote(c, w) ==
    /\ job[c][w] = "work" /\ todo[c][w] = {}
    /\ count' = [count EXCEPT ![c] = @ + 1]
    /\ DoNext(c, w, IF count[c] < NumWorkers - 1 THEN "none"
                    ELSE IF votes[c] = "counter" THEN "lock" ELSE "notify")
    /\ UNCHANGED <<pageVars, allocVars, passed, at, votes, asleep, todo, hand>>

Counted(n) == n     \* mutant: no second fetch_add
Once(n) == n + 1

\* The last worker adds one more with the mutex held.
Lock(c, w) ==
    /\ job[c][w] = "lock"
    /\ count' = [count EXCEPT ![c] = Once(@)]
    /\ DoNext(c, w, "notify")
    /\ UNCHANGED <<pageVars, allocVars, passed, at, votes, asleep, todo, hand>>

Notify(c, w) ==
    /\ job[c][w] = "notify"
    /\ asleep' = [asleep EXCEPT ![c] = FALSE]
    /\ DoNext(c, w, "none")
    /\ UNCHANGED <<pageVars, allocVars, passed, at, votes, count, todo, hand>>

\* Spuriously, or by a worker of a call that is over: its notification may come when
\* the condition variable is gone, or is that of another call in the same place.
WakeUp(c) ==
    /\ asleep[c]
    /\ asleep' = [asleep EXCEPT ![c] = FALSE]
    /\ UNCHANGED <<pageVars, allocVars, passed, at, votes, count, job, todo, hand>>

Allocator == StartMaps \/ Pop \/ Fill \/ Grow \/ Push \/ ForkMaps
Worker(c, w) ==
    Free(c, w) \/ PushFreed(c, w) \/ Vote(c, w) \/ Lock(c, w) \/ Notify(c, w)

Next ==
    \/ Allocator \/ StartEdges \/ SecondRound \/ StartRC
    \/ \E c \in Stages : Sleep(c) \/ Join(c) \/ WakeUp(c)
    \/ \E c \in Stages, w \in Workers : Worker(c, w)

\* The pools run what is posted to them; a thread whose predicate holds is woken by
\* a notification only, and then goes on.
Fairness ==
    /\ WF_vars(Allocator) /\ WF_vars(SecondRound)
    /\ \A c \in Stages : WF_vars(Join(c)) /\ \A w \in Workers : WF_vars(Worker(c, w))

Spec == Init /\ [][Next]_vars /\ Fairness

-----------------------------------------------------------------------------
(* Properties.                                                              *)

\* A page with room is in the queue, or on its way there, exactly once; a page
\* without is not: a page that is lost is never used again, and one that is there
\* twice would be handed out while it is being filled.
RoomIsQueuedOnce ==
    \A p \in 0..(numPages - 1) :
        Cardinality({k \in DOMAIN freePages : freePages[k] = p})
          + (IF page = p THEN 1 ELSE 0)
          + Cardinality({x \in Stages \X Workers : hand[x[1]][x[2]] = p})
        = IF Filled(alloc, p) THEN 0 ELSE 1

\* A vertex id belongs to the root, to the task it is allocated for, to the maps or
\* to the one worker that is to free it, and to no two of them.
VertexHasOneOwner ==
    LET owners(v) == (IF v = 0 THEN 1 ELSE 0) + (IF v \in live THEN 1 ELSE 0)
                     + (IF v \in got THEN 1 ELSE 0)
                     + Cardinality({x \in Stages \X Workers : v \in todo[x[1]][x[2]]})
    IN  \A v \in Vertices : owners(v) = IF v \in alloc THEN 1 ELSE 0

\* When a call goes on, none of its workers will touch the counter or the mutex on
\* its stack again, and all work is done: at most the notification comes late.
JoinsComeLast ==
    [][\A c \in Stages : at[c] = "wait" /\ at'[c] # "wait" =>
         \A w \in Workers : job[c][w] \in {"none", "notify"} /\ todo[c][w] = {}]_vars

\* No notification is lost: every call returns.
EveryCallReturns == \A c \in Stages : at[c] = "wait" ~> at[c] = "idle"
=============================================================================
