-------------------------- MODULE GraphCallsProofs --------------------------
(***************************************************************************)
(* Proofs about GraphCalls, for any number of workers, pages and tasks:    *)
(* when the thread of a stage goes on, its workers are through with what   *)
(* is on its stack (CallInv); pages with room are queued once (RoomInv)    *)
(* and vertices have one owner (OwnerInv) while stages 2 and 4 overlap.    *)
(*                                                                         *)
(* The argument for calls counts: the votes and the workers at work add up *)
(* to the number of workers, and the one vote more comes from the last of  *)
(* them when nobody else is at work.  That for pages is that a page has no *)
(* room exactly while it is nowhere; it gets room in the step in which a   *)
(* worker takes it in hand.  partitionRange gives every vertex to one      *)
(* worker.                                                                 *)
(***************************************************************************)
EXTENDS GraphCalls, FiniteSetTheorems, WellFoundedInduction, TLAPS

\* The workers that have not voted, and the one that is about to take the mutex.
Busy(c) == {w \in Workers : job[c][w] \in {"work", "push"}}
Locking(c) == {w \in Workers : job[c][w] = "lock"}

CallTypes ==
    /\ votes \in [Stages -> {"counter", "buffer"}]
    /\ at \in [Stages -> {"idle", "pop", "fill", "push", "grow", "fork", "wait"}]
    /\ count \in [Stages -> Nat]
    /\ job \in [Stages -> [Workers -> {"none", "work", "push", "lock", "notify"}]]
    /\ DOMAIN todo = Stages /\ \A c \in Stages : DOMAIN todo[c] = Workers

\* The call c while its thread waits, and while there is none.
Counting(c) == count[c] + Cardinality(Busy(c)) = NumWorkers /\ Locking(c) = {}
LastOne(c) ==
    /\ votes[c] = "counter" /\ Busy(c) = {}
    /\ \/ count[c] = NumWorkers /\ \E w \in Workers : Locking(c) = {w}
       \/ count[c] = NumWorkers + 1 /\ Locking(c) = {}
Waiting(c) == Counting(c) \/ LastOne(c)
Over(c) == Busy(c) = {} /\ Locking(c) = {}

CallInv ==
    /\ CallTypes
    /\ \A c \in Stages : IF at[c] = "wait" THEN Waiting(c) ELSE Over(c)
    /\ \A c \in Stages, w \in Workers : todo[c][w] # {} => w \in Busy(c)

LEMMA WorkersCount == IsFiniteSet(Workers) /\ Cardinality(Workers) = NumWorkers
  BY FS_Interval, GraphCallsOK DEF Workers

LEMMA BusyCount ==
  ASSUME NEW c
  PROVE  /\ IsFiniteSet(Busy(c)) /\ Cardinality(Busy(c)) \in Nat
         /\ Cardinality(Busy(c)) = 0 <=> Busy(c) = {}
         /\ \A w \in Busy(c) : Cardinality(Busy(c) \ {w}) = Cardinality(Busy(c)) - 1
<1>1. IsFiniteSet(Busy(c))
  BY WorkersCount, FS_Subset DEF Busy
<1> QED BY <1>1, FS_CardinalityType, FS_EmptySet, FS_RemoveElement

LEMMA BusyEmpty ==
  ASSUME NEW c, NEW w, Cardinality(Busy(c) \ {w}) = 0
  PROVE  Busy(c) \ {w} = {}
<1>1. IsFiniteSet(Busy(c) \ {w})
  BY BusyCount, FS_Subset
<1> QED BY <1>1, FS_EmptySet

LEMMA InitCallInv == Init => CallInv
<1> SUFFICES ASSUME Init PROVE CallInv
  OBVIOUS
<1>1. CallTypes
  BY DEF Init, CallTypes, NoWork, NoJobs
<1>2. \A c \in Stages : at[c] # "wait" /\ Over(c)
  BY DEF Init, Over, Busy, Locking, NoJobs
<1>3. \A c \in Stages, w \in Workers : todo[c][w] = {}
  BY DEF Init, NoWork
<1> QED BY <1>1, <1>2, <1>3 DEF CallInv

\* A call whose jobs, votes and place stay.
LEMMA SameCall ==
  ASSUME CallInv, CallTypes', NEW c \in Stages,
         UNCHANGED <<job[c], todo[c], count[c], votes[c]>>,
         at'[c] = at[c] \/ (at[c] # "wait" /\ at'[c] # "wait")
  PROVE  /\ IF at'[c] = "wait" THEN Waiting(c)' ELSE Over(c)'
         /\ \A w \in Workers : todo'[c][w] # {} => w \in Busy(c)'
<1>1. Busy(c)' = Busy(c) /\ Locking(c)' = Locking(c)
  BY DEF Busy, Locking
<1>2. Waiting(c)' <=> Waiting(c)
  BY <1>1 DEF Waiting, Counting, LastOne
<1>3. Over(c)' <=> Over(c)
  BY <1>1 DEF Over
<1> QED BY <1>1, <1>2, <1>3 DEF CallInv

\* A round of votes begins.
LEMMA RoundStarts ==
  ASSUME CallTypes', NEW c \in Stages, at'[c] = "wait", count'[c] = 0,
         job'[c] = [w \in Workers |-> "work"]
  PROVE  /\ IF at'[c] = "wait" THEN Waiting(c)' ELSE Over(c)'
         /\ \A w \in Workers : todo'[c][w] # {} => w \in Busy(c)'
<1>1. Busy(c)' = Workers /\ Locking(c)' = {}
  BY DEF Busy, Locking
<1>2. Counting(c)'
  BY <1>1, WorkersCount, GraphCallsOK DEF Counting
<1> QED BY <1>1, <1>2 DEF Waiting

\* A step of one call is no step of another.
LEMMA OneCall ==
  ASSUME CallInv, CallTypes', NEW c \in Stages,
         \A d \in Stages \ {c} : UNCHANGED <<job[d], todo[d], count[d], votes[d], at[d]>>,
         IF at'[c] = "wait" THEN Waiting(c)' ELSE Over(c)',
         \A w \in Workers : todo'[c][w] # {} => w \in Busy(c)'
  PROVE  CallInv'
  BY SameCall DEF CallInv

LEMMA AllocatorCallInv ==
  ASSUME CallInv, StartMaps \/ Pop \/ Fill \/ Grow \/ Push
  PROVE  CallInv'
<1>1. /\ UNCHANGED <<job, todo, count, votes>> /\ at["maps"] # "wait"
      /\ \E l \in {"pop", "fill", "push", "grow", "fork"} : at' = [at EXCEPT !["maps"] = l]
  BY DEF StartMaps, Pop, Fill, Grow, Push, Goto
<1>2. CallTypes'
  BY <1>1 DEF CallInv, CallTypes
<1>3. \A c \in Stages : at'[c] = at[c] \/ (at[c] # "wait" /\ at'[c] # "wait")
  BY <1>1 DEF CallInv, CallTypes
<1> QED BY <1>1, <1>2, <1>3, SameCall DEF CallInv

LEMMA ForkCallInv ==
  ASSUME CallInv, ForkMaps \/ StartEdges \/ SecondRound \/ StartRC
  PROVE  CallInv'
<1>1. PICK c \in Stages, kind \in {"counter", "buffer"} :
        /\ at' = [at EXCEPT ![c] = "wait"]
        /\ \E work : Round(c, kind, work) /\ DOMAIN work = Workers
  <2>1. CASE ForkMaps
    BY <2>1 DEF ForkMaps, Goto, NoWork, Stages
  <2>2. CASE StartEdges
    BY <2>2 DEF StartEdges, Goto, NoWork, Stages
  <2>3. CASE SecondRound
    BY <2>3 DEF SecondRound, Goto, NoWork, Stages
  <2>4. CASE StartRC
    <3>1. PICK D : Round("rc", "buffer", [w \in Workers |-> Share(D, w)])
      BY <2>4 DEF StartRC
    <3> QED BY <2>4, <3>1 DEF StartRC, Goto, Stages
  <2> QED BY <2>1, <2>2, <2>3, <2>4
<1>2. PICK work : Round(c, kind, work) /\ DOMAIN work = Workers
  BY <1>1
<1>3. CallTypes'
  BY <1>1, <1>2 DEF CallInv, CallTypes, Round
<1>4. at'[c] = "wait" /\ count'[c] = 0 /\ job'[c] = [w \in Workers |-> "work"]
  BY <1>1, <1>2 DEF CallInv, CallTypes, Round
<1>5. \A d \in Stages \ {c} : UNCHANGED <<job[d], todo[d], count[d], votes[d], at[d]>>
  BY <1>1, <1>2 DEF CallInv, CallTypes, Round
<1> QED BY <1>3, <1>4, <1>5, RoundStarts, OneCall

LEMMA PauseCallInv ==
  ASSUME CallInv, UNCHANGED <<job, todo, count, votes, at>>
  PROVE  CallInv'
<1>1. CallTypes'
  BY DEF CallInv, CallTypes
<1> QED BY <1>1, SameCall DEF CallInv

\* What a thread finds whose wait returns: everybody has voted, and the last of the
\* workers is done with the mutex.
LEMMA ReadyMeansOver ==
  ASSUME CallInv, NEW c \in Stages, at[c] = "wait", Ready(c)
  PROVE  Over(c) /\ \A w \in Workers : job[c][w] \in {"none", "notify"} /\ todo[c][w] = {}
<1>1. count[c] \in Nat /\ NumWorkers \in Nat /\ votes[c] \in {"counter", "buffer"}
      /\ \A w \in Workers : job[c][w] \in {"none", "work", "push", "lock", "notify"}
  BY GraphCallsOK DEF CallInv, CallTypes
<1>2. Over(c)
  <2>1. CASE Counting(c)
    <3>1. Cardinality(Busy(c)) = 0
      BY <1>1, <2>1, BusyCount DEF Counting, Ready
    <3> QED BY <2>1, <3>1, BusyCount DEF Counting, Over
  <2>2. CASE LastOne(c)
    BY <1>1, <2>2 DEF LastOne, Ready, Over
  <2> QED BY <2>1, <2>2 DEF CallInv, Waiting
<1>3. \A w \in Workers : job[c][w] \in {"none", "notify"}
  BY <1>1, <1>2 DEF Over, Busy, Locking
<1> QED BY <1>2, <1>3 DEF CallInv, Over

LEMMA JoinCallInv ==
  ASSUME CallInv, NEW c \in Stages, Join(c)
  PROVE  CallInv'
<1>1. Over(c) /\ at[c] = "wait" /\ \A w \in Workers : todo[c][w] = {}
  BY ReadyMeansOver DEF Join
<1>2. /\ at' = [at EXCEPT ![c] = "idle"] \/ at' = [at EXCEPT ![c] = "fork"]
      /\ job' = [job EXCEPT ![c] = NoJobs] /\ UNCHANGED <<votes, count, todo>>
  BY DEF Join, Goto
<1>3. CallTypes'
  BY <1>2 DEF CallInv, CallTypes, NoJobs
<1>4. at'[c] # "wait" /\ Over(c)'
  BY <1>2 DEF CallInv, CallTypes, Over, Busy, Locking, NoJobs
<1>5. \A d \in Stages \ {c} : UNCHANGED <<job[d], todo[d], count[d], votes[d], at[d]>>
  BY <1>2 DEF CallInv, CallTypes
<1> QED BY <1>1, <1>2, <1>3, <1>4, <1>5, OneCall

-----------------------------------------------------------------------------
(* Workers.                                                                 *)

\* A worker that has something to do is in a call.
LEMMA InCall ==
  ASSUME CallInv, NEW c \in Stages, NEW w \in Workers, job[c][w] \in {"work", "push", "lock"}
  PROVE  at[c] = "wait" /\ Waiting(c)
  BY DEF CallInv, Over, Busy, Locking

LEMMA WorkCallInv ==
  ASSUME CallInv, NEW c \in Stages, NEW w \in Workers, Free(c, w) \/ PushFreed(c, w)
  PROVE  CallInv'
<1>1. PICK j \in {"work", "push"} : job' = [job EXCEPT ![c][w] = j]
  BY DEF Free, PushFreed, DoNext
<1>2. job[c][w] \in {"work", "push"} /\ UNCHANGED <<at, votes, count>>
  BY DEF Free, PushFreed
<1>3. /\ DOMAIN todo' = Stages /\ \A d \in Stages : DOMAIN todo'[d] = Workers
      /\ \A d \in Stages, x \in Workers : d # c \/ x # w => todo'[d][x] = todo[d][x]
      /\ \A d \in Stages \ {c} : todo'[d] = todo[d]
  <2>1. CASE Free(c, w)
    BY <2>1 DEF Free, CallInv, CallTypes
  <2>2. CASE PushFreed(c, w)
    BY <2>2 DEF PushFreed, CallInv, CallTypes
  <2> QED BY <2>1, <2>2
<1>4. CallTypes'
  BY <1>1, <1>2, <1>3 DEF CallInv, CallTypes
<1>5. Busy(c)' = Busy(c) /\ Locking(c)' = Locking(c) /\ w \in Busy(c)
  BY <1>1, <1>2 DEF CallInv, CallTypes, Busy, Locking
<1>6. \A d \in Stages \ {c} : UNCHANGED <<job[d], todo[d], count[d], votes[d], at[d]>>
  BY <1>1, <1>2, <1>3 DEF CallInv, CallTypes
<1>7. at'[c] = "wait" /\ Waiting(c)'
  BY <1>2, <1>5, InCall DEF Waiting, Counting, LastOne
<1>8. \A x \in Workers : todo'[c][x] # {} => x \in Busy(c)'
  BY <1>3, <1>5 DEF CallInv, CallTypes
<1> QED BY <1>4, <1>6, <1>7, <1>8, OneCall

LEMMA VoteCallInv ==
  ASSUME CallInv, NEW c \in Stages, NEW w \in Workers, Vote(c, w)
  PROVE  CallInv'
<1> DEFINE j == IF count[c] < NumWorkers - 1 THEN "none"
                ELSE IF votes[c] = "counter" THEN "lock" ELSE "notify"
           B == Busy(c)
<1>1. /\ job[c][w] = "work" /\ todo[c][w] = {}
      /\ count' = [count EXCEPT ![c] = @ + 1] /\ job' = [job EXCEPT ![c][w] = j]
      /\ UNCHANGED <<at, votes, todo>>
  BY DEF Vote, DoNext
<1>2. CallTypes'
  BY <1>1 DEF CallInv, CallTypes
<1>3. \A d \in Stages \ {c} : UNCHANGED <<job[d], todo[d], count[d], votes[d], at[d]>>
  BY <1>1 DEF CallInv, CallTypes
<1>4. w \in B /\ Busy(c)' = B \ {w}
  BY <1>1 DEF CallInv, CallTypes, Busy
<1>5. at[c] = "wait" /\ Counting(c)
  BY <1>1, <1>4, InCall DEF Waiting, LastOne
<1>6. Locking(c)' = IF j = "lock" THEN {w} ELSE {}
  BY <1>1, <1>5 DEF CallInv, CallTypes, Locking, Counting
<1>7. /\ count[c] \in Nat /\ NumWorkers \in Nat /\ Cardinality(B) \in Nat
      /\ Cardinality(B \ {w}) = Cardinality(B) - 1 /\ count[c] + Cardinality(B) = NumWorkers
      /\ Cardinality(B \ {w}) \in Nat
  <2>1. Cardinality(B) \in Nat /\ Cardinality(B) # 0
        /\ Cardinality(B \ {w}) = Cardinality(B) - 1
    BY <1>4, BusyCount
  <2>2. count[c] \in Nat /\ NumWorkers \in Nat
    BY GraphCallsOK DEF CallInv, CallTypes
  <2>3. count[c] + Cardinality(B) = NumWorkers
    BY <1>5 DEF Counting
  <2> HIDE DEF B
  <2> QED BY <2>1, <2>2, <2>3
<1>8. Cardinality(Busy(c)') = Cardinality(B \ {w}) /\ count'[c] = count[c] + 1
  BY <1>1, <1>4 DEF CallInv, CallTypes
<1> HIDE DEF B
<1>9. Waiting(c)'
  <2>1. CASE j # "lock"
    BY <1>6, <1>7, <1>8, <2>1 DEF Waiting, Counting
  <2>2. CASE j = "lock"
    <3>1. count[c] = NumWorkers - 1 /\ Cardinality(B \ {w}) = 0 /\ votes[c] = "counter"
      BY <1>7, <2>2
    <3>2. Busy(c)' = {}
      BY <3>1, <1>4, <1>7, <1>8, BusyEmpty DEF B
    <3> QED BY <1>1, <1>6, <1>7, <1>8, <2>2, <3>1, <3>2 DEF Waiting, LastOne
  <2> QED BY <2>1, <2>2
<1>10. \A x \in Workers : todo'[c][x] # {} => x \in Busy(c)'
  BY <1>1, <1>4 DEF CallInv, B
<1> QED BY <1>1, <1>2, <1>3, <1>5, <1>9, <1>10, OneCall

LEMMA LockCallInv ==
  ASSUME CallInv, NEW c \in Stages, NEW w \in Workers, Lock(c, w)
  PROVE  CallInv'
<1>1. /\ job[c][w] = "lock" /\ count' = [count EXCEPT ![c] = @ + 1]
      /\ job' = [job EXCEPT ![c][w] = "notify"] /\ UNCHANGED <<at, votes, todo>>
  BY DEF Lock, Once, DoNext
<1>2. CallTypes'
  BY <1>1 DEF CallInv, CallTypes
<1>3. \A d \in Stages \ {c} : UNCHANGED <<job[d], todo[d], count[d], votes[d], at[d]>>
  BY <1>1 DEF CallInv, CallTypes
<1>4. w \in Locking(c)
  BY <1>1 DEF Locking
<1>5. at[c] = "wait" /\ LastOne(c) /\ Locking(c) = {w} /\ count[c] = NumWorkers
  BY <1>1, <1>4, InCall DEF Waiting, Counting, LastOne
<1>6. Busy(c)' = {} /\ Locking(c)' = {}
  BY <1>1, <1>5 DEF CallInv, CallTypes, LastOne, Busy, Locking
<1>7. count'[c] = NumWorkers + 1 /\ votes'[c] = "counter"
  BY <1>1, <1>5 DEF CallInv, CallTypes, LastOne
<1>8. \A x \in Workers : todo'[c][x] # {} => x \in Busy(c)'
  BY <1>1, <1>5 DEF CallInv, LastOne
<1> QED BY <1>1, <1>2, <1>3, <1>5, <1>6, <1>7, <1>8, OneCall DEF Waiting, LastOne

LEMMA NotifyCallInv ==
  ASSUME CallInv, NEW c \in Stages, NEW w \in Workers, Notify(c, w)
  PROVE  CallInv'
<1>1. /\ job[c][w] = "notify" /\ job' = [job EXCEPT ![c][w] = "none"]
      /\ UNCHANGED <<at, votes, count, todo>>
  BY DEF Notify, DoNext
<1>2. CallTypes'
  BY <1>1 DEF CallInv, CallTypes
<1>3. \A d \in Stages \ {c} : UNCHANGED <<job[d], todo[d], count[d], votes[d], at[d]>>
  BY <1>1 DEF CallInv, CallTypes
<1>4. Busy(c)' = Busy(c) /\ Locking(c)' = Locking(c)
  BY <1>1 DEF CallInv, CallTypes, Busy, Locking
<1>5. IF at'[c] = "wait" THEN Waiting(c)' ELSE Over(c)'
  BY <1>1, <1>4 DEF CallInv, Waiting, Counting, LastOne, Over
<1>6. \A x \in Workers : todo'[c][x] # {} => x \in Busy(c)'
  BY <1>1, <1>4 DEF CallInv
<1> QED BY <1>2, <1>3, <1>5, <1>6, OneCall

LEMMA StepCallInv == CallInv /\ [Next]_vars => CallInv'
<1> SUFFICES ASSUME CallInv, [Next]_vars PROVE CallInv'
  OBVIOUS
<1>1. CASE UNCHANGED vars
  BY <1>1, PauseCallInv DEF vars, callVars
<1>2. CASE Allocator
  BY <1>2, AllocatorCallInv, ForkCallInv DEF Allocator
<1>3. CASE StartEdges \/ SecondRound \/ StartRC
  BY <1>3, ForkCallInv
<1>4. ASSUME NEW c \in Stages, Sleep(c) \/ WakeUp(c) PROVE CallInv'
  BY <1>4, PauseCallInv DEF Sleep, WakeUp
<1>5. ASSUME NEW c \in Stages, NEW w \in Workers, Worker(c, w) PROVE CallInv'
  BY <1>5, WorkCallInv, VoteCallInv, LockCallInv, NotifyCallInv DEF Worker
<1> QED BY <1>1, <1>2, <1>3, <1>4, <1>5, JoinCallInv DEF Next

\* A thread stops waiting in Join only.
LEMMA OnlyJoinLeaves ==
  ASSUME CallInv, [Next]_vars, NEW c \in Stages, at[c] = "wait", at'[c] # "wait"
  PROVE  Join(c)
<1>1. ~UNCHANGED at
  OBVIOUS
<1>2. ~Allocator
  <2>1. ~(StartMaps \/ Pop \/ Fill \/ Grow \/ Push)
    <3> SUFFICES ASSUME StartMaps \/ Pop \/ Fill \/ Grow \/ Push PROVE FALSE
      OBVIOUS
    <3>1. at["maps"] # "wait" /\ \E l : at' = [at EXCEPT !["maps"] = l]
      BY DEF StartMaps, Pop, Fill, Grow, Push, Goto
    <3> QED BY <3>1 DEF CallInv, CallTypes
  <2>2. ~ForkMaps
    BY DEF ForkMaps, Goto, CallInv, CallTypes
  <2> QED BY <2>1, <2>2 DEF Allocator
<1>3. ~StartEdges /\ ~SecondRound /\ ~StartRC
  BY DEF StartEdges, SecondRound, StartRC, Goto, CallInv, CallTypes
<1>4. \A d \in Stages : ~Sleep(d) /\ ~WakeUp(d)
  BY <1>1 DEF Sleep, WakeUp
<1>5. \A d \in Stages, w \in Workers : ~Worker(d, w)
  BY <1>1 DEF Worker, Free, PushFreed, Vote, Lock, Notify
<1>6. ~UNCHANGED vars
  BY <1>1 DEF vars, callVars
<1>7. \A d \in Stages : Join(d) => d = c
  <2> SUFFICES ASSUME NEW d \in Stages, Join(d), d # c PROVE FALSE
    OBVIOUS
  <2>1. \E l : at' = [at EXCEPT ![d] = l]
    BY DEF Join, Goto
  <2> QED BY <2>1 DEF CallInv, CallTypes
<1> QED BY <1>2, <1>3, <1>4, <1>5, <1>6, <1>7 DEF Next

\* For any number of workers: a call that goes on has all its work done, and no worker
\* will take the mutex or touch the counter of its thread again.
THEOREM CallsJoinLast == Spec => JoinsComeLast
<1>1. CallInv /\ [Next]_vars =>
        [\A c \in Stages : at[c] = "wait" /\ at'[c] # "wait" =>
           \A w \in Workers : job[c][w] \in {"none", "notify"} /\ todo[c][w] = {}]_vars
  <2> SUFFICES ASSUME CallInv, [Next]_vars, NEW c \in Stages, at[c] = "wait", at'[c] # "wait"
               PROVE  \A w \in Workers : job[c][w] \in {"none", "notify"} /\ todo[c][w] = {}
    OBVIOUS
  <2>1. Join(c)
    BY OnlyJoinLeaves
  <2> QED BY <2>1, ReadyMeansOver DEF Join
<1> QED BY <1>1, InitCallInv, StepCallInv, PTL DEF Spec, JoinsComeLast

-----------------------------------------------------------------------------
(* Ranks, shares and pages.                                                 *)

LEMMA Least ==
  ASSUME NEW T, T \subseteq Nat, T # {}
  PROVE  \E x \in T : \A y \in T : x <= y
<1> DEFINE R == OpToRel(<, Nat)
<1> HIDE DEF R
<1>1. IsWellFoundedOn(R, Nat)
  BY NatLessThanWellFounded DEF R
<1>2. PICK x \in T : \A y \in T : ~ (<<y, x>> \in R)
  BY <1>1, WFMin
<1>3. ASSUME NEW y \in T PROVE x <= y
  <2>1. x \in Nat /\ y \in Nat /\ (<<y, x>> \in R <=> y < x)
    BY DEF OpToRel, R
  <2> QED BY <1>2, <2>1
<1> QED BY <1>3

\* The ranks of a finite set: 0 and up, one for each element.
LEMMA RankBelow ==
  ASSUME NEW S, S \subseteq Nat, IsFiniteSet(S), NEW v \in S
  PROVE  Rank(S, v) \in Nat /\ Rank(S, v) < Cardinality(S) /\ Cardinality(S) \in Nat
<1> DEFINE B == {u \in S : u < v}
<1>1. B \in SUBSET S /\ v \notin B
  OBVIOUS
<1>2. /\ IsFiniteSet(B) /\ Cardinality(B) <= Cardinality(S)
      /\ Cardinality(S) = Cardinality(B) => S = B
  BY <1>1, FS_Subset
<1>3. Cardinality(S) \in Nat /\ Cardinality(B) \in Nat
  BY <1>2, FS_CardinalityType
<1>4. Cardinality(B) < Cardinality(S)
  <2> HIDE DEF B
  <2> QED BY <1>1, <1>2, <1>3
<1> QED BY <1>3, <1>4 DEF Rank

LEMMA RankGrows ==
  ASSUME NEW S, S \subseteq Nat, IsFiniteSet(S), NEW u \in S, NEW v \in S, u < v
  PROVE  Rank(S, u) < Rank(S, v)
<1> DEFINE B == {x \in S : x < v}
<1>1. B \in SUBSET S /\ u \in B
  OBVIOUS
<1>2. B \subseteq Nat /\ IsFiniteSet(B)
  BY <1>1, FS_Subset
<1>3. Rank(B, u) < Cardinality(B)
  BY <1>1, <1>2, RankBelow
<1>4. {x \in B : x < u} = {x \in S : x < u}
  <2>1. \A x \in S : x < u => x < v
    <3>1. u \in Nat /\ v \in Nat /\ \A x \in S : x \in Nat
      OBVIOUS
    <3> QED BY <3>1
  <2> QED BY <2>1
<1> QED BY <1>3, <1>4 DEF Rank

LEMMA RankInjective ==
  ASSUME NEW S, S \subseteq Nat, IsFiniteSet(S), NEW u \in S, NEW v \in S, Rank(S, u) = Rank(S, v)
  PROVE  u = v
<1>1. Rank(S, u) \in Nat /\ Rank(S, v) \in Nat /\ u \in Nat /\ v \in Nat
  BY RankBelow
<1>2. u < v => Rank(S, u) < Rank(S, v)
  BY RankGrows
<1>3. v < u => Rank(S, v) < Rank(S, u)
  BY RankGrows
<1> QED BY <1>1, <1>2, <1>3

\* The first n of a set are n of them, or all.
LEMMA FirstOnes ==
  ASSUME NEW S, S \subseteq Nat, IsFiniteSet(S), NEW n \in Nat
  PROVE  LET F == {v \in S : Rank(S, v) < n}
         IN  /\ IsFiniteSet(F) /\ Cardinality(F) \in Nat /\ Cardinality(F) <= n
             /\ Cardinality(F) < n => F = S
<1> DEFINE F == {v \in S : Rank(S, v) < n}
<1>1. F \in SUBSET S
  OBVIOUS
<1>2. IsFiniteSet(F) /\ Cardinality(F) \in Nat
  BY <1>1, FS_Subset, FS_CardinalityType
<1>3. Cardinality(F) <= n
  <2> SUFFICES ASSUME n < Cardinality(F) PROVE FALSE
    BY <1>2
  <2> DEFINE r == [v \in F |-> Rank(S, v)]
  <2>1. r \in [F -> 0..(n - 1)]
    <3>1. ASSUME NEW v \in F PROVE Rank(S, v) \in 0..(n - 1)
      <4>1. Rank(S, v) \in Nat /\ Rank(S, v) < n
        BY RankBelow
      <4> QED BY <4>1
    <3> QED BY <3>1
  <2>2. IsFiniteSet(0..(n - 1)) /\ Cardinality(0..(n - 1)) = n
    <3>1. 0 \in Int /\ n - 1 \in Int
      OBVIOUS
    <3>2. IsFiniteSet(0..(n - 1)) /\ Cardinality(0..(n - 1)) = IF 0 > n - 1 THEN 0 ELSE (n - 1) - 0 + 1
      BY <3>1, FS_Interval
    <3> QED BY <3>2
  <2>3. \E u, v \in F : u # v /\ r[u] = r[v]
    <3> HIDE DEF F, r
    <3> QED BY <1>2, <2>1, <2>2, FS_PigeonHole
  <2> QED BY <2>3, RankInjective
<1>4. ASSUME Cardinality(F) < n PROVE F = S
  <2> SUFFICES ASSUME S \ F # {} PROVE FALSE
    BY <1>1
  <2>1. PICK v \in S \ F : \A u \in S \ F : v <= u
    BY Least
  <2> DEFINE B == {u \in S : u < v}
  <2>2. B \in SUBSET F
    <3> SUFFICES ASSUME NEW u \in B, u \notin F PROVE FALSE
      OBVIOUS
    <3>1. u \in Nat /\ v \in Nat /\ u < v /\ v <= u
      BY <2>1
    <3> QED BY <3>1
  <2>3. Cardinality(B) <= Cardinality(F) /\ Cardinality(B) \in Nat
    <3> HIDE DEF B, F
    <3> QED BY <1>2, <2>2, FS_Subset, FS_CardinalityType
  <2>4. Rank(S, v) < n
    <3> HIDE DEF F
    <3> QED BY <1>2, <1>4, <2>3 DEF Rank
  <2> QED BY <2>4
<1> QED BY <1>2, <1>3, <1>4

LEMMA Division ==
  ASSUME NEW a \in Nat, NEW b \in Nat \ {0}
  PROVE  /\ a \div b \in Nat /\ a % b \in Nat /\ a % b < b
         /\ a = (b * (a \div b)) + (a % b)
OBVIOUS

\* partitionRange: every position below n is in the part of exactly one worker.
LEMMA OneShare ==
  ASSUME NEW n \in Nat, NEW k \in Nat, k < n
  PROVE  /\ \E i \in Workers : k \in partitionRange(n, i)[1]..(partitionRange(n, i)[2] - 1)
         /\ \A i, j \in Workers :
              /\ k \in partitionRange(n, i)[1]..(partitionRange(n, i)[2] - 1)
              /\ k \in partitionRange(n, j)[1]..(partitionRange(n, j)[2] - 1)
              => i = j
<1>1. NumWorkers \in Nat /\ NumWorkers > 0 /\ \A i : i \in Workers <=> i \in Nat /\ i < NumWorkers
  BY GraphCallsOK DEF Workers
<1>2. CASE NumWorkers >= n
  <2>1. \A i \in Workers : k \in partitionRange(n, i)[1]..(partitionRange(n, i)[2] - 1) <=> i = k
    <3> SUFFICES ASSUME NEW i \in Workers
                 PROVE  k \in partitionRange(n, i)[1]..(partitionRange(n, i)[2] - 1) <=> i = k
      OBVIOUS
    <3>1. i \in Nat
      BY <1>1
    <3>2. CASE i >= n
      BY <3>1, <3>2 DEF partitionRange
    <3>3. CASE i < n
      <4>1. partitionRange(n, i) = <<i, i + 1>>
        BY <1>1, <1>2, <3>1, <3>3 DEF partitionRange
      <4> QED BY <3>1, <4>1
    <3> QED BY <3>1, <3>2, <3>3
  <2>2. k \in Workers
    BY <1>1, <1>2
  <2> QED BY <2>1, <2>2
<1>3. CASE NumWorkers < n
  <2> DEFINE base == n \div NumWorkers
             remainder == n % NumWorkers
             first(i) == i * base + (IF i < remainder THEN i ELSE remainder)
             In(i) == k \in partitionRange(n, i)[1]..(partitionRange(n, i)[2] - 1)
  <2>1. base \in Nat /\ remainder \in Nat /\ remainder < NumWorkers /\ n = (NumWorkers * base) + remainder
    BY <1>1, Division
  <2> HIDE DEF base, remainder
  <2>2. \A i \in Nat : first(i) \in Nat /\ first(i + 1) = first(i) + base + (IF i < remainder THEN 1 ELSE 0)
    BY <2>1
  <2>3. \A i \in Workers : In(i) <=> first(i) <= k /\ k < first(i + 1)
    <3> SUFFICES ASSUME NEW i \in Workers PROVE In(i) <=> first(i) <= k /\ k < first(i + 1)
      OBVIOUS
    <3>1. i \in Nat /\ ~ (i >= n) /\ ~ (NumWorkers >= n)
      BY <1>1, <1>3
    <3>2. partitionRange(n, i) = <<first(i), first(i) + base + (IF i < remainder THEN 1 ELSE 0)>>
      BY <3>1 DEF partitionRange, base, remainder
    <3>3. partitionRange(n, i)[1] = first(i) /\ partitionRange(n, i)[2] = first(i + 1)
      BY <2>2, <3>1, <3>2
    <3>4. first(i) \in Nat /\ first(i + 1) \in Nat
      BY <2>2, <3>1
    <3> HIDE DEF first
    <3> QED BY <3>3, <3>4
  <2>4. \A i, j \in Nat : i < j => first(i + 1) <= first(j)
    <3> SUFFICES ASSUME NEW i \in Nat, NEW j \in Nat, i < j PROVE first(i + 1) <= first(j)
      OBVIOUS
    <3>1. (i + 1) * base <= j * base
      <4>1. j = i + 1 + (j - i - 1) /\ j - i - 1 \in Nat
        OBVIOUS
      <4> QED BY <2>1, <4>1
    <3>2. (i + 1) * base \in Nat /\ j * base \in Nat
      BY <2>1
    <3> QED BY <2>1, <3>1, <3>2
  <2>5. first(0) = 0 /\ first(NumWorkers) = n
    BY <1>1, <2>1
  <2> HIDE DEF first
  <2>6. \A i, j \in Workers : In(i) /\ In(j) => i = j
    <3> SUFFICES ASSUME NEW i \in Workers, NEW j \in Workers, In(i), In(j), i < j PROVE FALSE
      BY <1>1
    <3>1. k < first(i + 1) /\ first(i + 1) <= first(j) /\ first(j) <= k
      BY <1>1, <2>3, <2>4
    <3>2. first(i + 1) \in Nat /\ first(j) \in Nat
      BY <1>1, <2>2
    <3> QED BY <3>1, <3>2
  <2>7. \E i \in Workers : In(i)
    <3> DEFINE T == {j \in Nat : k < first(j)}
    <3>1. NumWorkers \in T
      BY <1>1, <2>5
    <3>2. PICK j \in T : \A m \in T : j <= m
      BY <3>1, Least
    <3>3. j \in Nat /\ j <= NumWorkers /\ j # 0 /\ k < first(j)
      BY <2>5, <3>1, <3>2
    <3>4. j - 1 \in Nat /\ j - 1 \in Workers /\ j = (j - 1) + 1 /\ ~ (j <= j - 1)
      BY <1>1, <3>3
    <3>5. first(j - 1) <= k
      BY <2>2, <3>2, <3>4
    <3>6. k < first((j - 1) + 1)
      BY <3>3, <3>4
    <3> QED BY <2>3, <3>4, <3>5, <3>6
  <2> QED BY <2>6, <2>7
<1> QED BY <1>1, <1>2, <1>3

\* The workers of execRC share the vertices: each one goes to one of them.
LEMMA SharesPartition ==
  ASSUME NEW D, D \subseteq Nat, IsFiniteSet(D)
  PROVE  /\ \A w \in Workers : Share(D, w) \subseteq D
         /\ \A v \in D : \E w \in Workers : v \in Share(D, w)
         /\ \A v, w, x : w \in Workers /\ x \in Workers /\ v \in Share(D, w) /\ v \in Share(D, x) => w = x
<1> DEFINE n == Cardinality(D)
<1>1. n \in Nat /\ \A v \in D : Rank(D, v) \in Nat /\ Rank(D, v) < n
  BY RankBelow, FS_CardinalityType
<1>2. \A v, w : v \in Share(D, w) <=>
        v \in D /\ Rank(D, v) \in partitionRange(n, w)[1]..(partitionRange(n, w)[2] - 1)
  BY DEF Share
<1>3. \A w \in Workers : Share(D, w) \subseteq D
  BY <1>2
<1>4. ASSUME NEW v \in D PROVE \E w \in Workers : v \in Share(D, w)
  BY <1>1, <1>2, OneShare
<1>5. ASSUME NEW v, NEW w \in Workers, NEW x \in Workers, v \in Share(D, w), v \in Share(D, x)
      PROVE  w = x
  <2>1. v \in D
    BY <1>2, <1>5
  <2> QED BY <1>1, <1>2, <1>5, <2>1, OneShare
<1> QED BY <1>3, <1>4, <1>5

LEMMA PageBounds ==
  ASSUME NEW v \in Nat
  PROVE  /\ PageOf(v) \in Nat
         /\ \A p \in Nat : PageOf(v) = p <=> p * Capacity <= v /\ v < (p * Capacity) + Capacity
<1>1. Capacity \in Nat \ {0}
  BY GraphCallsOK
<1>2. /\ v \div Capacity \in Nat /\ (v \div Capacity) * Capacity <= v
      /\ v < ((v \div Capacity) * Capacity) + Capacity
  BY <1>1
<1>3. ASSUME NEW p \in Nat, p * Capacity <= v, v < (p * Capacity) + Capacity PROVE v \div Capacity = p
  BY <1>1, <1>3
<1> QED BY <1>2, <1>3 DEF PageOf

LEMMA Pages0 ==
  ASSUME NEW n \in Nat, NEW p \in Nat
  PROVE  /\ n * Capacity \in Nat /\ p * Capacity \in Nat
         /\ p < n => (p * Capacity) + Capacity <= n * Capacity
         /\ n <= p => n * Capacity <= p * Capacity
<1>1. Capacity \in Nat \ {0}
  BY GraphCallsOK
<1>2. p < n => n = p + 1 + (n - p - 1) /\ n - p - 1 \in Nat
  OBVIOUS
<1>3. n <= p => p = n + (p - n) /\ p - n \in Nat
  OBVIOUS
<1> QED BY <1>1, <1>2, <1>3

LEMMA FilledSame ==
  ASSUME NEW A, NEW B, NEW p, \A v : PageOf(v) = p => (v \in A <=> v \in B)
  PROVE  Filled(A, p) = Filled(B, p)
<1>1. {v \in A : PageOf(v) = p} = {v \in B : PageOf(v) = p}
  OBVIOUS
<1> QED BY <1>1 DEF Filled

LEMMA FilledGrows ==
  ASSUME NEW A, NEW B, IsFiniteSet(B), A \subseteq B, NEW p, Filled(A, p)
  PROVE  Filled(B, p)
<1> DEFINE a == {v \in A : PageOf(v) = p}
           b == {v \in B : PageOf(v) = p}
<1>1. b \in SUBSET B /\ a \in SUBSET b
  OBVIOUS
<1>2. IsFiniteSet(b) /\ Cardinality(b) \in Nat
  BY <1>1, FS_Subset, FS_CardinalityType
<1>3. Cardinality(a) <= Cardinality(b) /\ Cardinality(a) \in Nat
  <2> HIDE DEF a, b
  <2> QED BY <1>1, <1>2, FS_Subset, FS_CardinalityType
<1>4. 100 * Cardinality(a) > 66 * Capacity
  BY DEF Filled
<1>5. Capacity \in Nat
  BY GraphCallsOK
<1>6. 100 * Cardinality(b) > 66 * Capacity
  <2> HIDE DEF a, b
  <2> QED BY <1>2, <1>3, <1>4, <1>5
<1> QED BY <1>6 DEF Filled

\* A page all of whose vertices are allocated is filled.
LEMMA FullIsFilled ==
  ASSUME NEW A, A \subseteq Nat, NEW p \in Nat, (p * Capacity)..((p * Capacity) + Capacity - 1) \subseteq A
  PROVE  Filled(A, p)
<1> DEFINE a == {v \in A : PageOf(v) = p}
           lo == p * Capacity
           hi == (p * Capacity) + Capacity - 1
<1>1. Capacity \in Nat \ {0} /\ lo \in Nat /\ hi \in Int
  BY GraphCallsOK, Pages0
<1>2. a = lo..hi
  <2>1. ASSUME NEW v \in a PROVE v \in lo..hi
    <3>1. v \in Nat /\ lo <= v /\ v < lo + Capacity
      BY PageBounds
    <3>2. hi = lo + Capacity - 1
      OBVIOUS
    <3> HIDE DEF lo, hi
    <3> QED BY <1>1, <3>1, <3>2
  <2>2. ASSUME NEW v \in lo..hi PROVE v \in a
    <3>1. v \in A /\ v \in Nat /\ lo <= v /\ v < lo + Capacity
      BY <1>1
    <3> QED BY <3>1, PageBounds
  <2> QED BY <2>1, <2>2
<1>3. Cardinality(lo..hi) = Capacity
  <2>1. Cardinality(lo..hi) = IF lo > hi THEN 0 ELSE hi - lo + 1
    <3> HIDE DEF lo, hi
    <3> QED BY <1>1, FS_Interval
  <2> QED BY <1>1, <2>1
<1>4. 100 * Cardinality(a) > 66 * Capacity
  <2> HIDE DEF a, lo, hi
  <2>1. Cardinality(a) = Capacity
    BY <1>2, <1>3
  <2> QED BY <1>1, <2>1
<1> QED BY <1>4 DEF Filled

-----------------------------------------------------------------------------
(* The pages with room and the owners of the vertices.                      *)

RoomTypes ==
    /\ numPages \in Nat /\ numPages > 0 /\ numPages <= MaxPages
    /\ alloc \subseteq 0..(numPages * Capacity - 1)
    /\ freePages \in Seq(0..(numPages - 1))
    /\ page \in 0..(numPages - 1) \cup {NoPage}
    /\ hand \in [Stages -> [Workers -> 0..(numPages - 1) \cup {NoPage}]]
    /\ need \in 0..MaxNew

\* Where stage 2 is tells what it has in hand and what it still needs.
AllocInv ==
    /\ page # NoPage <=> at["maps"] \in {"fill", "push"}
    /\ at["maps"] \in {"pop", "fill", "grow"} => need > 0
    /\ at["maps"] \in {"push", "fork"} => need = 0
    /\ \A c \in Stages, w \in Workers : hand[c][w] # NoPage <=> job[c][w] = "push"

\* No page is in two places.
OnePlace ==
    /\ \A k, l \in DOMAIN freePages : freePages[k] = freePages[l] => k = l
    /\ \A k \in DOMAIN freePages : freePages[k] # page
    /\ \A k \in DOMAIN freePages, c \in Stages, w \in Workers : freePages[k] # hand[c][w]
    /\ \A c \in Stages, w \in Workers : hand[c][w] # NoPage => hand[c][w] # page
    /\ \A c, d \in Stages, w, x \in Workers :
         hand[c][w] # NoPage /\ hand[c][w] = hand[d][x] => c = d /\ w = x

Placed(p) ==
    \/ \E k \in DOMAIN freePages : freePages[k] = p
    \/ page = p
    \/ \E c \in Stages, w \in Workers : hand[c][w] = p

RoomIsPlaced == \A p \in 0..(numPages - 1) : Placed(p) <=> ~Filled(alloc, p)

RoomInv == RoomTypes /\ AllocInv /\ OnePlace /\ RoomIsPlaced

ToFree(v) == \E c \in Stages, w \in Workers : v \in todo[c][w]

OwnerInv ==
    /\ \A v : v \in alloc <=> v = 0 \/ v \in live \/ v \in got \/ ToFree(v)
    /\ 0 \notin live /\ 0 \notin got /\ ~ToFree(0)
    /\ live \cap got = {}
    /\ \A v : ToFree(v) => v \notin live /\ v \notin got
    /\ \A v : \A c, d \in Stages, w, x \in Workers :
         v \in todo[c][w] /\ v \in todo[d][x] => c = d /\ w = x

\* A task reaches a stage when the stage before is done with it.
Passing ==
    /\ passed \in [Stages -> Nat]
    /\ passed["maps"] <= MaxTasks /\ (at["maps"] # "idle" => passed["maps"] < MaxTasks)
    /\ passed["edges"] <= passed["maps"] /\ (at["edges"] # "idle" => passed["edges"] < passed["maps"])
    /\ passed["rc"] <= passed["edges"] /\ (at["rc"] # "idle" => passed["rc"] < passed["edges"])
    /\ asleep \in [Stages -> BOOLEAN]
    /\ \A c \in Stages : count[c] <= NumWorkers + 1

LEMMA AllocFinite ==
  ASSUME RoomTypes
  PROVE  IsFiniteSet(alloc) /\ alloc \subseteq Nat
<1>1. numPages * Capacity \in Nat
  BY Pages0 DEF RoomTypes
<1>2. numPages * Capacity - 1 \in Int /\ 0 \in Int
  BY <1>1
<1>3. IsFiniteSet(0..(numPages * Capacity - 1))
  BY <1>2, FS_Interval
<1>4. alloc \in SUBSET (0..(numPages * Capacity - 1))
  BY DEF RoomTypes
<1>5. IsFiniteSet(alloc)
  BY <1>3, <1>4, FS_Subset
<1>6. 0..(numPages * Capacity - 1) \subseteq Nat
  BY <1>2
<1> QED BY <1>4, <1>5, <1>6

LEMMA InitRoom == Init => RoomInv /\ OwnerInv /\ Passing
<1> SUFFICES ASSUME Init PROVE RoomInv /\ OwnerInv /\ Passing
  OBVIOUS
<1>1. Capacity \in Nat \ {0} /\ MaxPages \in Nat \ {0} /\ MaxNew \in Nat /\ MaxTasks \in Nat /\ NumWorkers \in Nat
  BY GraphCallsOK
<1>2. RoomTypes
  <2>1. numPages = 1 /\ numPages * Capacity = Capacity /\ alloc = {0}
    BY <1>1 DEF Init
  <2>2. 0 \in 0..(Capacity - 1) /\ 0 \in 0..(1 - 1) /\ 0 \in 0..MaxNew
    BY <1>1
  <2>3. alloc \subseteq 0..(numPages * Capacity - 1)
    BY <2>1, <2>2
  <2>4. freePages \in Seq(0..(numPages - 1))
    <3>1. <<>> \in Seq(0..(1 - 1)) /\ <<0>> \in Seq(0..(1 - 1))
      BY <2>2
    <3> QED BY <2>1, <3>1 DEF Init
  <2> QED BY <1>1, <2>1, <2>2, <2>3, <2>4 DEF Init, RoomTypes
<1>3. AllocInv
  BY DEF Init, AllocInv, NoJobs, Stages
<1>4. freePages = <<>> \/ freePages = <<0>>
  BY DEF Init
<1>5. OnePlace
  BY <1>4 DEF Init, OnePlace, NoPage
<1>6. {v \in alloc : PageOf(v) = 0} = {0}
  <2>1. PageOf(0) = 0
    BY <1>1, PageBounds
  <2> QED BY <2>1 DEF Init
<1>7. Filled(alloc, 0) <=> 100 > 66 * Capacity
  <2>1. Cardinality({0}) = 1
    BY FS_Singleton
  <2> QED BY <1>6, <2>1 DEF Filled
<1>8. RoomIsPlaced
  BY <1>1, <1>7 DEF Init, RoomIsPlaced, Placed, NoPage
<1>9. OwnerInv
  BY DEF Init, OwnerInv, ToFree, NoWork
<1>10. Passing
  BY <1>1 DEF Init, Passing, Stages
<1> QED BY <1>2, <1>3, <1>5, <1>8, <1>9, <1>10 DEF RoomInv

-----------------------------------------------------------------------------
(* Pages with room are queued once.                                         *)

\* A thread that does not wait has no worker with something to do.
LEMMA NobodyWorks ==
  ASSUME CallInv, AllocInv, NEW c \in Stages, at[c] # "wait" \/ Ready(c), NEW w \in Workers
  PROVE  job[c][w] # "push" /\ hand[c][w] = NoPage /\ todo[c][w] = {}
<1>1. Over(c)
  BY ReadyMeansOver DEF CallInv
<1>2. job[c][w] # "push"
  BY <1>1 DEF Over, Busy
<1> QED BY <1>1, <1>2 DEF CallInv, AllocInv, Over

LEMMA RoomStays ==
  ASSUME RoomInv, AllocInv', UNCHANGED <<alloc, numPages, freePages, page, hand>>, need' \in 0..MaxNew
  PROVE  RoomInv'
<1>1. RoomTypes'
  BY DEF RoomInv, RoomTypes
<1>2. OnePlace'
  BY DEF RoomInv, OnePlace
<1>3. RoomIsPlaced'
  BY DEF RoomInv, RoomIsPlaced, Placed
<1> QED BY <1>1, <1>2, <1>3 DEF RoomInv

LEMMA StartMapsRoom ==
  ASSUME CallInv, RoomInv, StartMaps
  PROVE  RoomInv'
<1>1. /\ at["maps"] = "idle" /\ need' \in 0..MaxNew
      /\ at'["maps"] = IF need' = 0 THEN "fork" ELSE "pop"
      /\ UNCHANGED <<alloc, numPages, freePages, page, hand, job>>
  BY DEF StartMaps, Goto, CallInv, CallTypes, Stages, pageVars
<1>2. AllocInv'
  <2>1. need' \in Nat
    BY <1>1, GraphCallsOK
  <2> QED BY <1>1, <2>1 DEF RoomInv, AllocInv
<1> QED BY <1>1, <1>2, RoomStays

LEMMA RoundRoom ==
  ASSUME CallInv, RoomInv, ForkMaps \/ StartEdges \/ SecondRound \/ StartRC
  PROVE  RoomInv'
<1>1. PICK c \in Stages :
        /\ at[c] # "wait" /\ (c = "maps" => at[c] = "fork") /\ at' = [at EXCEPT ![c] = "wait"]
        /\ job' = [job EXCEPT ![c] = [w \in Workers |-> "work"]]
        /\ UNCHANGED <<alloc, numPages, freePages, page, hand, need>>
  <2>1. CASE ForkMaps
    BY <2>1 DEF ForkMaps, Goto, Round, Stages, pageVars, allocVars
  <2>2. CASE StartEdges
    BY <2>2 DEF StartEdges, Goto, Round, Stages, pageVars, allocVars
  <2>3. CASE SecondRound
    BY <2>3 DEF SecondRound, Goto, Round, Stages, pageVars, allocVars
  <2>4. CASE StartRC
    BY <2>4 DEF StartRC, Goto, Round, Stages, allocVars
  <2> QED BY <2>1, <2>2, <2>3, <2>4
<1>2. \A w \in Workers : hand[c][w] = NoPage
  BY <1>1, NobodyWorks DEF RoomInv
<1>3. \A d \in Stages, w \in Workers :
        job'[d][w] = IF d = c THEN "work" ELSE job[d][w]
  BY <1>1 DEF CallInv, CallTypes
<1>4. at'["maps"] = at["maps"] \/ (at["maps"] = "fork" /\ at'["maps"] = "wait")
  BY <1>1 DEF CallInv, CallTypes, Stages
<1>5. AllocInv'
  BY <1>1, <1>2, <1>3, <1>4 DEF RoomInv, AllocInv
<1> QED BY <1>1, <1>5, RoomStays DEF RoomInv, RoomTypes

LEMMA JoinRoom ==
  ASSUME CallInv, RoomInv, NEW c \in Stages, Join(c)
  PROVE  RoomInv'
<1>1. /\ at[c] = "wait" /\ Ready(c) /\ job' = [job EXCEPT ![c] = NoJobs]
      /\ UNCHANGED <<alloc, numPages, freePages, page, hand, need>>
      /\ at' = [at EXCEPT ![c] = "idle"] \/ (c # "maps" /\ at' = [at EXCEPT ![c] = "fork"])
  BY DEF Join, Goto
<1>2. \A w \in Workers : hand[c][w] = NoPage
  BY <1>1, NobodyWorks DEF RoomInv
<1>3. \A d \in Stages, w \in Workers :
        job'[d][w] = IF d = c THEN "none" ELSE job[d][w]
  BY <1>1 DEF CallInv, CallTypes, NoJobs
<1>4. at'["maps"] = at["maps"] \/ (at["maps"] = "wait" /\ at'["maps"] = "idle")
  BY <1>1 DEF CallInv, CallTypes, Stages
<1>5. AllocInv'
  BY <1>1, <1>2, <1>3, <1>4 DEF RoomInv, AllocInv
<1> QED BY <1>1, <1>5, RoomStays DEF RoomInv, RoomTypes

LEMMA SignalRoom ==
  ASSUME CallInv, RoomInv, NEW c \in Stages, NEW w \in Workers, Vote(c, w) \/ Lock(c, w) \/ Notify(c, w)
  PROVE  RoomInv'
<1>1. PICK j : job' = [job EXCEPT ![c][w] = j] /\ j # "push" /\ job[c][w] # "push"
  BY DEF Vote, Lock, Notify, DoNext
<1>2. UNCHANGED <<alloc, numPages, freePages, page, hand, need, at>>
  BY DEF Vote, Lock, Notify, pageVars, allocVars
<1>3. \A d \in Stages, x \in Workers :
        job'[d][x] = "push" <=> job[d][x] = "push"
  BY <1>1 DEF CallInv, CallTypes
<1>4. AllocInv'
  BY <1>2, <1>3 DEF RoomInv, AllocInv
<1> QED BY <1>2, <1>4, RoomStays DEF RoomInv, RoomTypes

\* The head of the queue goes to the allocator.
LEMMA PopRoom ==
  ASSUME CallInv, RoomInv, Pop
  PROVE  RoomInv'
<1>1. /\ at["maps"] = "pop" /\ UNCHANGED <<alloc, numPages, hand, need, job>>
  BY DEF Pop
<1>2. need > 0 /\ page = NoPage
  BY <1>1 DEF RoomInv, AllocInv
<1>3. CASE freePages = <<>>
  <2>1. at'["maps"] = "grow" /\ UNCHANGED <<freePages, page>>
    BY <1>3 DEF Pop, Goto, CallInv, CallTypes, Stages
  <2>2. AllocInv'
    BY <1>1, <1>2, <2>1 DEF RoomInv, AllocInv
  <2> QED BY <1>1, <2>1, <2>2, RoomStays DEF RoomInv, RoomTypes
<1>4. CASE freePages # <<>>
  <2>1. at'["maps"] = "fill" /\ freePages' = Tail(freePages) /\ page' = Head(freePages)
    BY <1>4 DEF Pop, Goto, CallInv, CallTypes, Stages
  <2>2. freePages \in Seq(0..(numPages - 1)) /\ numPages \in Nat
    BY DEF RoomInv, RoomTypes
  <2>3. /\ Len(freePages) \in Nat /\ Len(freePages) > 0 /\ DOMAIN freePages = 1..Len(freePages)
        /\ freePages' \in Seq(0..(numPages - 1)) /\ DOMAIN freePages' = 1..(Len(freePages) - 1)
        /\ \A k \in DOMAIN freePages' : k + 1 \in DOMAIN freePages /\ freePages'[k] = freePages[k + 1] /\ k \in Nat
        /\ 1 \in DOMAIN freePages /\ page' = freePages[1] /\ page' \in 0..(numPages - 1)
    BY <1>4, <2>1, <2>2
  <2>4. page' # NoPage
    BY <2>2, <2>3 DEF NoPage
  <2>5. RoomTypes'
    BY <1>1, <2>3 DEF RoomInv, RoomTypes
  <2>6. AllocInv'
    BY <1>1, <1>2, <2>1, <2>4 DEF RoomInv, AllocInv
  <2>7. OnePlace'
    <3>1. \A k, l \in DOMAIN freePages' : freePages'[k] = freePages'[l] => k = l
      <4> SUFFICES ASSUME NEW k \in DOMAIN freePages', NEW l \in DOMAIN freePages', freePages'[k] = freePages'[l]
                   PROVE  k = l
        OBVIOUS
      <4>1. k + 1 = l + 1
        BY <2>3 DEF RoomInv, OnePlace
      <4> QED BY <2>3, <4>1
    <3>2. \A k \in DOMAIN freePages' : freePages'[k] # page'
      <4> SUFFICES ASSUME NEW k \in DOMAIN freePages', freePages'[k] = page' PROVE FALSE
        OBVIOUS
      <4>1. k + 1 = 1
        BY <2>3 DEF RoomInv, OnePlace
      <4> QED BY <2>3, <4>1
    <3>3. \A k \in DOMAIN freePages', c \in Stages, w \in Workers : freePages'[k] # hand'[c][w]
      BY <1>1, <2>3 DEF RoomInv, OnePlace
    <3>4. \A c \in Stages, w \in Workers : hand'[c][w] # NoPage => hand'[c][w] # page'
      BY <1>1, <2>3 DEF RoomInv, OnePlace
    <3> QED BY <1>1, <3>1, <3>2, <3>3, <3>4 DEF RoomInv, OnePlace
  <2>8. \A p \in 0..(numPages - 1) : Placed(p)' <=> Placed(p)
    <3> SUFFICES ASSUME NEW p \in 0..(numPages - 1) PROVE Placed(p)' <=> Placed(p)
      OBVIOUS
    <3>1. p # page
      BY <1>2, <2>2 DEF NoPage
    <3>2. (\E k \in DOMAIN freePages : freePages[k] = p) <=> page' = p \/ \E k \in DOMAIN freePages' : freePages'[k] = p
      <4>1. ASSUME NEW k \in DOMAIN freePages, freePages[k] = p, k # 1
            PROVE  k - 1 \in DOMAIN freePages' /\ freePages'[k - 1] = p
        <5>1. k - 1 \in DOMAIN freePages' /\ (k - 1) + 1 = k
          BY <2>3, <4>1
        <5>2. freePages'[k - 1] = freePages[(k - 1) + 1]
          BY <2>3, <5>1
        <5> QED BY <4>1, <5>1, <5>2
      <4> QED BY <2>3, <4>1
    <3> QED BY <1>1, <3>1, <3>2 DEF Placed
  <2> QED BY <1>1, <2>5, <2>6, <2>7, <2>8 DEF RoomInv, RoomIsPlaced
<1> QED BY <1>3, <1>4

\* A page goes to the end of the queue.
LEMMA QueuedAtEnd ==
  ASSUME RoomInv, NEW p \in 0..(numPages - 1), freePages' = Append(freePages, p)
  PROVE  /\ freePages' \in Seq(0..(numPages - 1)) /\ Len(freePages) \in Nat
         /\ DOMAIN freePages = 1..Len(freePages) /\ DOMAIN freePages' = 1..(Len(freePages) + 1)
         /\ \A k \in DOMAIN freePages' :
              \/ k \in DOMAIN freePages /\ freePages'[k] = freePages[k]
              \/ k = Len(freePages) + 1 /\ freePages'[k] = p
         /\ \A q : (\E k \in DOMAIN freePages' : freePages'[k] = q) <=>
                     q = p \/ \E k \in DOMAIN freePages : freePages[k] = q
<1>1. freePages \in Seq(0..(numPages - 1))
  BY DEF RoomInv, RoomTypes
<1>2. /\ freePages' \in Seq(0..(numPages - 1)) /\ Len(freePages) \in Nat
      /\ DOMAIN freePages = 1..Len(freePages) /\ DOMAIN freePages' = 1..(Len(freePages) + 1)
      /\ \A k \in DOMAIN freePages : freePages'[k] = freePages[k]
      /\ freePages'[Len(freePages) + 1] = p
  BY <1>1
<1>3. \A k \in DOMAIN freePages' : k \in DOMAIN freePages \/ k = Len(freePages) + 1
  BY <1>2
<1>4. DOMAIN freePages \subseteq DOMAIN freePages' /\ Len(freePages) + 1 \in DOMAIN freePages'
  BY <1>2
<1> QED BY <1>2, <1>3, <1>4

\* The allocator returns its page to the queue.
LEMMA PushRoom ==
  ASSUME CallInv, RoomInv, Push
  PROVE  RoomInv'
<1>1. /\ at["maps"] = "push" /\ at'["maps"] = "fork" /\ freePages' = Append(freePages, page)
      /\ page' = NoPage /\ UNCHANGED <<alloc, numPages, hand, need, job>>
  BY DEF Push, Goto, CallInv, CallTypes, Stages
<1>2. page # NoPage /\ page \in 0..(numPages - 1) /\ need = 0 /\ numPages \in Nat
  BY <1>1 DEF RoomInv, RoomTypes, AllocInv
<1>3. /\ freePages' \in Seq(0..(numPages - 1))
      /\ \A k \in DOMAIN freePages' :
           \/ k \in DOMAIN freePages /\ freePages'[k] = freePages[k]
           \/ k = Len(freePages) + 1 /\ freePages'[k] = page
      /\ \A q : (\E k \in DOMAIN freePages' : freePages'[k] = q) <=>
                  q = page \/ \E k \in DOMAIN freePages : freePages[k] = q
  BY <1>1, <1>2, QueuedAtEnd
<1>4. RoomTypes'
  BY <1>1, <1>3 DEF RoomInv, RoomTypes
<1>5. AllocInv'
  BY <1>1, <1>2 DEF RoomInv, AllocInv
<1>6. OnePlace'
  <2>1. \A k \in DOMAIN freePages' : freePages'[k] # page'
    <3>1. \A k \in DOMAIN freePages : freePages[k] # NoPage
      BY <1>2 DEF RoomInv, RoomTypes, NoPage
    <3> QED BY <1>1, <1>2, <1>3, <3>1
  <2>2. \A k, l \in DOMAIN freePages' : freePages'[k] = freePages'[l] => k = l
    BY <1>3 DEF RoomInv, OnePlace
  <2>3. \A k \in DOMAIN freePages', c \in Stages, w \in Workers : freePages'[k] # hand'[c][w]
    BY <1>1, <1>2, <1>3 DEF RoomInv, OnePlace
  <2> QED BY <1>1, <2>1, <2>2, <2>3 DEF RoomInv, OnePlace
<1>7. \A p \in 0..(numPages - 1) : Placed(p)' <=> Placed(p)
  <2>1. \A p \in 0..(numPages - 1) : p # NoPage
    BY <1>2 DEF NoPage
  <2> QED BY <1>1, <1>3, <2>1 DEF Placed
<1> QED BY <1>1, <1>4, <1>5, <1>6, <1>7 DEF RoomInv, RoomIsPlaced

\* A worker returns the page it made room on.
LEMMA PushFreedRoom ==
  ASSUME CallInv, RoomInv, NEW c \in Stages, NEW w \in Workers, PushFreed(c, w)
  PROVE  RoomInv'
<1> DEFINE p == hand[c][w]
<1>1. /\ job[c][w] = "push" /\ freePages' = Append(freePages, p)
      /\ hand' = [hand EXCEPT ![c][w] = NoPage] /\ job' = [job EXCEPT ![c][w] = "work"]
      /\ UNCHANGED <<alloc, numPages, need, page, at>>
  BY DEF PushFreed, DoNext, allocVars
<1>2. p # NoPage /\ p \in 0..(numPages - 1) /\ numPages \in Nat
  BY <1>1 DEF RoomInv, RoomTypes, AllocInv
<1>3. /\ freePages' \in Seq(0..(numPages - 1))
      /\ \A k \in DOMAIN freePages' :
           \/ k \in DOMAIN freePages /\ freePages'[k] = freePages[k]
           \/ k = Len(freePages) + 1 /\ freePages'[k] = p
      /\ \A q : (\E k \in DOMAIN freePages' : freePages'[k] = q) <=>
                  q = p \/ \E k \in DOMAIN freePages : freePages[k] = q
  <2> HIDE DEF p
  <2> QED BY <1>1, <1>2, QueuedAtEnd
<1>4. /\ hand' \in [Stages -> [Workers -> 0..(numPages - 1) \cup {NoPage}]]
      /\ \A d \in Stages, x \in Workers :
           hand'[d][x] = IF d = c /\ x = w THEN NoPage ELSE hand[d][x]
  BY <1>1 DEF RoomInv, RoomTypes
<1>5. \A d \in Stages, x \in Workers :
        job'[d][x] = IF d = c /\ x = w THEN "work" ELSE job[d][x]
  BY <1>1 DEF CallInv, CallTypes
<1>6. RoomTypes'
  BY <1>1, <1>3, <1>4 DEF RoomInv, RoomTypes
<1>7. AllocInv'
  BY <1>1, <1>4, <1>5 DEF RoomInv, AllocInv
<1>8. OnePlace'
  <2>1. \A k, l \in DOMAIN freePages' : freePages'[k] = freePages'[l] => k = l
    BY <1>3 DEF RoomInv, OnePlace
  <2>2. \A k \in DOMAIN freePages' : freePages'[k] # page'
    BY <1>1, <1>2, <1>3 DEF RoomInv, OnePlace
  <2>3. \A k \in DOMAIN freePages' : freePages'[k] # NoPage
    <3>1. \A k \in DOMAIN freePages : freePages[k] # NoPage
      BY <1>2 DEF RoomInv, RoomTypes, NoPage
    <3> QED BY <1>2, <1>3, <3>1
  <2>4. \A k \in DOMAIN freePages', d \in Stages, x \in Workers : freePages'[k] # hand'[d][x]
    <3> SUFFICES ASSUME NEW k \in DOMAIN freePages', NEW d \in Stages, NEW x \in Workers, freePages'[k] = hand'[d][x]
                 PROVE  FALSE
      OBVIOUS
    <3>1. ~ (d = c /\ x = w) /\ hand'[d][x] = hand[d][x]
      BY <1>4, <2>3
    <3>2. CASE k \in DOMAIN freePages /\ freePages'[k] = freePages[k]
      BY <3>1, <3>2 DEF RoomInv, OnePlace
    <3>3. CASE freePages'[k] = p
      BY <1>2, <3>1, <3>3 DEF RoomInv, OnePlace
    <3> QED BY <1>3, <3>2, <3>3
  <2>5. \A d \in Stages, x \in Workers : hand'[d][x] # NoPage => hand'[d][x] # page'
    BY <1>1, <1>4 DEF RoomInv, OnePlace
  <2>6. \A d, e \in Stages, x, y \in Workers :
          hand'[d][x] # NoPage /\ hand'[d][x] = hand'[e][y] => d = e /\ x = y
    BY <1>4 DEF RoomInv, OnePlace
  <2> QED BY <2>1, <2>2, <2>4, <2>5, <2>6 DEF OnePlace
<1>9. \A q \in 0..(numPages - 1) : Placed(q)' <=> Placed(q)
  <2> SUFFICES ASSUME NEW q \in 0..(numPages - 1) PROVE Placed(q)' <=> Placed(q)
    OBVIOUS
  <2>1. q # NoPage
    BY <1>2 DEF NoPage
  <2>2. (\E d \in Stages, x \in Workers : hand[d][x] = q) <=>
          q = p \/ \E d \in Stages, x \in Workers : hand'[d][x] = q
    BY <1>4, <2>1
  <2> QED BY <1>1, <1>3, <2>2 DEF Placed
<1> QED BY <1>1, <1>6, <1>7, <1>8, <1>9 DEF RoomInv, RoomIsPlaced

\* Freeing a vertex makes room on a filled page at most once: the worker that
\* crosses the threshold has the page in hand.
LEMMA FreeRoom ==
  ASSUME CallInv, RoomInv, OwnerInv, NEW c \in Stages, NEW w \in Workers, Free(c, w)
  PROVE  /\ RoomInv'
         /\ \E v \in todo[c][w] : alloc' = alloc \ {v} /\ todo' = [todo EXCEPT ![c][w] = @ \ {v}]
<1> DEFINE v == CHOOSE v \in todo[c][w] : \A u \in todo[c][w] : v <= u
           p == PageOf(v)
           crossed == Crossed(alloc, alloc \ {v}, p)
<1>1. v \in todo[c][w] /\ v \in alloc
  <2>1. todo[c][w] # {} /\ \A u \in todo[c][w] : u \in alloc
    BY DEF Free, OwnerInv, ToFree
  <2>2. todo[c][w] \subseteq Nat
    BY <2>1, AllocFinite DEF RoomInv
  <2>3. \E u \in todo[c][w] : \A x \in todo[c][w] : u <= x
    BY <2>1, <2>2, Least
  <2>4. v \in todo[c][w]
    BY <2>3
  <2> QED BY <2>1, <2>4
<1>2. /\ job[c][w] = "work" /\ alloc' = alloc \ {v} /\ todo' = [todo EXCEPT ![c][w] = @ \ {v}]
      /\ job' = [job EXCEPT ![c][w] = IF crossed THEN "push" ELSE "work"]
      /\ hand' = [hand EXCEPT ![c][w] = IF crossed THEN p ELSE NoPage]
      /\ UNCHANGED <<numPages, freePages, need, page, at>>
  BY DEF Free, DoNext, allocVars
<1> HIDE DEF v
<1>3. numPages \in Nat /\ p \in 0..(numPages - 1)
  <2>1. v \in Nat /\ v < numPages * Capacity /\ numPages \in Nat /\ numPages * Capacity \in Nat
    <3>1. v \in 0..(numPages * Capacity - 1) /\ numPages \in Nat
      BY <1>1 DEF RoomInv, RoomTypes
    <3> QED BY <3>1, Pages0
  <2>2. p \in Nat /\ p * Capacity <= v
    BY <2>1, PageBounds
  <2>3. p * Capacity \in Nat /\ (numPages <= p => numPages * Capacity <= p * Capacity)
    BY <2>1, <2>2, Pages0
  <2>4. p < numPages
    <3> HIDE DEF p
    <3> QED BY <2>1, <2>2, <2>3
  <2> HIDE DEF p
  <2> QED BY <2>1, <2>2, <2>4
<1>4. p # NoPage
  <2> HIDE DEF p
  <2> QED BY <1>3 DEF NoPage
<1>5. hand[c][w] = NoPage
  BY <1>2 DEF RoomInv, AllocInv
<1>6. \A q \in 0..(numPages - 1) : q # p => Filled(alloc', q) = Filled(alloc, q)
  <2> SUFFICES ASSUME NEW q \in 0..(numPages - 1), q # p PROVE Filled(alloc', q) = Filled(alloc, q)
    OBVIOUS
  <2> QED BY <1>2, FilledSame
<1>7. Filled(alloc', p) => Filled(alloc, p)
  <2>1. alloc' \subseteq alloc /\ IsFiniteSet(alloc)
    BY <1>2, AllocFinite DEF RoomInv
  <2> QED BY <2>1, FilledGrows
<1>8. crossed <=> Filled(alloc, p) /\ ~Filled(alloc', p)
  BY <1>2 DEF Crossed
<1>9. crossed => ~Placed(p)
  BY <1>3, <1>8 DEF RoomInv, RoomIsPlaced
<1> HIDE DEF p, crossed
<1>10. /\ hand' \in [Stages -> [Workers -> 0..(numPages - 1) \cup {NoPage}]]
       /\ \A d \in Stages, x \in Workers :
            hand'[d][x] = IF d = c /\ x = w /\ crossed THEN p ELSE hand[d][x]
  BY <1>2, <1>3, <1>5 DEF RoomInv, RoomTypes
<1>11. \A d \in Stages, x \in Workers :
         job'[d][x] = IF d = c /\ x = w THEN (IF crossed THEN "push" ELSE "work") ELSE job[d][x]
  BY <1>2 DEF CallInv, CallTypes
<1>12. RoomTypes'
  BY <1>2, <1>10 DEF RoomInv, RoomTypes
<1>13. AllocInv'
  BY <1>2, <1>4, <1>10, <1>11 DEF RoomInv, AllocInv
<1>14. OnePlace'
  <2>1. CASE crossed
    BY <1>2, <1>9, <1>10, <2>1 DEF RoomInv, OnePlace, Placed
  <2>2. CASE ~crossed
    BY <1>2, <1>10, <2>2 DEF RoomInv, OnePlace
  <2> QED BY <2>1, <2>2
<1>15. RoomIsPlaced'
  <2> SUFFICES ASSUME NEW q \in 0..(numPages - 1) PROVE Placed(q)' <=> ~Filled(alloc', q)
    BY <1>2 DEF RoomIsPlaced
  <2>1. Placed(q)' <=> Placed(q) \/ (crossed /\ q = p)
    BY <1>2, <1>5, <1>10, <1>3 DEF Placed, NoPage
  <2>2. Placed(q) <=> ~Filled(alloc, q)
    BY DEF RoomInv, RoomIsPlaced
  <2> QED BY <1>6, <1>7, <1>8, <2>1, <2>2
<1> QED BY <1>1, <1>2, <1>12, <1>13, <1>14, <1>15 DEF RoomInv

\* The allocator takes what it needs of a page, and all there is of one that does
\* not have enough: a page that is not filled has served the task.
LEMMA FillRoom ==
  ASSUME CallInv, RoomInv, Fill
  PROVE  RoomInv'
<1> DEFINE p == page
           free == {v \in Vertices : PageOf(v) = p /\ v \notin alloc}
           new == FirstFree(p, need)
           filled == Filled(alloc \cup new, p)
           rest == need - Cardinality(new)
<1>1. /\ at["maps"] = "fill" /\ alloc' = alloc \cup new /\ need' = rest
      /\ at'["maps"] = (IF ~filled THEN "push" ELSE IF rest > 0 THEN "pop" ELSE "fork")
      /\ page' = IF filled THEN NoPage ELSE p
      /\ UNCHANGED <<numPages, freePages, hand, job>>
  BY DEF Fill, Goto, CallInv, CallTypes, Stages
<1>2. /\ p # NoPage /\ p \in 0..(numPages - 1) /\ numPages \in Nat /\ p \in Nat /\ p < numPages
      /\ need \in Nat /\ need <= MaxNew /\ MaxNew \in Nat /\ numPages <= MaxPages /\ MaxPages \in Nat
  BY <1>1, GraphCallsOK DEF RoomInv, RoomTypes, AllocInv
<1>3. /\ p * Capacity \in Nat /\ numPages * Capacity \in Nat /\ MaxPages * Capacity \in Nat
      /\ (p * Capacity) + Capacity <= numPages * Capacity
      /\ numPages * Capacity <= MaxPages * Capacity /\ Capacity \in Nat
  BY <1>2, Pages0, GraphCallsOK
<1>4. free \subseteq Nat /\ IsFiniteSet(free) /\ new = {v \in free : Rank(free, v) < need}
  <2>1. Vertices \subseteq Nat /\ IsFiniteSet(Vertices)
    <3>1. 0 \in Int /\ MaxPages * Capacity - 1 \in Int
      BY <1>3
    <3> QED BY <3>1, FS_Interval DEF Vertices
  <2>2. free \in SUBSET Vertices
    OBVIOUS
  <2> QED BY <2>1, <2>2, FS_Subset DEF FirstFree
<1>5. Cardinality(new) \in Nat /\ Cardinality(new) <= need /\ (Cardinality(new) < need => new = free)
  BY <1>2, <1>4, FirstOnes
<1>6. rest \in Nat /\ rest <= need /\ (rest > 0 => Cardinality(new) < need)
  <2> HIDE DEF new, free
  <2> QED BY <1>2, <1>5
<1>7. ~filled => rest = 0
  <2> SUFFICES ASSUME rest > 0 PROVE filled
    BY <1>6
  <2>1. new = free
    BY <1>5, <1>6
  <2>2. ASSUME NEW v \in (p * Capacity)..((p * Capacity) + Capacity - 1) PROVE v \in alloc \cup new
    <3>1. v \in Nat /\ p * Capacity <= v /\ v < (p * Capacity) + Capacity
      BY <1>3
    <3>2. PageOf(v) = p
      BY <1>2, <3>1, PageBounds
    <3>3. v \in 0..(MaxPages * Capacity - 1)
      <4> HIDE DEF p
      <4> QED BY <1>3, <3>1
    <3> QED BY <2>1, <3>2, <3>3 DEF Vertices
  <2>3. alloc \cup new \subseteq Nat
    BY <1>4, AllocFinite DEF RoomInv
  <2> HIDE DEF p, new
  <2> QED BY <1>2, <2>2, <2>3, FullIsFilled
<1>8. \A v \in new : v \in Nat /\ PageOf(v) = p
  BY <1>4
<1>9. RoomTypes'
  <2>1. alloc' \subseteq 0..(numPages * Capacity - 1)
    <3>1. ASSUME NEW v \in new PROVE v \in 0..(numPages * Capacity - 1)
      <4>1. v \in Nat /\ v < (p * Capacity) + Capacity
        BY <1>2, <1>8, PageBounds
      <4> HIDE DEF p, new
      <4> QED BY <1>3, <4>1
    <3> QED BY <1>1, <3>1 DEF RoomInv, RoomTypes
  <2>2. need' \in 0..MaxNew
    <3> HIDE DEF rest
    <3> QED BY <1>1, <1>2, <1>6
  <2>3. page' \in 0..(numPages - 1) \cup {NoPage}
    BY <1>1, <1>2
  <2> HIDE DEF p, new, rest, filled
  <2> QED BY <1>1, <2>1, <2>2, <2>3 DEF RoomInv, RoomTypes
<1>10. AllocInv'
  <2> HIDE DEF p, rest, filled, new, free
  <2>1. page' # NoPage <=> at'["maps"] \in {"fill", "push"}
    BY <1>1, <1>2
  <2>2. at'["maps"] \in {"pop", "fill", "grow"} => need' > 0
    BY <1>1
  <2>3. at'["maps"] \in {"push", "fork"} => need' = 0
    BY <1>1, <1>6, <1>7
  <2> QED BY <1>1, <2>1, <2>2, <2>3 DEF RoomInv, AllocInv
<1>11. OnePlace'
  <2>1. \A k \in DOMAIN freePages : freePages[k] # NoPage
    BY <1>2 DEF RoomInv, RoomTypes, NoPage
  <2>2. page' = page \/ page' = NoPage
    BY <1>1
  <2> HIDE DEF p, new, filled
  <2> QED BY <1>1, <2>1, <2>2 DEF RoomInv, OnePlace
<1>12. RoomIsPlaced'
  <2> SUFFICES ASSUME NEW q \in 0..(numPages - 1) PROVE Placed(q)' <=> ~Filled(alloc', q)
    BY <1>1 DEF RoomIsPlaced
  <2>1. q # NoPage
    BY <1>2 DEF NoPage
  <2>2. CASE q # p
    <3>1. Filled(alloc', q) = Filled(alloc, q)
      <4>1. \A v : PageOf(v) = q => (v \in alloc' <=> v \in alloc)
        BY <1>1, <1>8, <2>2
      <4> QED BY <4>1, FilledSame
    <3>2. Placed(q)' <=> Placed(q)
      BY <1>1, <2>1, <2>2 DEF Placed
    <3> QED BY <3>1, <3>2 DEF RoomInv, RoomIsPlaced
  <2>3. CASE q = p
    <3>1. Placed(q)' <=> page' = p
      BY <1>1, <1>2, <2>3 DEF RoomInv, OnePlace, Placed
    <3>2. Filled(alloc', q) <=> filled
      BY <1>1, <2>3
    <3> QED BY <1>1, <1>2, <3>1, <3>2
  <2> QED BY <2>2, <2>3
<1> QED BY <1>9, <1>10, <1>11, <1>12 DEF RoomInv

LEMMA SeqOfFunction ==
  ASSUME NEW S, NEW n \in Nat, NEW s \in [1..n -> S]
  PROVE  s \in Seq(S)
OBVIOUS

LEMMA SeqWider ==
  ASSUME NEW A, NEW B, A \subseteq B, NEW s \in Seq(A)
  PROVE  s \in Seq(B)
<1>1. Len(s) \in Nat /\ s \in [1..Len(s) -> A]
  OBVIOUS
<1>2. s \in [1..Len(s) -> B]
  BY <1>1
<1> QED BY <1>1, <1>2, SeqOfFunction

\* The new pages are full but the last one.
LEMMA GrowRoom ==
  ASSUME CallInv, RoomInv, Grow
  PROVE  /\ RoomInv'
         /\ \E new : alloc' = alloc \cup new /\ got' = got \cup new /\ new \cap alloc = {}
<1> DEFINE K == NewPages(need)
           n == numPages + K
           first == numPages * Capacity
           new == (numPages * Capacity)..(numPages * Capacity + need - 1)
           filled == Filled(alloc \cup new, n - 1)
<1>1. /\ at["maps"] = "grow" /\ alloc' = alloc \cup new /\ got' = got \cup new /\ need' = 0 /\ n <= MaxPages
      /\ numPages' = n /\ at'["maps"] = (IF filled THEN "fork" ELSE "push")
      /\ page' = IF filled THEN NoPage ELSE n - 1
      /\ UNCHANGED <<freePages, hand, job>>
  BY DEF Grow, Goto, CallInv, CallTypes, Stages
<1>2. /\ numPages \in Nat /\ numPages > 0 /\ need \in Nat /\ need > 0 /\ Capacity \in Nat \ {0} /\ page = NoPage
      /\ MaxNew \in Nat
  BY <1>1, GraphCallsOK DEF RoomInv, RoomTypes, AllocInv
<1>3. K \in Nat /\ K > 0 /\ need <= K * Capacity /\ (K - 1) * Capacity < need
  <2>1. K = (need + Capacity - 1) \div Capacity /\ need + Capacity - 1 \in Nat
    BY <1>2 DEF NewPages
  <2>2. K \in Nat /\ K * Capacity <= need + Capacity - 1 /\ need + Capacity - 1 < (K * Capacity) + Capacity
    <3>1. \A a \in Nat : a \div Capacity \in Nat /\ (a \div Capacity) * Capacity <= a
                         /\ a < ((a \div Capacity) * Capacity) + Capacity
      BY <1>2
    <3> QED BY <2>1, <3>1
  <2> HIDE DEF K
  <2>3. K * Capacity \in Nat
    BY <1>2, <2>2
  <2>4. need <= K * Capacity
    BY <1>2, <2>2, <2>3
  <2>5. K # 0
    BY <1>2, <2>4
  <2>6. (K - 1) * Capacity = (K * Capacity) - Capacity
    BY <1>2, <2>2
  <2> QED BY <1>2, <2>2, <2>3, <2>4, <2>5, <2>6
<1> HIDE DEF K
<1>4. n \in Nat /\ n - 1 \in Nat /\ n > numPages /\ first \in Nat /\ n * Capacity \in Nat
      /\ first + (K * Capacity) = n * Capacity /\ K * Capacity \in Nat
      /\ first + ((K - 1) * Capacity) = (n - 1) * Capacity /\ (K - 1) * Capacity \in Nat
  BY <1>2, <1>3
<1>5. \A v \in new : v \in Nat /\ first <= v /\ v < n * Capacity
  <2> SUFFICES ASSUME NEW v \in new PROVE v \in Nat /\ first <= v /\ v < n * Capacity
    OBVIOUS
  <2>1. v \in Int /\ first <= v /\ v <= first + need - 1
    BY <1>2, <1>4
  <2> HIDE DEF n, first
  <2> QED BY <1>2, <1>3, <1>4, <2>1
<1>6. \A v \in alloc : v \in Nat /\ v < first
  <2>1. alloc \subseteq 0..(first - 1)
    BY DEF RoomInv, RoomTypes
  <2> HIDE DEF first
  <2> QED BY <1>4, <2>1
<1>7. new \cap alloc = {}
  <2> SUFFICES ASSUME NEW v \in new, v \in alloc PROVE FALSE
    OBVIOUS
  <2>1. v \in Nat /\ first <= v /\ v < first
    BY <1>5, <1>6
  <2> HIDE DEF first
  <2> QED BY <1>4, <2>1
<1>8. \A p \in 0..(numPages - 1) : Filled(alloc', p) = Filled(alloc, p)
  <2> SUFFICES ASSUME NEW p \in 0..(numPages - 1) PROVE Filled(alloc', p) = Filled(alloc, p)
    OBVIOUS
  <2>1. p \in Nat /\ p < numPages /\ (p * Capacity) + Capacity <= first
    BY <1>2, Pages0
  <2>2. ASSUME NEW v \in new PROVE PageOf(v) # p
    <3>1. v \in Nat /\ first <= v
      BY <1>5
    <3>2. PageOf(v) = p => v < (p * Capacity) + Capacity
      BY <2>1, <3>1, PageBounds
    <3>3. (p * Capacity) + Capacity \in Nat
      BY <1>2, <2>1
    <3> HIDE DEF first
    <3> QED BY <1>4, <2>1, <3>1, <3>2, <3>3
  <2>3. \A v : PageOf(v) = p => (v \in alloc' <=> v \in alloc)
    BY <1>1, <2>2
  <2> QED BY <2>3, FilledSame
<1>9. \A p \in numPages..(n - 2) : Filled(alloc', p)
  <2> SUFFICES ASSUME NEW p \in numPages..(n - 2) PROVE Filled(alloc', p)
    OBVIOUS
  <2>1. p \in Nat /\ numPages <= p /\ p < n - 1
    BY <1>2, <1>4
  <2>2. /\ p * Capacity \in Nat /\ first <= p * Capacity /\ (p * Capacity) + Capacity <= (n - 1) * Capacity
        /\ (n - 1) * Capacity \in Nat
    BY <1>2, <1>4, <2>1, Pages0
  <2>3. ASSUME NEW v \in (p * Capacity)..((p * Capacity) + Capacity - 1) PROVE v \in alloc'
    <3>1. v \in Int /\ p * Capacity <= v /\ v < (p * Capacity) + Capacity
      BY <1>2, <2>2
    <3>2. v \in first..(first + need - 1)
      <4> HIDE DEF first, n
      <4> QED BY <1>2, <1>3, <1>4, <2>2, <3>1
    <3> QED BY <1>1, <3>2
  <2>4. alloc' \subseteq Nat
    BY <1>1, <1>5, <1>6
  <2> QED BY <2>1, <2>3, <2>4, FullIsFilled
<1>10. /\ 0..(numPages - 1) \subseteq 0..(n - 1) /\ n - 1 \in 0..(n - 1) /\ n - 1 \notin 0..(numPages - 1)
       /\ \A p \in 0..(n - 1) : p \in 0..(numPages - 1) \/ p \in numPages..(n - 2) \/ p = n - 1
       /\ \A p \in numPages..(n - 1) : p \notin 0..(numPages - 1) /\ p # NoPage
       /\ numPages..(n - 2) \subseteq numPages..(n - 1) /\ n - 1 \notin numPages..(n - 2)
  <2> HIDE DEF n
  <2> QED BY <1>2, <1>4 DEF NoPage
<1>11. /\ \A k \in DOMAIN freePages : freePages[k] \in 0..(numPages - 1)
       /\ \A c \in Stages, w \in Workers : hand[c][w] \in 0..(numPages - 1) \cup {NoPage}
  BY DEF RoomInv, RoomTypes
<1>12. n - 1 # NoPage
  <2> HIDE DEF n
  <2> QED BY <1>4 DEF NoPage
<1>13. RoomTypes'
  <2>1. alloc' \subseteq 0..(n * Capacity - 1)
    <3>1. \A v \in new : v \in 0..(n * Capacity - 1)
      <4> HIDE DEF n, new
      <4> QED BY <1>4, <1>5
    <3>2. \A v \in alloc : v \in 0..(n * Capacity - 1)
      <4>1. first <= n * Capacity
        <5> HIDE DEF n, first
        <5> QED BY <1>4
      <4> HIDE DEF n, first
      <4> QED BY <1>4, <1>6, <4>1
    <3> QED BY <1>1, <3>1, <3>2
  <2>2. freePages \in Seq(0..(n - 1))
    <3>1. freePages \in Seq(0..(numPages - 1))
      BY DEF RoomInv, RoomTypes
    <3>2. 0..(numPages - 1) \subseteq 0..(n - 1)
      BY <1>10
    <3> HIDE DEF n
    <3> QED BY <3>1, <3>2, SeqWider
  <2>3. hand \in [Stages -> [Workers -> 0..(n - 1) \cup {NoPage}]]
    <3>1. hand \in [Stages -> [Workers -> 0..(numPages - 1) \cup {NoPage}]]
      BY DEF RoomInv, RoomTypes
    <3> HIDE DEF n
    <3> QED BY <1>10, <3>1
  <2>4. n > 0 /\ 0 \in 0..MaxNew
    BY <1>2, <1>4
  <2>5. page' \in 0..(n - 1) \cup {NoPage}
    BY <1>1, <1>10
  <2> HIDE DEF n, filled, new
  <2> QED BY <1>1, <1>4, <2>1, <2>2, <2>3, <2>4, <2>5 DEF RoomTypes
<1>14. AllocInv'
  <2> HIDE DEF n, filled, new
  <2> QED BY <1>1, <1>12 DEF RoomInv, AllocInv
<1>15. OnePlace'
  <2>1. page' = NoPage \/ page' = n - 1
    BY <1>1
  <2>2. \A k \in DOMAIN freePages : freePages[k] # NoPage /\ freePages[k] # n - 1
    <3>1. NoPage \notin 0..(numPages - 1)
      BY <1>2 DEF NoPage
    <3> HIDE DEF n
    <3> QED BY <1>10, <1>11, <3>1
  <2>3. \A c \in Stages, w \in Workers : hand[c][w] # n - 1
    <3> HIDE DEF n
    <3> QED BY <1>10, <1>11, <1>12
  <2> HIDE DEF n, filled, new
  <2> QED BY <1>1, <2>1, <2>2, <2>3 DEF RoomInv, OnePlace
<1>16. RoomIsPlaced'
  <2> SUFFICES ASSUME NEW p \in 0..(n - 1) PROVE Placed(p)' <=> ~Filled(alloc', p)
    BY <1>1 DEF RoomIsPlaced
  <2>1. CASE p \in 0..(numPages - 1)
    <3>1. p # n - 1 /\ p # NoPage
      BY <1>2, <1>10, <2>1 DEF NoPage
    <3>2. Placed(p)' <=> Placed(p)
      <4> HIDE DEF n, filled, new
      <4> QED BY <1>1, <1>2, <3>1 DEF Placed
    <3> QED BY <1>8, <2>1, <3>2 DEF RoomInv, RoomIsPlaced
  <2>2. CASE p \in numPages..(n - 1)
    <3>1. Placed(p)' <=> page' = p
      <4> HIDE DEF n, filled, new
      <4> QED BY <1>1, <1>10, <1>11, <2>2 DEF Placed
    <3>2. CASE p = n - 1
      <4>1. Filled(alloc', p) <=> filled
        BY <1>1, <3>2
      <4> HIDE DEF n, filled, new
      <4> QED BY <1>1, <1>12, <3>1, <3>2, <4>1
    <3>3. CASE p # n - 1
      <4>1. p \in numPages..(n - 2)
        BY <1>2, <1>4, <2>2, <3>3
      <4>2. Filled(alloc', p)
        BY <1>9, <4>1
      <4>3. page' # p
        <5> HIDE DEF n, filled, new
        <5> QED BY <1>1, <1>10, <2>2, <3>3
      <4> QED BY <3>1, <4>2, <4>3
    <3> QED BY <3>2, <3>3
  <2> QED BY <1>2, <1>4, <1>10, <2>1, <2>2
<1> QED BY <1>1, <1>7, <1>13, <1>14, <1>15, <1>16 DEF RoomInv

-----------------------------------------------------------------------------
(* Every vertex has one owner.                                              *)

\* Owners and places in a call do not change.
LEMMA OwnersStay ==
  ASSUME OwnerInv, UNCHANGED <<alloc, live, got>>, \A c \in Stages, w \in Workers : todo'[c][w] = todo[c][w]
  PROVE  OwnerInv'
<1>1. \A v : ToFree(v)' <=> ToFree(v)
  BY DEF ToFree
<1> QED BY <1>1 DEF OwnerInv

\* What the allocator takes was nobody's.
LEMMA OwnersGrow ==
  ASSUME OwnerInv, NEW new, new \cap alloc = {}, alloc' = alloc \cup new, got' = got \cup new,
         UNCHANGED <<live, todo>>
  PROVE  OwnerInv'
<1>1. \A v : ToFree(v)' <=> ToFree(v)
  BY DEF ToFree
<1>2. \A v \in new : v # 0 /\ v \notin live /\ v \notin got /\ ~ToFree(v)
  BY DEF OwnerInv
<1>3. \A v : v \in alloc' <=> v = 0 \/ v \in live' \/ v \in got' \/ ToFree(v)'
  BY <1>1 DEF OwnerInv
<1>4. live' \cap got' = {} /\ 0 \notin live' /\ 0 \notin got' /\ ~ToFree(0)'
  BY <1>1, <1>2 DEF OwnerInv
<1>5. \A v : ToFree(v)' => v \notin live' /\ v \notin got'
  BY <1>1, <1>2 DEF OwnerInv
<1>6. (\A v : \A c, d \in Stages, w, x \in Workers :
         v \in todo[c][w] /\ v \in todo[d][x] => c = d /\ w = x)'
  BY DEF OwnerInv
<1> QED BY <1>3, <1>4, <1>5, <1>6 DEF OwnerInv

LEMMA FillOwner ==
  ASSUME OwnerInv, Fill
  PROVE  OwnerInv'
<1>1. FirstFree(page, need) \cap alloc = {}
  BY DEF FirstFree
<1> QED BY <1>1, OwnersGrow DEF Fill

LEMMA RoundOwner ==
  ASSUME CallInv, RoomInv, OwnerInv, ForkMaps \/ StartEdges \/ SecondRound
  PROVE  OwnerInv'
<1>1. PICK c \in Stages :
        at[c] # "wait" /\ todo' = [todo EXCEPT ![c] = NoWork] /\ UNCHANGED <<alloc, live, got>>
  BY DEF ForkMaps, StartEdges, SecondRound, Round, Stages, pageVars, allocVars
<1>2. \A w \in Workers : todo[c][w] = {}
  BY <1>1, NobodyWorks DEF RoomInv
<1>3. \A d \in Stages, w \in Workers : todo'[d][w] = todo[d][w]
  BY <1>1, <1>2 DEF CallInv, CallTypes, NoWork
<1> QED BY <1>1, <1>3, OwnersStay

\* Vertices without references go to one worker each.
LEMMA StartRCOwner ==
  ASSUME CallInv, RoomInv, OwnerInv, StartRC
  PROVE  OwnerInv'
<1>1. PICK D \in SUBSET live :
        /\ at["rc"] # "wait" /\ live' = live \ D
        /\ todo' = [todo EXCEPT !["rc"] = [w \in Workers |-> Share(D, w)]]
        /\ UNCHANGED <<alloc, got>>
  BY DEF StartRC, Round, allocVars
<1>2. \A w \in Workers : todo["rc"][w] = {}
  BY <1>1, NobodyWorks DEF RoomInv, Stages
<1>3. \A d \in Stages, w \in Workers :
        todo'[d][w] = IF d = "rc" THEN Share(D, w) ELSE todo[d][w]
  BY <1>1 DEF CallInv, CallTypes
<1>4. D \subseteq Nat /\ IsFiniteSet(D)
  <2>1. D \in SUBSET alloc
    BY DEF OwnerInv
  <2>2. IsFiniteSet(alloc) /\ alloc \subseteq Nat
    BY AllocFinite DEF RoomInv
  <2> QED BY <2>1, <2>2, FS_Subset
<1>5. /\ \A w \in Workers : Share(D, w) \subseteq D
      /\ \A v \in D : \E w \in Workers : v \in Share(D, w)
      /\ \A v, w, x : w \in Workers /\ x \in Workers /\ v \in Share(D, w) /\ v \in Share(D, x) => w = x
  BY <1>4, SharesPartition
<1>6. "rc" \in Stages
  BY DEF Stages
<1>7. \A v : ToFree(v)' <=> ToFree(v) \/ v \in D
  <2>1. ASSUME NEW v, ToFree(v)' PROVE ToFree(v) \/ v \in D
    BY <1>3, <1>5, <2>1 DEF ToFree
  <2>2. ASSUME NEW v, ToFree(v) PROVE ToFree(v)'
    BY <1>2, <1>3, <2>2 DEF ToFree
  <2>3. ASSUME NEW v \in D PROVE ToFree(v)'
    BY <1>3, <1>5, <1>6 DEF ToFree
  <2> QED BY <2>1, <2>2, <2>3
<1>8. \A v \in D : v \in live /\ v # 0 /\ v \notin got /\ ~ToFree(v)
  BY DEF OwnerInv
<1>9. \A v : v \in alloc' <=> v = 0 \/ v \in live' \/ v \in got' \/ ToFree(v)'
  BY <1>1, <1>7 DEF OwnerInv
<1>10. 0 \notin live' /\ 0 \notin got' /\ ~ToFree(0)' /\ live' \cap got' = {}
  BY <1>1, <1>7, <1>8 DEF OwnerInv
<1>11. \A v : ToFree(v)' => v \notin live' /\ v \notin got'
  BY <1>1, <1>7, <1>8 DEF OwnerInv
<1>12. ASSUME NEW v, NEW c \in Stages, NEW d \in Stages, NEW w \in Workers, NEW x \in Workers,
              v \in todo'[c][w], v \in todo'[d][x]
       PROVE  c = d /\ w = x
  <2>1. CASE c = "rc" /\ d = "rc"
    BY <1>3, <1>5, <1>12, <2>1
  <2>2. CASE c = "rc" /\ d # "rc"
    BY <1>3, <1>5, <1>8, <1>12, <2>2 DEF ToFree
  <2>3. CASE c # "rc" /\ d = "rc"
    BY <1>3, <1>5, <1>8, <1>12, <2>3 DEF ToFree
  <2>4. CASE c # "rc" /\ d # "rc"
    BY <1>3, <1>12, <2>4 DEF OwnerInv
  <2> QED BY <2>1, <2>2, <2>3, <2>4
<1> QED BY <1>9, <1>10, <1>11, <1>12 DEF OwnerInv

LEMMA JoinOwner ==
  ASSUME OwnerInv, NEW c \in Stages, Join(c)
  PROVE  OwnerInv'
<1>1. /\ UNCHANGED <<alloc, todo>>
      /\ (live' = live \cup got /\ got' = {}) \/ UNCHANGED <<live, got>>
  BY DEF Join
<1>2. \A v : ToFree(v)' <=> ToFree(v)
  BY <1>1 DEF ToFree
<1> QED BY <1>1, <1>2 DEF OwnerInv

\* A vertex that is freed was its worker's only.
LEMMA FreeOwner ==
  ASSUME CallInv, OwnerInv, NEW c \in Stages, NEW w \in Workers, NEW v \in todo[c][w],
         alloc' = alloc \ {v}, todo' = [todo EXCEPT ![c][w] = @ \ {v}], UNCHANGED <<live, got>>
  PROVE  OwnerInv'
<1>1. \A d \in Stages, x \in Workers :
        todo'[d][x] = IF d = c /\ x = w THEN todo[c][w] \ {v} ELSE todo[d][x]
  BY DEF CallInv, CallTypes
<1>2. \A u : ToFree(u)' <=> ToFree(u) /\ u # v
  <2>1. ASSUME NEW u, ToFree(u)' PROVE ToFree(u) /\ u # v
    BY <1>1, <2>1 DEF ToFree, OwnerInv
  <2>2. ASSUME NEW u, ToFree(u), u # v PROVE ToFree(u)'
    <3>1. PICK d \in Stages, x \in Workers : u \in todo[d][x]
      BY <2>2 DEF ToFree
    <3>2. u \in todo'[d][x]
      BY <1>1, <2>2, <3>1
    <3> QED BY <3>2 DEF ToFree
  <2> QED BY <2>1, <2>2
<1>3. ToFree(v) /\ v # 0 /\ v \notin live /\ v \notin got
  BY DEF OwnerInv, ToFree
<1>4. \A u : u \in alloc' <=> u = 0 \/ u \in live' \/ u \in got' \/ ToFree(u)'
  BY <1>2, <1>3 DEF OwnerInv
<1>5. \A u : \A d, e \in Stages, x, y \in Workers :
        u \in todo'[d][x] /\ u \in todo'[e][y] => d = e /\ x = y
  BY <1>1 DEF OwnerInv
<1> QED BY <1>2, <1>4, <1>5 DEF OwnerInv

-----------------------------------------------------------------------------
(* All of it.                                                               *)

Inv == CallInv /\ RoomInv /\ OwnerInv

LEMMA StepInv == Inv /\ [Next]_vars => Inv'
<1> SUFFICES ASSUME Inv, [Next]_vars PROVE Inv'
  OBVIOUS
<1>0. CallInv /\ RoomInv /\ OwnerInv /\ CallInv'
  BY StepCallInv DEF Inv
<1>1. CASE UNCHANGED vars
  <2>1. UNCHANGED <<alloc, live, got, todo, numPages, freePages, page, hand, need, at, job>>
    BY <1>1 DEF vars, pageVars, allocVars, callVars
  <2>2. AllocInv'
    BY <1>0, <2>1 DEF RoomInv, AllocInv
  <2>3. RoomInv'
    BY <1>0, <2>1, <2>2, RoomStays DEF RoomInv, RoomTypes
  <2> QED BY <1>0, <2>1, <2>3, OwnersStay DEF Inv
<1>2. CASE StartMaps
  <2>1. UNCHANGED <<alloc, live, got, todo>>
    BY <1>2 DEF StartMaps, pageVars
  <2> QED BY <1>0, <1>2, <2>1, StartMapsRoom, OwnersStay DEF Inv
<1>3. CASE Pop
  <2>1. UNCHANGED <<alloc, live, got, todo>>
    BY <1>3 DEF Pop
  <2> QED BY <1>0, <1>3, <2>1, PopRoom, OwnersStay DEF Inv
<1>4. CASE Fill
  BY <1>0, <1>4, FillRoom, FillOwner DEF Inv
<1>5. CASE Grow
  <2>1. UNCHANGED <<live, todo>>
    BY <1>5 DEF Grow
  <2> QED BY <1>0, <1>5, <2>1, GrowRoom, OwnersGrow DEF Inv
<1>6. CASE Push
  <2>1. UNCHANGED <<alloc, live, got, todo>>
    BY <1>6 DEF Push
  <2> QED BY <1>0, <1>6, <2>1, PushRoom, OwnersStay DEF Inv
<1>7. CASE ForkMaps \/ StartEdges \/ SecondRound
  BY <1>0, <1>7, RoundRoom, RoundOwner DEF Inv
<1>8. CASE StartRC
  BY <1>0, <1>8, RoundRoom, StartRCOwner DEF Inv
<1>9. ASSUME NEW c \in Stages, Sleep(c) \/ WakeUp(c) PROVE Inv'
  <2>1. UNCHANGED <<alloc, live, got, todo, numPages, freePages, page, hand, need, at, job>>
    BY <1>9 DEF Sleep, WakeUp, pageVars, allocVars
  <2>2. AllocInv'
    BY <1>0, <2>1 DEF RoomInv, AllocInv
  <2>3. RoomInv'
    BY <1>0, <2>1, <2>2, RoomStays DEF RoomInv, RoomTypes
  <2> QED BY <1>0, <2>1, <2>3, OwnersStay DEF Inv
<1>10. ASSUME NEW c \in Stages, Join(c) PROVE Inv'
  BY <1>0, <1>10, JoinRoom, JoinOwner DEF Inv
<1>11. ASSUME NEW c \in Stages, NEW w \in Workers, Worker(c, w) PROVE Inv'
  <2>1. CASE Free(c, w)
    <3>1. UNCHANGED <<live, got>>
      BY <2>1 DEF Free, allocVars
    <3> QED BY <1>0, <2>1, <3>1, FreeRoom, FreeOwner DEF Inv
  <2>2. CASE PushFreed(c, w)
    <3>1. UNCHANGED <<alloc, live, got, todo>>
      BY <2>2 DEF PushFreed, allocVars
    <3> QED BY <1>0, <2>2, <3>1, PushFreedRoom, OwnersStay DEF Inv
  <2>3. CASE Vote(c, w) \/ Lock(c, w) \/ Notify(c, w)
    <3>1. UNCHANGED <<alloc, live, got, todo>>
      BY <2>3 DEF Vote, Lock, Notify, pageVars, allocVars
    <3> QED BY <1>0, <2>3, <3>1, SignalRoom, OwnersStay DEF Inv
  <2> QED BY <1>11, <2>1, <2>2, <2>3 DEF Worker
<1> QED BY <1>1, <1>2, <1>3, <1>4, <1>5, <1>6, <1>7, <1>8, <1>9, <1>10, <1>11 DEF Next, Allocator

LEMMA AlwaysInv == Spec => []Inv
<1>1. Init => Inv
  BY InitCallInv, InitRoom DEF Inv
<1> QED BY <1>1, StepInv, PTL DEF Spec

LEMMA AtMostOne ==
  ASSUME NEW S, \A x, y \in S : x = y
  PROVE  Cardinality(S) = IF S = {} THEN 0 ELSE 1
<1>1. CASE S = {}
  BY <1>1, FS_EmptySet
<1>2. CASE S # {}
  <2>1. PICK x : S = {x}
    BY <1>2
  <2> QED BY <1>2, <2>1, FS_Singleton
<1> QED BY <1>1, <1>2

\* For any number of workers, pages and tasks: whatever the allocator fills while
\* workers free, a page with room is in free_pages_, in the allocator's hand or in
\* one worker's, exactly once, and a page without room is in none.
THEOREM RoomStaysQueued == Spec => []RoomIsQueuedOnce
<1>1. Inv => RoomIsQueuedOnce
  <2> SUFFICES ASSUME Inv, NEW p \in 0..(numPages - 1)
               PROVE  Cardinality({k \in DOMAIN freePages : freePages[k] = p})
                        + (IF page = p THEN 1 ELSE 0)
                        + Cardinality({x \in Stages \X Workers : hand[x[1]][x[2]] = p})
                      = IF Filled(alloc, p) THEN 0 ELSE 1
    BY DEF RoomIsQueuedOnce
  <2> DEFINE Q == {k \in DOMAIN freePages : freePages[k] = p}
             H == {x \in Stages \X Workers : hand[x[1]][x[2]] = p}
  <2>0. OnePlace /\ (Placed(p) <=> ~Filled(alloc, p)) /\ p # NoPage
    BY DEF Inv, RoomInv, RoomIsPlaced, RoomTypes, NoPage
  <2>1. \A k, l \in Q : k = l
    BY <2>0 DEF OnePlace
  <2>2. \A x, y \in H : x = y
    <3> SUFFICES ASSUME NEW x \in H, NEW y \in H PROVE x = y
      OBVIOUS
    <3>1. x[1] = y[1] /\ x[2] = y[2]
      BY <2>0 DEF OnePlace
    <3> QED BY <3>1
  <2>3. Cardinality(Q) = (IF Q = {} THEN 0 ELSE 1) /\ Cardinality(H) = (IF H = {} THEN 0 ELSE 1)
    <3> HIDE DEF Q, H
    <3> QED BY <2>1, <2>2, AtMostOne
  <2>4. \A c \in Stages, w \in Workers : hand[c][w] = p => <<c, w>> \in H
    OBVIOUS
  <2>5. Placed(p) <=> Q # {} \/ page = p \/ H # {}
    BY <2>4 DEF Placed
  <2>6. /\ Q # {} => page # p /\ H = {}
        /\ page = p => H = {}
    BY <2>0 DEF OnePlace
  <2> HIDE DEF Q, H
  <2>7. Cardinality(Q) + (IF page = p THEN 1 ELSE 0) + Cardinality(H) = IF Filled(alloc, p) THEN 0 ELSE 1
    BY <2>0, <2>3, <2>5, <2>6
  <2> QED BY <2>7 DEF Q, H
<1> QED BY <1>1, AlwaysInv, PTL

\* For any number of workers, pages and tasks: a vertex that is allocated is the
\* root's, the maps', the allocating task's or one worker's, and only one of these.
THEOREM OneOwner == Spec => []VertexHasOneOwner
<1>1. Inv => VertexHasOneOwner
  <2> SUFFICES ASSUME Inv, NEW v \in Vertices
               PROVE  (IF v = 0 THEN 1 ELSE 0) + (IF v \in live THEN 1 ELSE 0)
                        + (IF v \in got THEN 1 ELSE 0)
                        + Cardinality({x \in Stages \X Workers : v \in todo[x[1]][x[2]]})
                      = IF v \in alloc THEN 1 ELSE 0
    BY DEF VertexHasOneOwner
  <2> DEFINE W == {x \in Stages \X Workers : v \in todo[x[1]][x[2]]}
  <2>1. \A x, y \in W : x = y
    <3> SUFFICES ASSUME NEW x \in W, NEW y \in W PROVE x = y
      OBVIOUS
    <3>1. x[1] = y[1] /\ x[2] = y[2]
      BY DEF Inv, OwnerInv
    <3> QED BY <3>1
  <2>2. Cardinality(W) = IF W = {} THEN 0 ELSE 1
    <3> HIDE DEF W
    <3> QED BY <2>1, AtMostOne
  <2>3. ToFree(v) <=> W # {}
    <3>1. \A c \in Stages, w \in Workers : v \in todo[c][w] => <<c, w>> \in W
      OBVIOUS
    <3> QED BY <3>1 DEF ToFree
  <2> HIDE DEF W
  <2>4. /\ v \in alloc <=> v = 0 \/ v \in live \/ v \in got \/ W # {}
        /\ v = 0 => v \notin live /\ v \notin got /\ W = {}
        /\ v \in live => v \notin got
        /\ W # {} => v \notin live /\ v \notin got
    BY <2>3 DEF Inv, OwnerInv
  <2>5. (IF v = 0 THEN 1 ELSE 0) + (IF v \in live THEN 1 ELSE 0) + (IF v \in got THEN 1 ELSE 0)
          + Cardinality(W) = IF v \in alloc THEN 1 ELSE 0
    BY <2>2, <2>4
  <2> QED BY <2>5 DEF W
<1> QED BY <1>1, AlwaysInv, PTL

-----------------------------------------------------------------------------
(* Types and bounds.                                                        *)

LEMMA StepPassing == Inv /\ Inv' /\ Passing /\ [Next]_vars => Passing'
<1> SUFFICES ASSUME Inv, Inv', Passing, [Next]_vars PROVE Passing'
  OBVIOUS
<1>0. MaxTasks \in Nat /\ NumWorkers \in Nat
  BY GraphCallsOK
<1>1. \A c \in Stages : count'[c] <= NumWorkers + 1
  <2> SUFFICES ASSUME NEW c \in Stages, at'[c] # "wait" PROVE count'[c] <= NumWorkers + 1
    <3>1. \A c \in Stages : at'[c] = "wait" => Waiting(c)'
      BY DEF Inv, CallInv
    <3>2. \A c \in Stages : Waiting(c)' => count'[c] <= NumWorkers + 1
      <4> SUFFICES ASSUME NEW c \in Stages, Waiting(c)' PROVE count'[c] <= NumWorkers + 1
        OBVIOUS
      <4>1. count'[c] \in Nat /\ NumWorkers \in Nat
        BY GraphCallsOK DEF Inv, CallInv, CallTypes
      <4>2. Cardinality(Busy(c)') \in Nat
        <5>1. Busy(c)' \in SUBSET Workers
          BY DEF Busy
        <5> QED BY <5>1, WorkersCount, FS_Subset, FS_CardinalityType
      <4> QED BY <4>1, <4>2 DEF Waiting, Counting, LastOne
    <3> QED BY <3>1, <3>2
  <2>1. count'[c] = count[c]
    <3>1. CASE \E d \in Stages, w \in Workers : Worker(d, w)
      <4>1. PICK d \in Stages, w \in Workers : Worker(d, w)
        BY <3>1
      <4>2. UNCHANGED at
        BY <4>1 DEF Worker, Free, PushFreed, Vote, Lock, Notify
      <4>3. CASE d = c
        <5>1. job[c][w] \notin {"work", "push", "lock"}
          BY <4>2, InCall DEF Inv
        <5>2. Notify(c, w)
          BY <4>1, <4>3, <5>1 DEF Worker, Free, PushFreed, Vote, Lock
        <5> QED BY <5>2 DEF Notify
      <4>4. CASE d # c
        BY <4>1, <4>4 DEF Worker, Free, PushFreed, Vote, Lock, Notify, Inv, CallInv, CallTypes
      <4> QED BY <4>3, <4>4
    <3>2. CASE ForkMaps \/ StartEdges \/ SecondRound \/ StartRC
      <4>1. PICK d \in Stages : at' = [at EXCEPT ![d] = "wait"] /\ count' = [count EXCEPT ![d] = 0]
        BY <3>2 DEF ForkMaps, StartEdges, SecondRound, StartRC, Goto, Round, Stages
      <4> QED BY <4>1 DEF Inv, CallInv, CallTypes
    <3>3. CASE StartMaps \/ Pop \/ Fill \/ Grow \/ Push
      BY <3>3 DEF StartMaps, Pop, Fill, Grow, Push
    <3>4. CASE \E d \in Stages : Sleep(d) \/ Join(d) \/ WakeUp(d)
      BY <3>4 DEF Sleep, Join, WakeUp
    <3>5. CASE UNCHANGED vars
      BY <3>5 DEF vars, callVars
    <3> QED BY <3>1, <3>2, <3>3, <3>4, <3>5 DEF Next, Allocator
  <2> QED BY <2>1 DEF Passing
<1>2. \/ UNCHANGED <<passed, asleep>> /\ \A c \in Stages : at'[c] # "idle" => at[c] # "idle"
      \/ UNCHANGED <<passed, asleep>> /\ StartMaps
      \/ UNCHANGED <<passed, asleep>> /\ StartEdges
      \/ UNCHANGED <<passed, asleep>> /\ StartRC
      \/ UNCHANGED <<passed, at>> /\ asleep' \in [Stages -> BOOLEAN]
      \/ UNCHANGED asleep /\ \E c \in Stages : Join(c)
  <2>1. CASE UNCHANGED vars
    BY <2>1 DEF vars, callVars
  <2>2. CASE StartMaps \/ StartEdges \/ StartRC
    BY <2>2 DEF StartMaps, StartEdges, StartRC
  <2>3. CASE Pop \/ Fill \/ Grow \/ Push \/ ForkMaps
    <3>1. /\ UNCHANGED <<passed, asleep>> /\ at["maps"] # "idle"
          /\ \E l : at' = [at EXCEPT !["maps"] = l]
      BY <2>3 DEF Pop, Fill, Grow, Push, ForkMaps, Goto
    <3> QED BY <3>1 DEF Inv, CallInv, CallTypes
  <2>4. CASE SecondRound
    <3>1. UNCHANGED <<passed, asleep>> /\ at["edges"] # "idle" /\ at' = [at EXCEPT !["edges"] = "wait"]
      BY <2>4 DEF SecondRound, Goto
    <3> QED BY <3>1 DEF Inv, CallInv, CallTypes
  <2>5. ASSUME NEW c \in Stages, Sleep(c) \/ WakeUp(c)
        PROVE  UNCHANGED <<passed, at>> /\ asleep' \in [Stages -> BOOLEAN]
    BY <2>5 DEF Sleep, WakeUp, Passing
  <2>6. ASSUME NEW c \in Stages, Join(c) PROVE UNCHANGED asleep
    BY <2>6 DEF Join
  <2>7. ASSUME NEW c \in Stages, NEW w \in Workers, Worker(c, w)
        PROVE  UNCHANGED <<passed, at>> /\ asleep' \in [Stages -> BOOLEAN]
    BY <2>7 DEF Worker, Free, PushFreed, Vote, Lock, Notify, Passing
  <2> QED BY <2>1, <2>2, <2>3, <2>4, <2>5, <2>6, <2>7 DEF Next, Allocator
<1>3. CASE UNCHANGED <<passed, asleep>> /\ \A c \in Stages : at'[c] # "idle" => at[c] # "idle"
  BY <1>1, <1>3 DEF Passing, Stages
<1>4. CASE UNCHANGED <<passed, asleep>> /\ StartMaps
  BY <1>1, <1>4 DEF StartMaps, Goto, Passing, Stages, Inv, CallInv, CallTypes
<1>5. CASE UNCHANGED <<passed, asleep>> /\ StartEdges
  BY <1>1, <1>5 DEF StartEdges, Goto, Passing, Stages, Inv, CallInv, CallTypes
<1>6. CASE UNCHANGED <<passed, asleep>> /\ StartRC
  BY <1>1, <1>6 DEF StartRC, Goto, Passing, Stages, Inv, CallInv, CallTypes
<1>7. CASE UNCHANGED <<passed, at>> /\ asleep' \in [Stages -> BOOLEAN]
  BY <1>1, <1>7 DEF Passing
<1>8. ASSUME UNCHANGED asleep, NEW c \in Stages, Join(c) PROVE Passing'
  <2>1. at[c] = "wait"
    BY <1>8 DEF Join
  <2>2. CASE at' = [at EXCEPT ![c] = "fork"] /\ UNCHANGED passed
    BY <1>1, <1>8, <2>1, <2>2 DEF Passing, Stages, Inv, CallInv, CallTypes
  <2>3. CASE at' = [at EXCEPT ![c] = "idle"] /\ passed' = [passed EXCEPT ![c] = @ + 1]
    <3>1. \A d \in Stages : /\ at'[d] = IF d = c THEN "idle" ELSE at[d]
                            /\ passed'[d] = IF d = c THEN passed[d] + 1 ELSE passed[d]
      BY <2>3 DEF Passing, Inv, CallInv, CallTypes
    <3>2. passed' \in [Stages -> Nat] /\ asleep' \in [Stages -> BOOLEAN] /\ \A d \in Stages : passed[d] \in Nat
      BY <1>8, <2>3 DEF Passing
    <3>3. /\ passed["maps"] <= MaxTasks /\ (at["maps"] # "idle" => passed["maps"] < MaxTasks)
          /\ passed["edges"] <= passed["maps"] /\ (at["edges"] # "idle" => passed["edges"] < passed["maps"])
          /\ passed["rc"] <= passed["edges"] /\ (at["rc"] # "idle" => passed["rc"] < passed["edges"])
      BY DEF Passing
    <3>4. c = "maps" \/ c = "edges" \/ c = "rc"
      BY DEF Stages
    <3>5. CASE c = "maps"
      BY <1>0, <1>1, <2>1, <3>1, <3>2, <3>3, <3>5 DEF Passing, Stages
    <3>6. CASE c = "edges"
      BY <1>0, <1>1, <2>1, <3>1, <3>2, <3>3, <3>6 DEF Passing, Stages
    <3>7. CASE c = "rc"
      BY <1>0, <1>1, <2>1, <3>1, <3>2, <3>3, <3>7 DEF Passing, Stages
    <3> QED BY <3>4, <3>5, <3>6, <3>7
  <2> QED BY <1>8, <2>2, <2>3 DEF Join, Goto
<1> QED BY <1>2, <1>3, <1>4, <1>5, <1>6, <1>7, <1>8

TodoType == todo \in [Stages -> [Workers -> SUBSET Nat]]

LEMMA StepTodo == Inv /\ TodoType /\ [Next]_vars => TodoType'
<1> SUFFICES ASSUME Inv, TodoType, [Next]_vars PROVE TodoType'
  OBVIOUS
<1>1. CASE ForkMaps \/ StartEdges \/ SecondRound
  <2>1. PICK c \in Stages : todo' = [todo EXCEPT ![c] = NoWork]
    BY <1>1 DEF ForkMaps, StartEdges, SecondRound, Round, Stages
  <2>2. NoWork \in [Workers -> SUBSET Nat]
    BY DEF NoWork
  <2> QED BY <2>1, <2>2 DEF TodoType
<1>2. CASE StartRC
  <2>1. PICK D \in SUBSET live : todo' = [todo EXCEPT !["rc"] = [w \in Workers |-> Share(D, w)]]
    BY <1>2 DEF StartRC, Round
  <2>2. \A w \in Workers : Share(D, w) \subseteq Nat
    <3>1. live \subseteq Nat
      BY AllocFinite DEF Inv, RoomInv, OwnerInv
    <3> QED BY <3>1 DEF Share
  <2>3. [w \in Workers |-> Share(D, w)] \in [Workers -> SUBSET Nat]
    BY <2>2
  <2> QED BY <2>1, <2>3 DEF TodoType
<1>3. ASSUME NEW c \in Stages, NEW w \in Workers, Free(c, w) PROVE TodoType'
  <2>1. PICK v : todo' = [todo EXCEPT ![c][w] = @ \ {v}]
    BY <1>3 DEF Free
  <2> QED BY <2>1 DEF TodoType
<1>4. CASE UNCHANGED todo
  BY <1>4 DEF TodoType
<1>5. CASE StartMaps \/ Pop \/ Fill \/ Grow \/ Push
  BY <1>4, <1>5 DEF StartMaps, Pop, Fill, Grow, Push
<1>6. ASSUME NEW c \in Stages, Sleep(c) \/ Join(c) \/ WakeUp(c) PROVE TodoType'
  BY <1>4, <1>6 DEF Sleep, Join, WakeUp
<1>7. ASSUME NEW c \in Stages, NEW w \in Workers, Worker(c, w) PROVE TodoType'
  BY <1>3, <1>4, <1>7 DEF Worker, PushFreed, Vote, Lock, Notify
<1>8. CASE UNCHANGED vars
  BY <1>4, <1>8 DEF vars, callVars
<1> QED BY <1>1, <1>2, <1>5, <1>6, <1>7, <1>8 DEF Next, Allocator

\* Counters, votes and pages stay in their ranges, and stages 2 and 4 name allocated
\* vertices only, for any number of workers, pages and tasks.
THEOREM TypeCorrect == Spec => []TypeOK
<1>1. Inv /\ Passing /\ TodoType => TypeOK
  <2> SUFFICES ASSUME Inv, Passing, TodoType PROVE TypeOK
    OBVIOUS
  <2>1. /\ MaxTasks \in Nat /\ NumWorkers \in Nat /\ MaxNew \in Nat /\ MaxPages \in Nat
    BY GraphCallsOK
  <2>2. /\ numPages \in Nat /\ numPages <= MaxPages /\ 0..(numPages - 1) \subseteq Pages
        /\ numPages \in 0..MaxPages
    BY <2>1 DEF Inv, RoomInv, RoomTypes, Pages
  <2>3. live \subseteq alloc /\ got \subseteq alloc
    BY DEF Inv, OwnerInv
  <2>4. passed \in [Stages -> 0..MaxTasks]
    <3>1. \A c \in Stages : passed[c] \in 0..MaxTasks
      BY <2>1 DEF Passing, Stages
    <3> QED BY <3>1 DEF Passing
  <2>5. count \in [Stages -> 0..(NumWorkers + 1)]
    <3>1. \A c \in Stages : count[c] \in 0..(NumWorkers + 1)
      BY <2>1 DEF Passing, Inv, CallInv, CallTypes
    <3> QED BY <3>1 DEF Inv, CallInv, CallTypes
  <2>6. todo \in [Stages -> [Workers -> SUBSET alloc]]
    <3>1. \A c \in Stages, w \in Workers : todo[c][w] \subseteq alloc
      BY DEF Inv, OwnerInv, ToFree
    <3>2. \A c \in Stages : todo[c] \in [Workers -> SUBSET alloc]
      BY <3>1 DEF TodoType
    <3> QED BY <3>2 DEF TodoType
  <2>7. hand \in [Stages -> [Workers -> Pages \cup {NoPage}]]
    BY <2>2 DEF Inv, RoomInv, RoomTypes
  <2>8. page \in Pages \cup {NoPage}
    BY <2>2 DEF Inv, RoomInv, RoomTypes
  <2> QED BY <2>2, <2>3, <2>4, <2>5, <2>6, <2>7, <2>8
          DEF TypeOK, Passing, Inv, CallInv, CallTypes, RoomInv, RoomTypes
<1>2. Init => Passing /\ TodoType
  <2>1. NoWork \in [Workers -> SUBSET Nat]
    BY DEF NoWork
  <2> QED BY <2>1, InitRoom DEF Init, TodoType
<1> QED BY <1>1, <1>2, AlwaysInv, StepPassing, StepTodo, PTL DEF Spec

\* A task that leaves the allocation has all its vertices: a page that was not
\* filled had room for the rest, so that pushing it back ends the allocation.
THEOREM AllocatesAll == Spec => [](at["maps"] \in {"push", "fork"} => need = 0)
<1>1. Inv => (at["maps"] \in {"push", "fork"} => need = 0)
  BY DEF Inv, RoomInv, AllocInv
<1> QED BY <1>1, AlwaysInv, PTL
=============================================================================
