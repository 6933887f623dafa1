-------------------------- MODULE CatalogGCProofs --------------------------
(***************************************************************************)
(* The promise of CatalogGC keeps what it is for, for every set of         *)
(* entities and every schema: no row dangles, and what is in use is there. *)
(***************************************************************************)
EXTENDS CatalogGC, TLAPS

\* Ids are never used again: nothing hangs from an entity before it is created.
SourcesWereCreated == \A e \in rels \cup retained : e[1] \in used \cup {Root}

IInv == TypeOK /\ NothingDangles /\ SourcesWereCreated /\ InUseIsThere
-----------------------------------------------------------------------------
(* Reachability.                                                            *)

\* Every closed set holds what is reachable.
LEMMA ReachIsLeast ==
    ASSUME NEW edges, NEW S \in SUBSET Vertices, Closed(S, edges)
    PROVE  Reach(edges) \subseteq S
BY DEF Reach

\* What is reachable is closed under the references.
LEMMA ReachIsClosed ==
    ASSUME NEW edges \in SUBSET Schema
    PROVE  Closed(Reach(edges), edges)
<1>1. Root \in Reach(edges)
  BY GraphOK DEF Reach, Closed
<1>2. ASSUME NEW e \in edges, e[1] \in Reach(edges)
      PROVE  e[2] \in Reach(edges)
  <2>1. e[2] \in Vertices
    BY GraphOK
  <2>2. ASSUME NEW S \in SUBSET Vertices, Closed(S, edges)
        PROVE  e[2] \in S
    <3>1. e[1] \in S
      BY <1>2, <2>2, ReachIsLeast
    <3> QED
      BY <2>2, <3>1 DEF Closed
  <2> QED
    BY <2>1, <2>2 DEF Reach
<1> QED
  BY <1>1, <1>2 DEF Closed

\* Fewer references reach no more.
LEMMA ReachIsMonotone ==
    ASSUME NEW more \in SUBSET Schema, NEW fewer \in SUBSET more
    PROVE  Reach(fewer) \subseteq Reach(more)
<1>1. Closed(Reach(more), fewer)
  BY ReachIsClosed DEF Closed
<1>2. Reach(more) \in SUBSET Vertices
  BY DEF Reach
<1> QED
  BY <1>1, <1>2, ReachIsLeast
-----------------------------------------------------------------------------
(* The invariant.                                                           *)

LEMMA Initially == Init => IInv
<1> SUFFICES ASSUME Init PROVE IInv
  OBVIOUS
<1>1. TypeOK /\ NothingDangles /\ SourcesWereCreated
  BY DEF Init, TypeOK, NothingDangles, SourcesWereCreated
<1>2. Closed({Root}, rels \cup retained)
  BY DEF Init, Closed
<1>3. InUse \subseteq {Root}
  BY <1>2, ReachIsLeast, GraphOK DEF InUse
<1> QED
  BY <1>1, <1>3 DEF IInv, InUseIsThere

\* A new reference makes no more than its destination reachable.
LEMMA ReferKeeps ==
    ASSUME IInv, NEW e \in Schema, Refer(e)
    PROVE  IInv'
<1>1. e[1] \in Vertices /\ e[2] \in Vertices \ {Root}
  BY GraphOK
<1>2. TypeOK'
  BY <1>1 DEF IInv, TypeOK, Refer
<1>3. Reach(rels) \subseteq InUse
  BY ReachIsMonotone DEF IInv, TypeOK, InUse
<1>4. e[1] \in ents \cup {Root}
  BY <1>3 DEF IInv, InUseIsThere, Refer, MayRefer
<1>5. NothingDangles'
  BY <1>4 DEF IInv, NothingDangles, Refer
<1>6. SourcesWereCreated'
  BY <1>4 DEF IInv, TypeOK, SourcesWereCreated, Refer
<1>7. Closed(InUse \cup {e[2]}, rels' \cup retained')
  <2>1. Closed(InUse, rels \cup retained)
    BY ReachIsClosed DEF IInv, TypeOK, InUse
  <2>2. e[2] \in InUse \/ e[2] \notin used
    BY <1>3 DEF Refer, MayRefer
  <2>3. ASSUME NEW f \in rels \cup retained, f[1] \in InUse \cup {e[2]}
        PROVE  f[2] \in InUse
    <3>1. f[1] \in InUse
      BY <1>1, <2>2, <2>3 DEF IInv, SourcesWereCreated
    <3> QED
      BY <2>1, <3>1 DEF Closed
  <2>4. rels' \cup retained' = (rels \cup retained) \cup {e}
    BY DEF Refer
  <2> QED
    BY <2>1, <2>3, <2>4 DEF Closed
<1>8. InUse' \subseteq InUse \cup {e[2]}
  <2>1. InUse \cup {e[2]} \in SUBSET Vertices
    BY <1>1 DEF InUse, Reach
  <2> QED
    BY <1>7, <2>1, ReachIsLeast DEF InUse
<1>9. InUseIsThere'
  BY <1>8 DEF IInv, InUseIsThere, Refer
<1> QED
  BY <1>2, <1>5, <1>6, <1>9 DEF IInv

\* A step that adds no reference in use keeps reachable only what was.
LEMMA FewerInUse ==
    ASSUME TypeOK, rels' \cup retained' \subseteq rels \cup retained
    PROVE  InUse' \subseteq InUse
BY ReachIsMonotone DEF TypeOK, InUse

LEMMA DropKeeps ==
    ASSUME IInv, NEW e \in Schema, Drop(e)
    PROVE  IInv'
<1>1. TypeOK' /\ NothingDangles' /\ SourcesWereCreated'
  BY DEF IInv, TypeOK, NothingDangles, SourcesWereCreated, Drop
<1>2. InUse' \subseteq InUse
  BY FewerInUse DEF IInv, Drop
<1> QED
  BY <1>1, <1>2 DEF IInv, InUseIsThere, Drop

LEMMA ExpireKeeps ==
    ASSUME IInv, Expire
    PROVE  IInv'
<1>1. TypeOK' /\ NothingDangles' /\ SourcesWereCreated'
  BY DEF IInv, TypeOK, NothingDangles, SourcesWereCreated, Expire
<1>2. InUse' \subseteq InUse
  BY FewerInUse DEF IInv, Expire
<1> QED
  BY <1>1, <1>2 DEF IInv, InUseIsThere, Expire

\* What goes was not in use, and the references that go cannot make it so.
LEMMA CollectKeeps ==
    ASSUME IInv, Collect
    PROVE  IInv'
<1>1. rels' \subseteq rels /\ dropped' \subseteq dropped /\ retained' = retained
  BY DEF Collect, Touching
<1>2. ents' \subseteq ents /\ ents \ ents' \subseteq Collectable /\ used' = used
  BY DEF Collect
<1>3. TypeOK' /\ SourcesWereCreated'
  BY <1>1, <1>2 DEF IInv, TypeOK, SourcesWereCreated
<1>4. NothingDangles'
  BY DEF Collect, NothingDangles
<1>5. InUse' \subseteq InUse
  BY <1>1, FewerInUse DEF IInv
<1>6. InUse \subseteq ents' \cup {Root}
  BY <1>2 DEF IInv, InUseIsThere, Collectable
<1> QED
  BY <1>3, <1>4, <1>5, <1>6 DEF IInv, InUseIsThere

\* The promise is kept by every step.
LEMMA Inductive == IInv /\ [Next]_vars => IInv'
<1> SUFFICES ASSUME IInv, [Next]_vars PROVE IInv'
  OBVIOUS
<1>1. CASE \E e \in Schema : Refer(e)
  BY <1>1, ReferKeeps
<1>2. CASE \E e \in Schema : Drop(e)
  BY <1>2, DropKeeps
<1>3. CASE Expire
  BY <1>3, ExpireKeeps
<1>4. CASE Collect
  BY <1>4, CollectKeeps
<1>5. CASE UNCHANGED vars
  BY <1>5 DEF vars, IInv, TypeOK, NothingDangles, SourcesWereCreated, InUseIsThere,
              InUse, Reach, Closed
<1> QED
  BY <1>1, <1>2, <1>3, <1>4, <1>5 DEF Next
-----------------------------------------------------------------------------
(* The theorems.                                                            *)

\* The catalog keeps every entity a client or a reader of retained references
\* can reach, whatever is collected.
THEOREM WhatIsInUseStays == Spec => []InUseIsThere
<1>1. IInv => InUseIsThere
  BY DEF IInv
<1> QED
  BY Initially, Inductive, <1>1, PTL DEF Spec

\* No row of a rel table names an entity that is gone.
THEOREM NoRowDangles == Spec => []NothingDangles
<1>1. IInv => NothingDangles
  BY DEF IInv
<1> QED
  BY Initially, Inductive, <1>1, PTL DEF Spec
=============================================================================
