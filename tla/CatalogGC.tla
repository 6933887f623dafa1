----------------------------- MODULE CatalogGC -----------------------------
(***************************************************************************)
(* What the garbage collector promises the users of the catalog: entities  *)
(* and references appear and go as clients say, and beyond that only what  *)
(* no client can reach any more disappears, in pieces and in any order     *)
(* that leaves no reference without its two ends.                          *)
(***************************************************************************)
CONSTANTS
    Vertices,   \* the entities that may ever exist, and the root
    Root,       \* the vertex (0, 0, 0) every root entity hangs from
    Schema      \* the references a client may make, as pairs <<source, dest>>

ASSUME GraphOK ==
    /\ Root \in Vertices
    /\ Schema \subseteq Vertices \X (Vertices \ {Root})

VARIABLES
    ents,       \* the entities in the catalog
    used,       \* the entities created so far: ids are never used again
    rels,       \* the references that are in force
    dropped,    \* references that are dropped and whose row is still there
    retained    \* those of the dropped references whose retention still runs

vars == <<ents, used, rels, dropped, retained>>

\* The vertices the root reaches over a set of references: the least closed set.
Closed(S, edges) == Root \in S /\ \A e \in edges : e[1] \in S => e[2] \in S
Reach(edges) == {v \in Vertices : \A S \in SUBSET Vertices : Closed(S, edges) => v \in S}

\* The vertices some reader may still follow references to.
InUse == Reach(rels \cup retained)

TypeOK ==
    /\ ents \subseteq used /\ used \subseteq Vertices \ {Root}
    /\ rels \subseteq Schema /\ dropped \subseteq Schema /\ retained \subseteq Schema

Init == ents = {} /\ used = {} /\ rels = {} /\ dropped = {} /\ retained = {}

\* A reference from a reachable entity to a new one, or to a reachable one.
ReferAnyone(e) ==    \* mutant: the source need not be reachable
    e[2] \in Reach(rels) \/ e[2] \notin used
MayRefer(e) ==
    /\ e[1] \in Reach(rels)
    /\ e[2] \in Reach(rels) \/ e[2] \notin used

Refer(e) ==
    /\ e \in Schema \ (rels \cup dropped)
    /\ MayRefer(e)
    /\ ents' = ents \cup {e[2]}
    /\ used' = used \cup {e[2]}
    /\ rels' = rels \cup {e}
    /\ UNCHANGED <<dropped, retained>>

\* A reference of the root has no row in the catalog and no retention.
Drop(e) ==
    /\ e \in rels
    /\ rels' = rels \ {e}
    /\ IF e[1] = Root THEN UNCHANGED <<dropped, retained>>
       ELSE dropped' = dropped \cup {e} /\ retained' = retained \cup {e}
    /\ UNCHANGED <<ents, used>>

Expire ==
    /\ \E E \in SUBSET retained : E # {} /\ retained' = retained \ E
    /\ UNCHANGED <<ents, used, rels, dropped>>

\* Some unreachable entities go, or some of the references they are part of, but
\* no entity before its references.
CollectDropped == Vertices \ Reach(rels)    \* mutant: retention is not honoured
Collectable == Vertices \ InUse

Touching(edges) == {e \in edges : {e[1], e[2]} \cap Collectable # {}}

Collect ==
    /\ ents' \in SUBSET ents /\ ents \ ents' \subseteq Collectable
    /\ \E R \in SUBSET Touching(rels) : rels' = rels \ R
    /\ \E D \in SUBSET Touching(dropped) : dropped' = dropped \ D
    /\ \A e \in rels' \cup dropped' : {e[1], e[2]} \subseteq ents' \cup {Root}
    /\ UNCHANGED <<used, retained>>

Next == (\E e \in Schema : Refer(e) \/ Drop(e)) \/ Expire \/ Collect

Spec == Init /\ [][Next]_vars
-----------------------------------------------------------------------------
(* Properties.                                                              *)

\* What a client or a reader of retained references can reach is in the catalog.
InUseIsThere == InUse \subseteq ents \cup {Root}

\* A row of a rel table never names an entity that is gone.
NothingDangles == \A e \in rels \cup dropped : {e[1], e[2]} \subseteq ents \cup {Root}
=============================================================================
