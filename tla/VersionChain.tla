---------------------------- MODULE VersionChain ----------------------------
(***************************************************************************)
(* VersionMap and VersionChain for one file list: a doubly linked list of  *)
(* versions in ascending order with a pointer to its tail, and an index    *)
(* from version id to node.  The mutex of the list's stripe makes every    *)
(* operation atomic.  A node is named by its version id.                   *)
(***************************************************************************)
EXTENDS Integers, FiniteSets

CONSTANTS
    MaxVid,     \* bound: the largest version id
    Null        \* nullptr

Invalid == -1
Vids == 0..MaxVid

ASSUME ChainOK == MaxVid \in Nat /\ Null \notin Vids

VARIABLES
    version_idx,    \* the ids that have a node
    prev, next,     \* prev_ and next_ of the node of an id
    tail,           \* tail_; Null: the list has no chain in the map
    result          \* what the last removal returned; nobody reads insert's

vars == <<version_idx, prev, next, tail, result>>

Node == Vids \cup {Null}

TypeOK ==
    /\ version_idx \subseteq Vids
    /\ prev \in [Vids -> Node] /\ next \in [Vids -> Node]
    /\ tail \in Node

Init ==
    /\ version_idx = {}
    /\ prev = [v \in Vids |-> Null] /\ next = [v \in Vids |-> Null]
    /\ tail = Null
    /\ result = <<Invalid, Invalid>>

\* Walking back from n for the place of v: the last node that is not after v,
\* and the node that follows it.
SeekFromTail(p, n, v) == <<n, Null>>    \* mutant: the list is not searched
Seek(p, n, v) ==
    LET walk[at \in Node \X Node] ==
          IF at[1] # Null /\ at[1] > v THEN walk[<<p[at[1]], at[1]>>] ELSE at
    IN  walk[<<n, Null>>]

\* VersionMap::insert creates the chain of the list, with its dummy head, when
\* there is none; VersionChain::insert refuses an id it has.
Insert(v) ==
    LET idx == IF tail = Null THEN {0} ELSE version_idx
        last == IF tail = Null THEN 0 ELSE tail
        at == Seek(prev, last, v)
    IN  /\ IF v \in idx
           THEN version_idx' = idx /\ tail' = last /\ UNCHANGED <<prev, next>>
           ELSE /\ version_idx' = idx \cup {v}
                /\ prev' = [w \in Vids |-> IF w = v THEN at[1]
                                           ELSE IF w = at[2] THEN v ELSE prev[w]]
                /\ next' = [w \in Vids |-> IF w = v THEN at[2]
                                           ELSE IF w = at[1] THEN v ELSE next[w]]
                /\ tail' = IF at[1] = last THEN v ELSE last
        /\ UNCHANGED result

\* VersionChain::remove; VersionMap::remove destroys a chain without nodes.
UnlinkedOneWay(v, w) ==    \* mutant: the next node keeps its prev_
    IF w = v THEN Null ELSE prev[w]
Unlinked(v, w) == IF w = v THEN Null ELSE IF w = next[v] THEN prev[v] ELSE prev[w]

Remove(v) ==
    IF v \notin version_idx
    THEN result' = <<Invalid, Invalid>> /\ UNCHANGED <<version_idx, prev, next, tail>>
    ELSE /\ version_idx' = version_idx \ {v}
         /\ prev' = [w \in Vids |-> Unlinked(v, w)]
         /\ next' = [w \in Vids |-> IF w = v THEN Null
                                    ELSE IF w = prev[v] THEN next[v] ELSE next[w]]
         /\ tail' = IF tail = v THEN prev[v] ELSE tail
         /\ result' = <<IF prev[v] # Null THEN prev[v] ELSE v - 1,
                        IF next[v] # Null THEN next[v] ELSE v + 1>>

Next == \E v \in Vids : Insert(v) \/ Remove(v)

Spec == Init /\ [][Next]_vars

-----------------------------------------------------------------------------
(* Properties.                                                              *)

\* The links run through exactly the indexed versions, in ascending order and
\* the same way forwards and backwards: no operation leaves a node behind that
\* the index still names, or reaches one that is deleted.
WellLinked ==
    /\ TypeOK
    /\ tail # Null <=> version_idx # {}
    /\ tail # Null => tail \in version_idx /\ next[tail] = Null
    /\ \A v \in version_idx :
         /\ prev[v] # Null => prev[v] \in version_idx /\ prev[v] < v /\ next[prev[v]] = v
         /\ next[v] # Null => next[v] \in version_idx /\ next[v] > v /\ prev[next[v]] = v
         /\ next[v] = Null => v = tail
         /\ prev[v] = Null => \A w \in version_idx : v <= w

\* The chain behaves as a set of ids whose removal returns the neighbours.
Set == INSTANCE VersionSet WITH vids <- version_idx
ImplementsVersionSet == Set!Spec
=============================================================================
