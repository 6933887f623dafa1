------------------------------ MODULE TableLog ------------------------------
(***************************************************************************)
(* What the catalog service promises the writers and readers of tables: a  *)
(* table is a row of immutable snapshots.  A transaction adds the next     *)
(* snapshot to every table it writes, in one step; a snapshot that is not  *)
(* the newest of its table may disappear.                                  *)
(***************************************************************************)
EXTENDS Integers

CONSTANTS
    Tables,
    Names,      \* the files of a snapshot
    MaxVid      \* bound: the largest version id

VARIABLE snaps  \* snaps[t][v]: the files of version v of table t

Versions(t) == DOMAIN snaps[t]
IsNewest(t, v) == v \in Versions(t) /\ \A w \in Versions(t) : w <= v

Init == snaps = [t \in Tables |-> [v \in {0} |-> {}]]

\* Table t gets one more snapshot, of any files; those it has stay as they are.
Grows(t) ==
    \E v \in 0..(MaxVid - 1) :
        /\ IsNewest(t, v)
        /\ DOMAIN snaps'[t] = Versions(t) \cup {v + 1}
        /\ snaps'[t][v + 1] \subseteq Names
        /\ \A w \in Versions(t) : snaps'[t][w] = snaps[t][w]

Commit(T) ==
    /\ \A t \in T : Grows(t)
    /\ \A t \in Tables \ T : snaps'[t] = snaps[t]

Retire(t, v) ==
    /\ v \in Versions(t) /\ ~IsNewest(t, v)
    /\ snaps' = [snaps EXCEPT ![t] = [w \in Versions(t) \ {v} |-> snaps[t][w]]]

Next ==
    \/ \E T \in (SUBSET Tables) \ {{}} : Commit(T)
    \/ \E t \in Tables, v \in 0..MaxVid : Retire(t, v)

Spec == Init /\ [][Next]_snaps
=============================================================================
