----------------------------- MODULE VersionSet -----------------------------
(***************************************************************************)
(* What the version map promises for one file list: a set of version ids,  *)
(* and for a version that is removed the ids next to it, between which no  *)
(* version is left to see a file.                                          *)
(***************************************************************************)
EXTENDS Integers, FiniteSetsExt

CONSTANT MaxVid     \* bound: the largest version id
CONSTANT Invalid    \* VersionChain::invalid_vid_

Vids == 0..MaxVid

VARIABLES
    vids,       \* the version ids of the list; none: the map has no chain for it
    result      \* what the last removal returned

vars == <<vids, result>>

Below(S, v) == {w \in S : w < v}
Above(S, v) == {w \in S : w > v}

\* A new chain starts with a dummy version 0.
Inserted(S, v) == IF S = {} THEN {0, v} ELSE S \cup {v}

\* The neighbours of v, or the next ids where it has none.
Neighbours(S, v) ==
    <<IF Below(S, v) = {} THEN v - 1 ELSE Max(Below(S, v)),
      IF Above(S, v) = {} THEN v + 1 ELSE Min(Above(S, v))>>

Init == vids = {} /\ result = <<Invalid, Invalid>>

Insert(v) ==
    /\ vids' = Inserted(vids, v)
    /\ UNCHANGED result

Remove(v) ==
    /\ vids' = vids \ {v}
    /\ result' = IF v \in vids THEN Neighbours(vids, v) ELSE <<Invalid, Invalid>>

Next == \E v \in Vids : Insert(v) \/ Remove(v)

Spec == Init /\ [][Next]_vars
=============================================================================
