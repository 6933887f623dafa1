---------------------------- MODULE MCGCPipeline ----------------------------
(* Small instances of GCPipeline for TLC.                                   *)
EXTENDS GCPipeline, TLC

CONSTANTS root, a, b, c, d, s0, s1, s2, s3

Three == {root, a, b}
Four == {root, a, b, c}
Five == {root, a, b, c, d}

\* Two root entities, one of which may also hang from the other.
Pair == {<<root, a>>, <<root, b>>, <<a, b>>}
\* A chain with a shortcut: c is shared by a and b.
Shared == {<<root, a>>, <<a, b>>, <<a, c>>, <<b, c>>}
\* Two chains, so that one can take the slots of the other.
Chains == {<<root, a>>, <<a, b>>, <<root, c>>, <<c, d>>}

ThreeSlots == {s0, s1, s2}
FourSlots == {s0, s1, s2, s3}
SlotSymmetry == Permutations(FourSlots \ {s0})
=============================================================================
