--------------------------- MODULE MCFileManager ---------------------------
(* A small instance of FileManager for TLC: p and q are found by the same   *)
(* thread, in different partitions.                                         *)
EXTENDS FileManager, TLC

CONSTANTS p, q, e1, e2

TwoPaths == {p, q}
OneOfThem == {q}
ApartParts == (p :> 0) @@ (q :> 2)
OnceTwice == (p :> 1) @@ (q :> 2)
TwoExecutors == {e1, e2}
AnyExecutor == Permutations(TwoExecutors)
=============================================================================
