---------------------------- MODULE MCTableCommit ----------------------------
(* A small instance of TableCommit for TLC.                                 *)
EXTENDS TableCommit, TLC

CONSTANTS a, b, t1, t2

TwoClients == {a, b}
TwoTables == {t1, t2}
Interchangeable == Permutations(TwoClients) \cup Permutations(TwoTables)
=============================================================================
