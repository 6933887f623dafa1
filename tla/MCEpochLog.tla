----------------------------- MODULE MCEpochLog -----------------------------
(* Small instances of EpochLog for TLC.                                     *)
EXTENDS EpochLog, TLC

CONSTANTS a1, a2, d1

MCTxns == {a1, a2, d1}
MCAdds == {a1, a2}
MCAuto == {d1}
Interchangeable == Permutations({a1, a2})
=============================================================================
