\* Stage 1 lags behind the ingestor and may lose its connection for good.
SPECIFICATION Spec
CONSTANTS
    a1 = a1
    a2 = a2
    d1 = d1
    Txns <- MCTxns
    Adds <- MCAdds
    Autocommit <- MCAuto
    Retentions = {0, 1}
    PromptClear = FALSE
    ClearOutcomes = {"ok", "unsent", "unacknowledged"}
    LastBegin = 2
    MaxEpoch = 4
    MaxTasks = 2
    MaxTime = 2
INVARIANTS TypeOK NothingLost ConsistentCut
CHECK_DEADLOCK FALSE
SYMMETRY Interchangeable
