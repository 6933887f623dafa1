\* Stage 1 keeps up with the ingestor, but its deletions may not be sent.
SPECIFICATION FairSpec
CONSTANTS
    a1 = a1
    a2 = a2
    d1 = d1
    Txns <- MCTxns
    Adds <- MCAdds
    Autocommit <- MCAuto
    Retentions = {0}
    PromptClear = TRUE
    ClearOutcomes = {"ok", "unsent"}
    LastBegin = 2
    MaxEpoch = 4
    MaxTasks = 2
    MaxTime = 1
INVARIANTS AppliedAtMostOnce
PROPERTIES EventuallyApplied
CHECK_DEADLOCK FALSE
