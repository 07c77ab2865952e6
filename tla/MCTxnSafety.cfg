\* Two transactions on two tables, in four settings: see MCTransactions.
SPECIFICATION FairSpec
CONSTANTS
    Txns = {x1, x2}
    NTables = 2
    Settings <- MCSettings
    MaxRestarts = 1
    MaxExternal = 1
INVARIANT AtomicBatch
INVARIANT ExactlyOnce
INVARIANT AckedCommitSurvives
PROPERTY CommitReturns
CHECK_DEADLOCK FALSE
