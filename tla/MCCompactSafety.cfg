\* Three settings: see MCCompaction.
SPECIFICATION Spec
CONSTANTS
    Rows = {r1, r2, r3}
    Inserts = {i1, i2}
    MaxAttempts = 3
    Settings <- MCSettings
INVARIANT NoMutationLost
INVARIANT SnapshotIntact
PROPERTY HistoryOnlyGrows
CHECK_DEADLOCK FALSE
