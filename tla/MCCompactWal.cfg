\* A compaction and deferred deletes, nothing failing.
SPECIFICATION Spec
CONSTANTS
    Rows = {r1, r2}
    Inserts = {i1}
    MaxAttempts = 1
    Settings <- Deferred
INVARIANT NoMutationEverLost
CHECK_DEADLOCK FALSE
