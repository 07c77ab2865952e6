\* Three calls, two fragments, in four settings: see MCMutationWal.
SPECIFICATION Spec
CONSTANTS
    Txns = {t1, t2, t3}
    Frags = {f1, f2}
    Settings <- MCSettings
    Threshold = 2
    NoTxn = NoTxn
SYMMETRY Symmetry
INVARIANT AckedIsLive
INVARIANT ReaderIsConsistent
PROPERTY CheckpointedIsForever
PROPERTY RefinesAtomicTable
CHECK_DEADLOCK FALSE
