\* A table whose pointer still says 0, two calls and the first: histories and progress.
CONSTANTS
    g0 = g0
    t1 = t1
    t2 = t2
    t3 = t3
    NoTxn = NoTxn
    Txns <- MCTwoTxns
    Genesis = g0
    MaxSeq = 3
    MaxVer = 2
    Retains <- MCRetains
    Fresh = TRUE
SPECIFICATION FairSpec
CHECK_DEADLOCK FALSE
PROPERTIES
    CommittedIsForever
    RefinesAtomicTable
    LockIsReleased
