\* Three calls after the first snapshot, process crashes and I/O errors.
CONSTANTS
    g0 = g0
    t1 = t1
    t2 = t2
    t3 = t3
    NoTxn = NoTxn
    Txns <- MCTxns
    Genesis = g0
    MaxSeq = 4
    MaxVer = 2
    Retains <- MCRetains
    Fresh = FALSE
SPECIFICATION Spec
SYMMETRY MCSymmetry
CHECK_DEADLOCK FALSE
INVARIANTS
    CommittedBytesNeverReplaced
    RetainedSnapshotsIntact
    AckedIsVisible
    IInv
