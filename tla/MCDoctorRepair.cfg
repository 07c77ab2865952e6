SPECIFICATION Spec
CONSTANTS
    g0 = g0
    t1 = t1
    t2 = t2
    t3 = t3
    Txns <- MCTxns
    Genesis = g0
    NoTxn = NoTxn
    Settings <- MCSettings
INVARIANT RepairSettles
INVARIANT VerdictsAreSound
INVARIANT NothingIsLost
PROPERTY RepairSparesSnapshots
SYMMETRY MCSymmetry
