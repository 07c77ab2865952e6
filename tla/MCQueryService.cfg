CONSTANTS
    Null = Null
    p1 = p1
    p2 = p2
    Procs = {p1, p2}
    Settings <- MCSettings
    TinyRows = 2
    Budget = 3
    MaxEntry = 2
    MaxTries = 2
SPECIFICATION Spec
SYMMETRY MCSymmetry
INVARIANTS
    AnswersAreSnapshots
    HistoryIsExact
    ProviderIsConsistent
PROPERTIES
    PinnedNeverGoesBack
CHECK_DEADLOCK FALSE
