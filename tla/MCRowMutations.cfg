CONSTANTS
    Null = Null
    StringOrder <- MCOrder
    Settings <- MCSettings
    MaxSeq = 5
SPECIFICATION Spec
CHECK_DEADLOCK FALSE
INVARIANTS
    OkMeansMeant
    RowIndexSound
    IndexesComplete
    ProviderIsFresh
PROPERTIES
    RowIdsAreStable
