CONSTANTS
    Null = Null
    Batches <- MCBatches
    Layouts <- MCLayouts
    Queries <- MCQueries
    Configs <- MCConfigs
    MinRows = 2
    MinBytes = 4
    Window = 1
    BatchSize = 2
    MaxOps = 3
SPECIFICATION Spec
INVARIANTS
    CollectedIsPartOfTheAnswer
    DeliveredIsComplete
