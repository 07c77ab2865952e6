CONSTANTS
    Null = Null
    Settings <- AllSettings
    GroupThreshold = 1
    TinyThreshold = 3
    LookupThreshold = 3
    SumBits = 2
    MaxOps = 4
SPECIFICATION Spec
INVARIANTS
    RewritesKeepTheAnswer
    AnswerIsTheQuery
    EmittedComplete
    EveryGroupEmitted
    EmittedOnce
