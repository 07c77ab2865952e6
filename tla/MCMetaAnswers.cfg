\* Eight settings: see MCMetadataAnswers.
SPECIFICATION Spec
CONSTANTS
  Null = Null
  Inf = Inf
  NaN = NaN
  Rescan = Rescan
  Width = 2
  Settings <- MCSettings
INVARIANT AnswersMatchScan
INVARIANT PruneIsSound
CHECK_DEADLOCK FALSE
