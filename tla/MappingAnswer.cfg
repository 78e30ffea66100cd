SPECIFICATION AnswerSpec
CONSTANTS
  Start = 1
  Limit = 8
  Attempts = 3
  MaxNeed = 9
  MaxGrowths = 3
  M = 256
  MaxMappings = 12
  MaxTargets = 4
  Unit = 31
  Responses <- MCResponses
INVARIANTS
  TypeOK
  ExhaustedOnlyByGrowth
  TooLargeOnlyBeyondLimit
  NeverPanics
  AnswerIsExact
PROPERTY EveryTryIsLarger
CHECK_DEADLOCK FALSE
