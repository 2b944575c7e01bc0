SPECIFICATION FairSpec
CONSTANTS
  MaxCommits = 2
  MaxBreaks = 1
  Texts <- MCTexts
  FrameSizes <- MCFrameSizes
INVARIANTS
  CommitsSawAll
  AnswersMatch
  DeliveredInOrder
  ConversionsSurvive
PROPERTIES
  CallsReturn
  StopReturns
  SubscribesAgain
CHECK_DEADLOCK FALSE
