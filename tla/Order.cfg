SPECIFICATION FairSpec
CONSTANTS
  Orders = {o1}
  Items = {i1, i2, i3}
INVARIANTS
  CompleteAnswerIsExact
  TimedOutAnswerIsPartial
  AnswerListsOnlyPublished
  NoResultLost
  CancelSparesCompleteAnswers
PROPERTIES
  OneAnswer
  EveryOrderAnswered
  EveryOrderDrains
  ImplementsPromise
