SPECIFICATION FairSpec
CONSTANTS
  Actors = {a1, a2}
  NumReceivers = 2
  Reporters = {a1}
  Tables = {t1}
  MaxEpoch = 4
  MaxInFlight = 2
  MaxFailures = 1
INVARIANTS
  NoPanic
  SubscribersInStep
  AnsweredWhenPassed
  AnswersComplete
PROPERTIES
  EveryBarrierAnswered
CHECK_DEADLOCK FALSE
