SPECIFICATION FairSpec
CONSTANTS
  Caller = {c1, c2}
  Username = TRUE
  PoolSize = 1
  MaxRetries = 2
  MaxCalls = 3

INVARIANTS AnswersAreEarned NothingLeftOpen
PROPERTIES EveryRequestAnswered

CHECK_DEADLOCK FALSE
