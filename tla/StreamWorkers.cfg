SPECIFICATION FairSpec
CONSTANTS
  g1 = g1
  w1 = w1
  w2 = w2
  Row = {good, bad}
  Poison = {bad}
  Group = {g1}
  Worker = {w1, w2}
  groupOf <- TwoOfOneGroup
  BatchSize = 2
  MaxDeliver = 2
  MaxEntries = 2
  MaxFaults = 1

INVARIANTS NothingLost DeadLettersAreEarned
PROPERTIES ImplementsDelivery EventuallyAcked

CHECK_DEADLOCK FALSE
