SPECIFICATION FairSpec
CONSTANTS
  g1 = g1
  g2 = g2
  Row = {1, 2}
  Poison = {2}
  Process = {q1}
  Groups <- TwoGroups
  BatchSize = 2
  MaxInflight = 1
  MaxDeliver = 2
  MaxFaults = 1
  MaxWFaults = 1

INVARIANTS NoEventLost
PROPERTIES PartsAgree EventuallySettled
