SPECIFICATION FairSpec
CONSTANTS
  Message = {m1, m2}
  Worker = {w1, w2}
  NoMessage = NoMessage
  MaxDeliver = 2
  MaxFaults = 2

INVARIANTS RecordsAreEarned AcceptancesBounded
PROPERTIES DeliveredForGood EventuallyNotified

CHECK_DEADLOCK FALSE
