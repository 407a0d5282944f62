SPECIFICATION Spec
CONSTANTS
  Caller = {c1, c2}
  Username = TRUE
  PoolSize = 1
  MaxRetries = 2
  MaxCalls = 3

INVARIANTS TransientIsRetried

CHECK_DEADLOCK FALSE
