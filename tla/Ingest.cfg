SPECIFICATION FairSpec
CONSTANTS
  s = s
  s2 = s2
  e = e
  o = o
  x = x
  kS = kS
  kE = kE
  kO = kO
  r = r
  b = b
  NoKey = NoKey
  NoMessage = NoMessage
  Message = {s, s2, e, o, x}
  Published <- Cases
  Key = {kS, kE, kO}
  Entity = {r, b}
  Reviews = {r}
  keyOf <- Keys
  entityOf <- Entities
  lifecycle <- Lifecycles
  occurred <- Times
  Task = {t1, t2}
  MaxFaults = 1

INVARIANTS AckedIsStored PersistedOnce AuditIsHonest ReviewIsEarned
PROPERTIES EventuallyIngested

CHECK_DEADLOCK FALSE
