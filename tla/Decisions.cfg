SPECIFICATION FairSpec
CONSTANTS
  w1 = w1
  w2 = w2
  w3 = w3
  old = old
  new = new
  Policy = {old, new}
  Anchor = Anchor
  Worker = {w1, w2, w3}
  policyOf <- PolicyOf
  Request = {f1, f2}
  Nobody = Nobody
  MaxFaults = 1

INVARIANTS HistoryIsSound FewConflicts ForksOverlap
PROPERTIES EventuallyDecided
